----------------------- MODULE ProofServerClientRuns ------------------------
(***************************************************************************)
(* The steps of the clients, the kernel and the poll loop keep RunsInv of  *)
(* ProofServerInvariant: lines are sent and read, answers are written,     *)
(* clients come and go.                                                    *)
(***************************************************************************)
EXTENDS ProofServerInvariant

\* Cutting s after n elements.
LEMMA CutAt ==
  ASSUME NEW S, NEW s \in Seq(S), NEW n \in 1 .. Len(s), NEW M, Single(At(s, M))
  PROVE  /\ Single(At(SubSeq(s, 1, n), M)) /\ Single(At(SubSeq(s, n + 1, Len(s)), M))
         /\ At(SubSeq(s, 1, n), M) = {} \/ At(SubSeq(s, n + 1, Len(s)), M) = {}
         /\ At(s, M) = {} <=> /\ At(SubSeq(s, 1, n), M) = {}
                              /\ At(SubSeq(s, n + 1, Len(s)), M) = {}
<1> DEFINE a == SubSeq(s, 1, n)
           b == SubSeq(s, n + 1, Len(s))
<1>1. /\ DOMAIN a = 1 .. n /\ \A k \in 1 .. n : a[k] = s[k]
      /\ DOMAIN b = 1 .. Len(s) - n /\ \A k \in 1 .. Len(s) - n : b[k] = s[k + n]
      /\ DOMAIN s = 1 .. Len(s) /\ Len(s) \in Nat /\ n \in Nat
  OBVIOUS
<1> HIDE DEF a, b
<1>2. /\ \A k \in At(a, M) : k \in At(s, M) /\ k \in 1 .. n
      /\ \A k \in At(b, M) : k + n \in At(s, M) /\ k \in Nat \ {0}
      /\ \A k \in At(s, M) : k \in Nat /\ (k \in At(a, M) \/ k - n \in At(b, M))
  <2>1. \A k \in At(a, M) : k \in At(s, M) /\ k \in 1 .. n
    BY <1>1 DEF At
  <2>2. \A k \in At(b, M) : k + n \in At(s, M) /\ k \in Nat \ {0}
    BY <1>1 DEF At
  <2>3. \A k \in At(s, M) : k \in Nat /\ (k \in At(a, M) \/ k - n \in At(b, M))
    BY <1>1 DEF At
  <2>4. QED
    BY <2>1, <2>2, <2>3
<1>3. QED
  BY <1>2 DEF Single, a, b

\* Dropping what is behind d.
LEMMA PrefixAt ==
  ASSUME NEW S, NEW d \in Seq(S), NEW o \in Seq(S), NEW M
  PROVE  /\ At(d, M) \subseteq At(d \o o, M)
         /\ \A j \in At(d \o o, M), i \in DOMAIN d : j < i => j \in At(d, M)
BY DEF At

\* Writing the first message of o behind d changes nothing in d and o.
LEMMA ConcatShift ==
  ASSUME NEW S, NEW d \in Seq(S), NEW o \in Seq(S), o # << >>
  PROVE  Append(d, Head(o)) \o Tail(o) = d \o o
OBVIOUS

\* Nothing waits.
LEMMA ConcatNothing ==
  ASSUME NEW S, NEW d \in Seq(S)
  PROVE  d \o << >> = d
OBVIOUS

\* The steps of the poll loop that look at no client keep the invariant.
LEMMA LoopRuns ==
  ASSUME RunsInv, poll_list_clean \/ poll \/ EndOfRound \/ child_event \/ ReapDone \/ EndOfLines
  PROVE  RunsInv'
<1>1. /\ UNCHANGED <<clients, delivered, socket, queue, processes, cancelled, asked, lines, status>>
      /\ lines = << >> \/ cur' = cur
  BY Zenon DEF poll_list_clean, poll, EndOfRound, child_event, ReapDone, EndOfLines, kernel, clientSide
<1>2. pc \in {"clean", "poll", "dispatch", "reap", "lines"}
  BY Zenon DEF poll_list_clean, poll, EndOfRound, child_event, ReapDone, EndOfLines
<1>3. QED
  BY <1>1, <1>2, StillRuns, Zenon DEF Up

\* The kernel, and clients that connect or leave, keep the invariant.
LEMMA OutsideRuns ==
  ASSUME IInv, RunsInv,
         \/ \E pid \in Pid : Exit(pid)
         \/ sigchld_handle
         \/ \E c \in Conn : Connect(c) \/ Disconnect(c)
  PROVE  RunsInv'
<1> TypeOK
  BY DEF IInv
<1>1. Up /\ UNCHANGED <<server, socket, asked, delivered, cancelled>>
  BY Zenon DEF Exit, sigchld_handle, Connect, Disconnect, kernel, clientSide
<1>2. \/ status' = status
      \/ \E c \in Conn, x \in {"open", "closed", "reset"} :
           /\ status' = [status EXCEPT ![c] = x]
           /\ x = "open" => status[c] = "new"
  BY Zenon DEF Exit, sigchld_handle, Connect, Disconnect, clientSide
<1>3. \A c \in Conn : status'[c] \in {"open", "new"} => status[c] \in {status'[c], "new"}
  BY <1>2, Zenon DEF TypeOK
<1>4. QED
  BY <1>1, <1>3, StillRuns, Zenon DEF server

\* A line that is sent.
LEMMA SendRuns ==
  ASSUME IInv, RunsInv, NEW d \in Conn, SendRun(d) \/ SendInterrupt(d) \/ SendParallel(d)
  PROVE  RunsInv'
<1> TypeOK
  BY DEF IInv
<1>1. PICK l \in Line :
        /\ Up /\ status[d] = "open"
        /\ socket' = [socket EXCEPT ![d] = Append(@, l)]
        /\ UNCHANGED <<server, status, delivered, cancelled>>
        /\ \/ /\ l = [cmd |-> "run", arg |-> asked[d].run + 1]
              /\ \A c \in Conn : asked'[c].run = IF c = d THEN asked[d].run + 1 ELSE asked[c].run
           \/ /\ l.cmd # "run"
              /\ \A c \in Conn : asked'[c].run = asked[c].run
  <2>1. asked[d].run \in Nat /\ \A c \in Conn : asked[c] \in [run : Nat, interrupt : SUBSET Nat, parallel : Nat]
    BY Zenon DEF TypeOK
  <2>2. \A cmd, arg : Send(d, cmd, arg) =>
          /\ Up /\ status[d] = "open"
          /\ socket' = [socket EXCEPT ![d] = Append(@, [cmd |-> cmd, arg |-> arg])]
          /\ UNCHANGED <<server, status, delivered, cancelled>>
    BY DEF Send
  <2>3. CASE SendRun(d)
    <3> DEFINE l == [cmd |-> "run", arg |-> asked[d].run + 1]
    <3>1. l \in Line
      BY <2>1 DEF Line
    <3>2. asked \in [Conn -> [run : Nat, interrupt : SUBSET Nat, parallel : Nat]]
      BY Zenon DEF TypeOK
    <3>3. asked' = [asked EXCEPT ![d].run = @ + 1] /\ Send(d, "run", asked[d].run + 1)
      BY <2>3, Zenon DEF SendRun
    <3>4. \A c \in Conn : asked'[c].run = IF c = d THEN asked[d].run + 1 ELSE asked[c].run
      BY <3>2, <3>3
    <3>5. QED
      BY <2>2, <3>1, <3>3, <3>4
  <2>4. CASE SendInterrupt(d)
    <3>1. PICK id \in 1 .. asked[d].run :
             /\ asked' = [asked EXCEPT ![d].interrupt = @ \cup {id}]
             /\ Send(d, "interrupt", id)
      BY <2>4, Zenon DEF SendInterrupt
    <3>2. [cmd |-> "interrupt", arg |-> id] \in Line
      BY <2>1 DEF Line
    <3>3. \A c \in Conn : asked'[c].run = asked[c].run
      BY <2>1, <3>1, Zenon DEF TypeOK
    <3>4. QED
      BY <2>2, <3>1, <3>2, <3>3, Zenon
  <2>5. CASE SendParallel(d)
    <3>1. PICK n \in ParallelArgs :
             /\ asked' = [asked EXCEPT ![d].parallel = @ + 1]
             /\ Send(d, "parallel", n)
      BY <2>5 DEF SendParallel
    <3>2. [cmd |-> "parallel", arg |-> n] \in Line
      BY ServerAssumption DEF Line
    <3>3. \A c \in Conn : asked'[c].run = asked[c].run
      BY <2>1, <3>1, Zenon DEF TypeOK
    <3>4. QED
      BY <2>2, <3>1, <3>2, <3>3
  <2>6. QED
    BY <2>3, <2>4, <2>5, Zenon
<1>2. /\ socket[d] \in Seq(Line) /\ asked[d].run \in Nat
      /\ \A c \in Conn : socket'[c] = IF c = d THEN Append(socket[d], l) ELSE socket[c]
  <2>1. socket \in [Conn -> Seq(Line)] /\ asked[d].run \in Nat
    BY Zenon DEF TypeOK
  <2>2. QED
    BY <1>1, <2>1
<1>3. \A c \in Conn : asked'[c].run = IF c = d /\ l.cmd = "run" THEN asked[d].run + 1 ELSE asked[c].run
  BY <1>1
<1>4. ASSUME NEW c \in Conn, NEW id \in Nat
      PROVE  /\ InLines(c, id)' = InLines(c, id) /\ InQueue(c, id)' = InQueue(c, id)
             /\ Active(c, id)' = Active(c, id) /\ Cancelled(c, id)' = Cancelled(c, id)
             /\ Reached(c)' = Reached(c) /\ \A kind : Told(c, id, kind)' = Told(c, id, kind)
  <2>1. Answers(c)' = Answers(c) /\ Reached(c)' = Reached(c) /\ Running' = Running
    BY <1>1 DEF Answers, Buffered, Connected, Reached, server, Running
  <2>2. QED
    BY <1>1, <2>1 DEF InLines, InQueue, Active, Cancelled, Told, At, RunLine, RunRequest, RunAnswer, server
<1>5. ASSUME NEW c \in Conn, NEW id \in Nat, RunOK(c, id)
      PROVE  KeepsRun(c, id) \/ RunOK(c, id)'
  <2>1. CASE l \in RunLine(id) /\ c = d
    <3>1. id = asked[c].run + 1 /\ asked'[c].run = asked[c].run + 1
      BY <1>1, <1>2, <1>3, <2>1 DEF RunLine
    <3>2. Sent(c, id)' = Sent(c, id) \cup {Len(socket[d]) + 1}
      BY <1>2, <2>1, AppendAt DEF Sent, RunLine
    <3>3. id > asked[c].run /\ ~ (id > asked'[c].run)
      BY <1>2, <2>1, <3>1
    <3>4. /\ Sent(c, id) = {} /\ InLines(c, id) = {} /\ InQueue(c, id) = {} /\ Active(c, id) = {}
          /\ ~ Cancelled(c, id) /\ Told(c, id, "S") = {} /\ Told(c, id, "F") = {}
      BY <1>5, <3>3, Zenon DEF RunOK, Somewhere
    <3>5. QED
      BY <1>4, <3>2, <3>3, <3>4, Zenon DEF RunOK, OnePlace, Somewhere, Single
  <2>2. CASE ~ (l \in RunLine(id) /\ c = d)
    <3>1. Sent(c, id)' = Sent(c, id)
      BY <1>2, <2>2, AppendAt DEF Sent, RunLine
    <3>2. /\ id > asked[c].run <=> id > asked'[c].run
          /\ id \in 1 .. asked'[c].run => id \in 1 .. asked[c].run
      <4>1. asked'[c].run = asked[c].run \/ (asked'[c].run = asked[c].run + 1 /\ id # asked[c].run + 1)
        BY <1>1, <1>3, <2>2, Zenon DEF RunLine
      <4>2. asked[c].run \in Nat
        BY Zenon DEF TypeOK
      <4>3. QED
        BY <4>1, <4>2
    <3>3. Awaited(c, id)' => Awaited(c, id)
      BY <1>1, <3>2 DEF Awaited, server, Up
    <3>4. QED
      BY <1>4, <3>1, <3>2, <3>3, Zenon DEF KeepsRun, Alike
  <2>3. QED
    BY <2>1, <2>2
<1>6. \A c \in Conn : status'[c] = "new" => asked'[c].run = 0
  BY <1>1, <1>3 DEF RunsInv
<1>7. QED
  BY <1>5, <1>6, OneRunMoved, Zenon

\* Writing an answer moves it from the buffer to what was delivered.
LEMMA WriteRuns ==
  ASSUME IInv, ConnInv, ConnInv', RunsInv, write_to_client PROVE RunsInv'
<1> TypeOK
  BY DEF IInv
<1> LinesOfClient
  BY DEF ConnInv
<1>1. /\ UNCHANGED <<processes, queue, cur, lines, socket, status, asked, cancelled>>
      /\ pc = "dispatch"
  BY Zenon DEF write_to_client, kernel
<1>2. CASE pc' = "killed" /\ UNCHANGED <<delivered, clients, poll_list>>
  BY <1>1, <1>2, StillRuns DEF Up
<1>3. ASSUME NEW fd \in Connected, clients[fd].out # << >>,
             delivered' = [delivered EXCEPT ![clients[fd].conn] = Append(@, Head(clients[fd].out))],
             clients' = [clients EXCEPT ![fd].out = Tail(@)]
      PROVE  RunsInv'
  <2>1. /\ fd \in Fd /\ clients[fd] \in Client /\ clients \in [Fd -> Client \cup {None}]
        /\ delivered \in [Conn -> Seq(Answer)] /\ clients[fd].conn \in Conn
    BY Zenon DEF TypeOK, Connected, Client
  <2>2. [clients[fd] EXCEPT !.out = Tail(@)] \in Client
    <3>1. Tail(clients[fd].out) \in Seq(Answer)
      BY <1>3, <2>1 DEF Client
    <3>2. QED
      BY <2>1, <3>1, Zenon DEF Client
  <2>3. /\ Connected' = Connected
        /\ \A f \in Connected : /\ clients'[f].conn = clients[f].conn
                                /\ clients'[f].out = IF f = fd THEN Tail(clients[f].out)
                                                               ELSE clients[f].out
    BY <1>3, <2>1, <2>2, NoneAssumption, Zenon DEF Connected, Client
  <2>4. BuffersAre /\ BuffersAre'
    <3>1. (ConnInv => BuffersAre)'
      BY BufferedIs, PTL
    <3>2. QED
      BY <3>1, BufferedIs
  <2>5. ASSUME NEW c \in Conn PROVE Answers(c)' = Answers(c)
    <3>1. CASE clients[fd].conn = c
      <4> DEFINE d == delivered[c]
                 o == clients[fd].out
      <4>1. d \in Seq(Answer) /\ o \in Seq(Answer) /\ o # << >>
        BY <1>3, <2>1 DEF Client
      <4>2. Buffered(c) = o /\ Buffered(c)' = Tail(o) /\ delivered'[c] = Append(d, Head(o))
        BY <1>3, <2>1, <2>3, <2>4, <3>1 DEF BuffersAre
      <4> HIDE DEF d, o
      <4>3. Append(d, Head(o)) \o Tail(o) = d \o o
        BY <4>1, ConcatShift, Zenon
      <4>4. QED
        BY <4>2, <4>3, Zenon DEF Answers, d
    <3>2. CASE clients[fd].conn # c
      <4>1. Buffered(c)' = Buffered(c)
        BY <2>3, <2>4, <3>2 DEF BuffersAre, Reached
      <4>2. delivered'[c] = delivered[c]
        BY <1>3, <2>1, <3>2, Zenon
      <4>3. QED
        BY <4>1, <4>2 DEF Answers
    <3>3. QED
      BY <3>1, <3>2
  <2>6. \A c \in Conn : Reached(c)' = Reached(c)
    BY <2>3 DEF Reached
  <2>7. lines = << >>
    BY <1>1 DEF LinesOfClient
  <2>8. QED
    BY <1>1, <2>5, <2>6, <2>7, QuietRuns, Zenon DEF Up
<1>4. QED
  BY <1>2, <1>3, WrittenFacts, Zenon

\* A connection that is accepted has no answers yet, and no process.
LEMMA AcceptRuns ==
  ASSUME IInv, ConnInv, ConnInv', RunsInv, server_accept_client PROVE RunsInv'
<1> TypeOK /\ EventsStillHold
  BY DEF IInv
<1> Owners /\ LinesOfClient
  BY DEF ConnInv
<1>1. /\ pc = "dispatch"
      /\ UNCHANGED <<processes, queue, cur, lines, socket, status, asked, delivered, cancelled>>
  BY DEF server_accept_client, clientSide
<1>2. PICK k \in Ready :
        /\ poll_list[k].fd = ListenFd
        /\ \/ \E fd \in Fd \ Connected :
                clients' = [clients EXCEPT ![fd] = [conn |-> Head(backlog), out |-> << >>]]
           \/ UNCHANGED clients
  BY Zenon DEF server_accept_client
<1>3. lines = << >>
  BY <1>1 DEF LinesOfClient
<1>4. CASE UNCHANGED clients
  BY <1>1, <1>3, <1>4, StillRuns, Zenon DEF Up
<1>5. ASSUME NEW fd \in Fd \ Connected,
             clients' = [clients EXCEPT ![fd] = [conn |-> Head(backlog), out |-> << >>]]
      PROVE  RunsInv'
  <2> DEFINE new == Head(backlog)
  <2>1. backlog \in Seq(Conn) /\ backlog # << >>
    BY <1>2, Zenon DEF TypeOK, EventsStillHold
  <2>2. new = backlog[1] /\ 1 \in DOMAIN backlog /\ new \in Conn
    BY <2>1
  <2>3. \A c, f : Owned(c, f) => c # new
    BY <2>2 DEF Owned, Accepted
  <2> HIDE DEF new
  <2>4. /\ Connected' = Connected \cup {fd}
        /\ clients'[fd].conn = new /\ clients'[fd].out = << >>
        /\ \A f \in Connected : clients'[f] = clients[f] /\ f # fd
    <3>1. clients \in [Fd -> Client \cup {None}] /\ [conn |-> new, out |-> << >>] \in Client
      BY <2>2 DEF TypeOK, Client
    <3>2. QED
      BY <1>5, <3>1, NoneAssumption DEF Connected, new
  <2>5. BuffersAre /\ BuffersAre'
    <3>1. (ConnInv => BuffersAre)'
      BY BufferedIs, PTL
    <3>2. QED
      BY <3>1, BufferedIs
  <2>6. ~ Reached(new) /\ \A id : Active(new, id) = {}
    BY <2>3 DEF Owners, Reached, Active
  <2>7. \A c \in Conn : c # new => Reached(c)' = Reached(c)
    BY <2>4 DEF Reached
  <2>8. \A c \in Conn : Buffered(c)' = Buffered(c)
    BY <2>4, <2>5, <2>6, <2>7 DEF BuffersAre, Reached
  <2>9. \A c \in Conn : Answers(c)' = Answers(c)
    BY <1>1, <2>8, Zenon DEF Answers
  <2>10. QED
    BY <1>1, <1>3, <2>6, <2>7, <2>9, QuietRuns, Zenon DEF Up
<1>6. QED
  BY <1>2, <1>4, <1>5, Zenon

\* A client that is closed takes with it the answers it was not sent.
LEMMA CloseRuns ==
  ASSUME IInv, ConnInv, ConnInv', RunsInv, NEW k \in Ready, poll_list[k].fd \in Connected,
         close_client(k, poll_list[k].fd), pc = "dispatch",
         status[clients[poll_list[k].fd].conn] # "open",
         UNCHANGED <<processes, queue, cur, lines, socket, status, asked, delivered, cancelled>>
  PROVE  RunsInv'
<1> TypeOK
  BY DEF IInv
<1> Owners /\ LinesOfClient
  BY DEF ConnInv
<1>1. PICK fd \in Connected, d \in Conn : /\ fd = poll_list[k].fd /\ d = clients[fd].conn
                                         /\ clients' = [clients EXCEPT ![fd] = None]
  BY NamedConns, Zenon DEF close_client, Named
<1>2. Connected' = Connected \ {fd} /\ \A f \in Connected' : clients'[f] = clients[f]
  BY <1>1, Zenon DEF Connected, TypeOK
<1>3. \A f \in Connected : clients[f].conn = d => f = fd
  BY <1>1 DEF Owners, Owned
<1>4. ~ Reached(d)' /\ \A c \in Conn \ {d} : Reached(c)' = Reached(c)
  BY <1>1, <1>2, <1>3 DEF Reached
<1>5. BuffersAre /\ BuffersAre'
  <2>1. (ConnInv => BuffersAre)'
    BY BufferedIs, PTL
  <2>2. QED
    BY <2>1, BufferedIs
<1>6. lines = << >>
  BY DEF LinesOfClient
<1>7. ASSUME NEW c \in Conn, NEW id \in Nat PROVE RunOK(c, id)'
  <2>1. /\ Sent(c, id)' = Sent(c, id) /\ InQueue(c, id)' = InQueue(c, id)
        /\ Active(c, id)' = Active(c, id) /\ Cancelled(c, id)' = Cancelled(c, id)
    BY DEF Sent, InQueue, Active, Running, Cancelled, RunLine, RunRequest, At
  <2>2. InLines(c, id)' = {} /\ InLines(c, id) = {}
    BY <1>6 DEF InLines, At
  <2>3. CASE c # d
    <3>1. Buffered(c)' = Buffered(c)
      <4>1. CASE Reached(c)
        <5>1. PICK f \in Connected : clients[f].conn = c
          BY <4>1, Zenon DEF Reached
        <5>2. f \in Connected' /\ clients'[f] = clients[f]
          BY <1>1, <1>2, <2>3, <5>1, Zenon
        <5>3. Buffered(c) = clients[f].out
          BY <1>5, <5>1, Zenon DEF BuffersAre
        <5>4. Buffered(c)' = clients'[f].out
          BY <1>5, <5>1, <5>2, Zenon DEF BuffersAre
        <5>5. QED
          BY <5>2, <5>3, <5>4, Zenon
      <4>2. CASE ~ Reached(c)
        BY <1>4, <1>5, <2>3, <4>2, Zenon DEF BuffersAre
      <4>3. QED
        BY <4>1, <4>2
    <3>2. \A kind : Told(c, id, kind)' = Told(c, id, kind)
      BY <3>1 DEF Told, RunAnswer, Answers
    <3>3. KeepsRun(c, id)
      BY <1>4, <2>1, <2>2, <2>3, <3>2, Zenon DEF KeepsRun, Alike, Awaited, Up
    <3>4. QED
      BY <3>3, RunKept DEF RunsInv
  <2>4. CASE c = d
    <3>1. Answers(c)' = delivered[c] /\ delivered[c] \in Seq(Answer)
      <4>1. delivered[c] \in Seq(Answer)
        BY Zenon DEF TypeOK
      <4>2. Answers(c)' = delivered[c] \o << >>
        BY <1>4, <1>5, <2>4, Zenon DEF BuffersAre, Answers
      <4>3. QED
        BY <4>1, <4>2, ConcatNothing, Zenon
    <3>2. \A kind : /\ Told(c, id, kind)' \subseteq Told(c, id, kind)
                    /\ \A j \in Told(c, id, kind), i \in Told(c, id, "F")' :
                         j < i => j \in Told(c, id, kind)'
      <4>1. Buffered(c) \in Seq(Answer) /\ delivered[c] \in Seq(Answer)
        BY AnswersType
      <4>2. \A kind : /\ Told(c, id, kind) = At(delivered[c] \o Buffered(c), RunAnswer(c, id, kind))
                      /\ Told(c, id, kind)' = At(delivered[c], RunAnswer(c, id, kind))
        BY <3>1 DEF Told, RunAnswer, Answers
      <4>3. Told(c, id, "F")' \subseteq DOMAIN delivered[c]
        BY <4>2 DEF At
      <4>4. QED
        BY <4>1, <4>2, <4>3, PrefixAt
    <3>3. ~ Awaited(c, id)'
      BY <1>1, <2>4, Zenon DEF Awaited
    <3>4. ~ Reached(c)'
      BY <1>4, <2>4
    <3>5. RunOK(c, id)
      BY DEF RunsInv
    <3>6. QED
      BY <2>1, <2>2, <3>2, <3>3, <3>4, <3>5, Zenon DEF RunOK, OnePlace, Somewhere, Single
  <2>5. QED
    BY <2>3, <2>4
<1>8. QED
  BY <1>7 DEF RunsInv

\* POLLERR closes a client that is gone.
LEMMA ErrorRuns == ASSUME IInv, ConnInv, ConnInv', RunsInv, client_error PROVE RunsInv'
<1>1. PICK k \in Ready : /\ poll_list[k].fd \in Connected /\ "ERR" \in poll_list[k].revents
                         /\ close_client(k, poll_list[k].fd)
  BY DEF client_error
<1>2. /\ pc = "dispatch"
      /\ UNCHANGED <<processes, queue, cur, lines, socket, status, asked, delivered, cancelled>>
  BY DEF client_error, kernel, clientSide
<1>3. status[clients[poll_list[k].fd].conn] # "open"
  BY <1>1 DEF ConnInv, ErrorsOfGone
<1>4. QED
  BY <1>1, <1>2, <1>3, CloseRuns, Zenon

\* Reading takes some of the lines of a client from its socket.
LEMMA ReadRuns == ASSUME IInv, ConnInv, ConnInv', RunsInv, read_on_client PROVE RunsInv'
<1> TypeOK
  BY DEF IInv
<1> LinesOfClient
  BY DEF ConnInv
<1>1. /\ pc = "dispatch" /\ UNCHANGED <<processes, queue, asked, delivered, cancelled>>
  BY Zenon DEF read_on_client
<1>2. lines = << >>
  BY <1>1 DEF LinesOfClient
<1>3. PICK k \in Ready, d \in Conn :
        LET fd == poll_list[k].fd
        IN  /\ fd \in Connected /\ d = clients[fd].conn
            /\ \/ \E n \in 1 .. Len(socket[d]) :
                    /\ lines' = SubSeq(socket[d], 1, n)
                    /\ socket' = [socket EXCEPT ![d] = SubSeq(@, n + 1, Len(@))]
                    /\ cur' = fd /\ pc' = "lines" /\ UNCHANGED <<clients, status>>
               \/ /\ status[d] = "closed" /\ close_client(k, fd)
                  /\ UNCHANGED <<lines, socket, cur, status>>
               \/ /\ status[d] = "reset" /\ status' = [status EXCEPT ![d] = "closed"]
                  /\ UNCHANGED <<lines, socket, cur, clients, pc>>
  <2>1. \A f \in Connected : clients[f].conn \in Conn
    BY NamedConns DEF Named
  <2>2. QED
    BY <2>1, Zenon DEF read_on_client
<1>4. CASE status[d] = "closed" /\ close_client(k, poll_list[k].fd) /\ UNCHANGED <<lines, socket, cur, status>>
  BY <1>1, <1>3, <1>4, CloseRuns, Zenon
<1>5. CASE status[d] = "reset" /\ status' = [status EXCEPT ![d] = "closed"] /\ UNCHANGED <<lines, socket, cur, clients, pc>>
  <2>1. \A c \in Conn : status'[c] \in {"open", "new"} => status[c] \in {status'[c], "new"}
    BY <1>5, Zenon DEF TypeOK
  <2>2. QED
    BY <1>1, <1>2, <1>5, <2>1, StillRuns, Zenon DEF Up
<1>6. ASSUME NEW n \in 1 .. Len(socket[d]),
             lines' = SubSeq(socket[d], 1, n),
             socket' = [socket EXCEPT ![d] = SubSeq(@, n + 1, Len(@))],
             cur' = poll_list[k].fd, pc' = "lines", UNCHANGED <<clients, status>>
      PROVE  RunsInv'
  <2>1. /\ clients'[cur'].conn = d /\ socket[d] \in Seq(Line)
        /\ \A c \in Conn : socket'[c] = IF c = d THEN SubSeq(socket[d], n + 1, Len(socket[d])) ELSE socket[c]
    BY <1>3, <1>6, Zenon DEF TypeOK
  <2>2. ASSUME NEW c \in Conn, NEW id \in Nat, RunOK(c, id) PROVE KeepsRun(c, id) \/ RunOK(c, id)'
    <3>1. /\ InQueue(c, id)' = InQueue(c, id) /\ Active(c, id)' = Active(c, id)
          /\ Cancelled(c, id)' = Cancelled(c, id)
      BY <1>1 DEF InQueue, Active, Running, Cancelled, RunRequest, At
    <3>2. Reached(c)' = Reached(c) /\ \A kind : Told(c, id, kind)' = Told(c, id, kind)
      BY <1>1, <1>6 DEF Reached, Connected, Told, RunAnswer, Answers, Buffered
    <3>3. Awaited(c, id)' <=> Awaited(c, id)
      BY <1>1, <1>6 DEF Awaited, Up
    <3>4. InLines(c, id) = {}
      BY <1>2 DEF InLines, At
    <3>5. CASE c # d
      <4>1. Sent(c, id)' = Sent(c, id) /\ InLines(c, id)' = {}
        BY <2>1, <3>5 DEF Sent, InLines, RunLine
      <4>2. QED
        BY <1>1, <3>1, <3>2, <3>3, <3>4, <4>1, Zenon DEF KeepsRun, Alike
    <3>6. CASE c = d
      <4>1. /\ Sent(c, id)' = At(SubSeq(socket[d], n + 1, Len(socket[d])), RunLine(id))
            /\ InLines(c, id)' = At(SubSeq(socket[d], 1, n), RunLine(id))
            /\ Sent(c, id) = At(socket[d], RunLine(id))
        BY <1>6, <2>1, <3>6, Zenon DEF Sent, InLines, RunLine
      <4>2. Single(Sent(c, id))
        BY <2>2 DEF RunOK, OnePlace
      <4>3. /\ Single(Sent(c, id)') /\ Single(InLines(c, id)')
            /\ Sent(c, id)' = {} \/ InLines(c, id)' = {}
            /\ Sent(c, id) = {} <=> Sent(c, id)' = {} /\ InLines(c, id)' = {}
        <5> DEFINE s == socket[d]
                   M == RunLine(id)
        <5>1. s \in Seq(Line) /\ n \in 1 .. Len(s) /\ Single(At(s, M))
          BY <2>1, <4>1, <4>2, Zenon
        <5> HIDE DEF s, M
        <5>2. /\ Single(At(SubSeq(s, 1, n), M)) /\ Single(At(SubSeq(s, n + 1, Len(s)), M))
              /\ At(SubSeq(s, 1, n), M) = {} \/ At(SubSeq(s, n + 1, Len(s)), M) = {}
              /\ At(s, M) = {} <=> /\ At(SubSeq(s, 1, n), M) = {}
                                   /\ At(SubSeq(s, n + 1, Len(s)), M) = {}
          BY <5>1, CutAt, Zenon
        <5>3. QED
          BY <4>1, <5>2, Zenon DEF s, M
      <4>4. QED
        BY <1>1, <2>2, <3>1, <3>2, <3>3, <3>4, <4>3, Zenon DEF RunOK, OnePlace, Somewhere
    <3>7. QED
      BY <3>5, <3>6
  <2>3. QED
    BY <1>1, <1>6, <2>2, OneRunMoved, Zenon DEF RunsInv
<1>7. QED
  BY <1>3, <1>4, <1>5, <1>6, Zenon
=============================================================================
