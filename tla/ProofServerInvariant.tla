------------------------ MODULE ProofServerInvariant ------------------------
(***************************************************************************)
(* The inductive invariant behind the theorems of ProofServerProofs, in    *)
(* three layers: the lists of the server (IInv), whose client a descriptor *)
(* is (ConnInv), where every run request is and what was answered to it    *)
(* (RunsInv).  The lemmas are the ones several of the other proof modules  *)
(* cite.                                                                   *)
(***************************************************************************)
EXTENDS ProofServer, TLAPS

IInv ==
  /\ TypeOK
  /\ ProcessesAreChildren
  /\ NoLostChild
  /\ PollListOK
  /\ EventsStillHold

-----------------------------------------------------------------------------
(***************************************************************************)
(* The poll list and the write buffers.                                    *)
(***************************************************************************)
\* A function on 1 .. n with poll entries as values is a poll list.
LEMMA SeqOfEntries ==
  ASSUME NEW pl, NEW n \in Nat, DOMAIN pl = 1 .. n, pl = [k \in 1 .. n |-> pl[k]],
         \A k \in 1 .. n : pl[k] \in PollEntry
  PROVE  pl \in Seq(PollEntry)
OBVIOUS

\* Marking entry k as handled changes its revents and nothing else.
LEMMA HandledFacts ==
  ASSUME IInv, NEW k \in DOMAIN poll_list
  PROVE  /\ Handled(k) \in Seq(PollEntry)
         /\ DOMAIN Handled(k) = DOMAIN poll_list
         /\ \A j \in DOMAIN poll_list :
              /\ Handled(k)[j].fd = poll_list[j].fd
              /\ Handled(k)[j].pollout = poll_list[j].pollout
              /\ Handled(k)[j].revents = IF j = k THEN {} ELSE poll_list[j].revents
<1> TypeOK
  BY DEF IInv
<1> DEFINE pl == poll_list
           new == [pl EXCEPT ![k].revents = {}]
<1>0. pl \in Seq(PollEntry) /\ Handled(k) = new
  BY DEF TypeOK, Handled
<1>1. pl[k] \in PollEntry /\ \A j \in DOMAIN pl : pl[j] \in PollEntry
  BY <1>0
<1>2. DOMAIN new = DOMAIN pl /\ DOMAIN pl = 1 .. Len(pl) /\ Len(pl) \in Nat
  BY <1>0
<1>3. \A j \in DOMAIN pl : new[j] = IF j = k THEN [pl[k] EXCEPT !.revents = {}] ELSE pl[j]
  OBVIOUS
<1>4. /\ [pl[k] EXCEPT !.revents = {}] \in PollEntry
      /\ [pl[k] EXCEPT !.revents = {}].fd = pl[k].fd
      /\ [pl[k] EXCEPT !.revents = {}].pollout = pl[k].pollout
      /\ [pl[k] EXCEPT !.revents = {}].revents = {}
  BY <1>1 DEF PollEntry, Events
<1>5. \A j \in 1 .. Len(pl) : new[j] \in PollEntry
  BY <1>1, <1>2, <1>3, <1>4
<1>6. new \in Seq(PollEntry)
  <2>1. new = [j \in 1 .. Len(pl) |-> new[j]]
    BY <1>2, Zenon
  <2>2. QED
    BY <1>2, <1>5, <2>1, SeqOfEntries, Zenon
<1>7. QED
  BY <1>0, <1>2, <1>3, <1>4, <1>6

\* Asking for POLLOUT changes the pollout field of the entries of that fd only.
LEMMA WantOutFacts ==
  ASSUME NEW pl \in Seq(PollEntry), NEW fd, NEW b \in BOOLEAN
  PROVE  /\ WantOut(pl, fd, b) \in Seq(PollEntry)
         /\ DOMAIN WantOut(pl, fd, b) = DOMAIN pl
         /\ \A j \in DOMAIN pl :
              /\ WantOut(pl, fd, b)[j].fd = pl[j].fd
              /\ WantOut(pl, fd, b)[j].revents = pl[j].revents
              /\ pl[j].fd = fd => WantOut(pl, fd, b)[j].pollout = b
              /\ pl[j].fd # fd => WantOut(pl, fd, b)[j].pollout = pl[j].pollout
<1>1. \A j \in DOMAIN pl : pl[j] \in PollEntry
  OBVIOUS
<1>2. DOMAIN WantOut(pl, fd, b) = DOMAIN pl /\ DOMAIN pl = 1 .. Len(pl) /\ Len(pl) \in Nat
  BY DEF WantOut
<1>3. \A j \in DOMAIN pl :
        WantOut(pl, fd, b)[j] = IF pl[j].fd = fd THEN [pl[j] EXCEPT !.pollout = b] ELSE pl[j]
  BY DEF WantOut
<1>4. \A j \in DOMAIN pl :
        /\ [pl[j] EXCEPT !.pollout = b] \in PollEntry
        /\ [pl[j] EXCEPT !.pollout = b].fd = pl[j].fd
        /\ [pl[j] EXCEPT !.pollout = b].pollout = b
        /\ [pl[j] EXCEPT !.pollout = b].revents = pl[j].revents
  BY <1>1 DEF PollEntry
<1>5. \A j \in 1 .. Len(pl) : WantOut(pl, fd, b)[j] \in PollEntry
  BY <1>1, <1>2, <1>3, <1>4
<1>6. WantOut(pl, fd, b) \in Seq(PollEntry)
  BY <1>2, <1>5 DEF WantOut
<1>7. QED
  BY <1>2, <1>3, <1>4, <1>6, ZenonT(40)

\* queue_write keeps client, buffer and POLLOUT in step.
LEMMA QueueWriteKeeps ==
  ASSUME IInv, NEW fd \in Connected, NEW msg \in Answer,
         queue_write(poll_list, fd, msg)
  PROVE  /\ clients' \in [Fd -> Client \cup {None}]
         /\ poll_list' \in Seq(PollEntry)
         /\ DOMAIN poll_list' = DOMAIN poll_list
         /\ \A j \in DOMAIN poll_list : /\ poll_list'[j].fd = poll_list[j].fd
                                        /\ poll_list'[j].revents = poll_list[j].revents
                                        /\ poll_list[j].pollout => poll_list'[j].pollout
         /\ Connected' = Connected
         /\ PollListOK'
<1> TypeOK /\ PollListOK
  BY DEF IInv
<1>1. fd \in Fd /\ clients[fd] \in Client /\ clients[fd] # None
  BY DEF TypeOK, Connected
<1>2. clients' = [clients EXCEPT ![fd].out = Append(@, msg)]
  BY DEF queue_write, PushWrite
<1>3. [clients[fd] EXCEPT !.out = Append(@, msg)] \in Client
  <2>1. clients[fd].out \in Seq(Answer)
    BY <1>1 DEF Client
  <2>2. Append(clients[fd].out, msg) \in Seq(Answer)
    BY <2>1
  <2>3. QED
    BY <1>1, <2>2, Zenon DEF Client
<1>4. clients' = [clients EXCEPT ![fd] = [clients[fd] EXCEPT !.out = Append(@, msg)]]
  BY <1>2
<1>5. clients' \in [Fd -> Client \cup {None}]
  BY <1>3, <1>4, Zenon DEF TypeOK
<1>6. \A g \in Fd : clients'[g] = IF g = fd THEN [clients[fd] EXCEPT !.out = Append(@, msg)]
                                  ELSE clients[g]
  BY <1>4 DEF TypeOK
<1>7. Connected' = Connected
  BY <1>1, <1>3, <1>6, NoneAssumption, Zenon DEF Connected
<1>8. clients'[fd].out # << >>
  <2>1. clients[fd].out \in Seq(Answer)
    BY <1>1 DEF Client
  <2>2. Append(clients[fd].out, msg) # << >>
    BY <2>1
  <2>3. clients'[fd].out = Append(clients[fd].out, msg)
    BY <1>1, <1>6, Zenon DEF Client
  <2>4. QED
    BY <2>2, <2>3
<1>9. poll_list' = WantOut(poll_list, fd, TRUE)
  BY DEF queue_write
<1>10. /\ poll_list' \in Seq(PollEntry)
       /\ DOMAIN poll_list' = DOMAIN poll_list
       /\ \A j \in DOMAIN poll_list :
            /\ poll_list'[j].fd = poll_list[j].fd
            /\ poll_list'[j].revents = poll_list[j].revents
            /\ poll_list[j].fd = fd => poll_list'[j].pollout = TRUE
            /\ poll_list[j].fd # fd => poll_list'[j].pollout = poll_list[j].pollout
  <2>1. poll_list \in Seq(PollEntry)
    BY DEF TypeOK
  <2>2. TRUE \in BOOLEAN
    OBVIOUS
  <2>3. LET new == WantOut(poll_list, fd, TRUE)
        IN  /\ new \in Seq(PollEntry)
            /\ DOMAIN new = DOMAIN poll_list
            /\ \A j \in DOMAIN poll_list :
                 /\ new[j].fd = poll_list[j].fd
                 /\ new[j].revents = poll_list[j].revents
                 /\ poll_list[j].fd = fd => new[j].pollout = TRUE
                 /\ poll_list[j].fd # fd => new[j].pollout = poll_list[j].pollout
    BY <2>1, <2>2, WantOutFacts, Zenon
  <2>4. QED
    BY <1>9, <2>3, Zenon
<1>11. PollListOK'
  <2>1. ASSUME NEW g \in Connected'
        PROVE  \E k \in DOMAIN poll_list' : /\ poll_list'[k].fd = g
                                            /\ poll_list'[k].pollout <=> clients'[g].out # << >>
    <3>1. PICK k \in DOMAIN poll_list : /\ poll_list[k].fd = g
                                        /\ poll_list[k].pollout <=> clients[g].out # << >>
      BY <1>7, <2>1 DEF PollListOK
    <3>2. CASE g = fd
      BY <1>8, <1>10, <3>1, <3>2
    <3>3. CASE g # fd
      <4>1. clients'[g] = clients[g]
        BY <1>6, <1>7, <3>3 DEF Connected
      <4>2. QED
        BY <1>10, <3>1, <3>3, <4>1
    <3>4. QED
      BY <3>2, <3>3
  <2>2. QED
    BY <1>7, <1>10, <2>1 DEF PollListOK
<1>12. QED
  BY <1>5, <1>7, <1>10, <1>11

\* The message of send_started_msg_to_client is an answer.
LEMMA StartedAnswer ==
  ASSUME NEW r \in Request
  PROVE  Started(r.id, r.owner) \in Answer
BY DEF Started, Answer, Request

\* The message of send_msg_to_client is an answer.
LEMMA FinishedAnswer ==
  ASSUME NEW proc \in Process, NEW cause \in Zombie
  PROVE  Finished(proc, cause) \in Answer
<1>1. (cause \in Signals) \in BOOLEAN
  OBVIOUS
<1>2. QED
  BY <1>1 DEF Finished, Answer, Process, Zombie

-----------------------------------------------------------------------------
(***************************************************************************)
(* Connections.                                                            *)
(***************************************************************************)
\* The server has taken connection c out of the backlog.
Accepted(c) == status[c] # "new" /\ \A k \in DOMAIN backlog : backlog[k] # c

\* The server has a client for connection c.
Reached(c) == \E f \in Connected : clients[f].conn = c

\* Connection c was accepted, and its client, if it is still there, is that of fd.
Owned(c, fd) == Accepted(c) /\ \A f \in Connected : clients[f].conn = c => f = fd

\* A connection has one client.  Requests and processes name the descriptor of the
\* client that sent them as long as it is there.
Owners ==
  /\ \A f \in Connected : Owned(clients[f].conn, f)
  /\ \A k \in DOMAIN queue : Owned(queue[k].owner, queue[k].key)
  /\ \A p \in Running : Owned(processes[p].owner, processes[p].client_key)

\* A connection is accepted once, and waits in the backlog until then.
BacklogOK ==
  /\ \A j, k \in DOMAIN backlog : backlog[j] = backlog[k] => j = k
  /\ \A k \in DOMAIN backlog : status[backlog[k]] # "new"
  /\ \A c \in Conn : status[c] = "open" =>
       Reached(c) \/ \E k \in DOMAIN backlog : backlog[k] = c

\* POLLERR is only reported of a client that is gone.
ErrorsOfGone ==
  \A k \in Ready :
    poll_list[k].fd \in Connected /\ "ERR" \in poll_list[k].revents
      => status[clients[poll_list[k].fd].conn] # "open"

\* Lines that were read belong to a client that is there.
LinesOfClient == lines # << >> => pc \in {"lines", "down"} /\ cur \in Connected

ConnInv == Owners /\ BacklogOK /\ ErrorsOfGone /\ LinesOfClient

\* The connections that clients, requests and processes name.
Named ==
  /\ \A f \in Connected : clients[f] \in Client /\ clients[f].conn \in Conn
  /\ \A k \in DOMAIN queue : queue[k] \in Request /\ queue[k].owner \in Conn
  /\ \A p \in Running : processes[p] \in Process /\ processes[p].owner \in Conn

\* Well typed clients, requests and processes name connections.
LEMMA NamedConns == IInv => Named
<1> SUFFICES ASSUME IInv PROVE Named
  OBVIOUS
<1> TypeOK
  BY DEF IInv
<1>1. \A f \in Connected : clients[f] \in Client
  BY DEF TypeOK, Connected
<1>2. queue \in Seq(Request)
  BY DEF TypeOK
<1>3. \A k \in DOMAIN queue : queue[k] \in Request
  BY <1>2
<1>4. \A p \in Running : processes[p] \in Process
  BY DEF TypeOK, Running
<1>5. QED
  BY <1>1, <1>3, <1>4 DEF Named, Client, Request, Process

\* queue_write appends to one write buffer; connections and events stay.
LEMMA WriteFacts ==
  ASSUME IInv, NEW fd \in Connected, NEW msg \in Answer, queue_write(poll_list, fd, msg)
  PROVE  /\ Connected' = Connected
         /\ \A f \in Connected :
              /\ clients'[f].conn = clients[f].conn
              /\ clients'[f].out = IF f = fd THEN Append(clients[f].out, msg) ELSE clients[f].out
         /\ Ready' = Ready
         /\ \A k \in Ready : /\ poll_list'[k].fd = poll_list[k].fd
                              /\ poll_list'[k].revents = poll_list[k].revents
<1> TypeOK
  BY DEF IInv
<1>1. /\ DOMAIN poll_list' = DOMAIN poll_list
      /\ \A j \in DOMAIN poll_list : /\ poll_list'[j].fd = poll_list[j].fd
                                     /\ poll_list'[j].revents = poll_list[j].revents
      /\ Connected' = Connected
  BY QueueWriteKeeps
<1>2. clients' = [clients EXCEPT ![fd].out = Append(@, msg)]
  BY DEF queue_write, PushWrite
<1>3. \A f \in Connected : f \in Fd /\ clients[f] \in Client
  BY DEF TypeOK, Connected
<1>4. clients \in [Fd -> Client \cup {None}]
  BY DEF TypeOK
<1>5. \A f \in Connected :
        /\ clients'[f].conn = clients[f].conn
        /\ clients'[f].out = IF f = fd THEN Append(clients[f].out, msg) ELSE clients[f].out
  BY <1>2, <1>3, <1>4 DEF Client
<1>6. QED
  BY <1>1, <1>5 DEF Ready

\* run_request starts at most one process, for the request it is given.
LEMMA RunRequestFacts ==
  ASSUME IInv, NEW r \in Request, run_request(r)
  PROVE  /\ Connected' = Connected
         /\ \A f \in Connected : clients'[f].conn = clients[f].conn
         /\ Ready' = Ready
         /\ \A k \in Ready : /\ poll_list'[k].fd = poll_list[k].fd
                              /\ poll_list'[k].revents = poll_list[k].revents
         /\ \A p \in Running' : \/ p \in Running /\ processes'[p] = processes[p]
                                \/ processes'[p].owner = r.owner /\ processes'[p].client_key = r.key
         /\ pc' \in {pc, "down"}
<1> TypeOK
  BY DEF IInv
<1>1. CASE UNCHANGED <<processes, clients, poll_list>> /\ pc' \in {pc, "down"}
  BY <1>1 DEF Connected, Ready, Running
<1>2. CASE /\ clients[r.key] # None
           /\ \E pid \in FreePid :
                processes' = [processes EXCEPT ![pid] =
                     [task_id |-> r.id, client_key |-> r.key, owner |-> r.owner]]
           /\ queue_write(poll_list, r.key, Started(r.id, r.owner))
           /\ UNCHANGED pc
  <2>1. r.key \in Connected /\ Started(r.id, r.owner) \in Answer
    BY <1>2, StartedAnswer DEF Connected, Request
  <2>2. processes \in [Pid -> Process \cup {None}]
    BY DEF TypeOK
  <2>3. \A p \in Running' : \/ p \in Running /\ processes'[p] = processes[p]
                            \/ processes'[p].owner = r.owner /\ processes'[p].client_key = r.key
    BY <1>2, <2>2 DEF Running
  <2>4. QED
    BY <1>2, <2>1, <2>3, WriteFacts
<1>3. QED
  BY <1>1, <1>2 DEF run_request

\* Marking an entry as handled leaves fewer events.
LEMMA HandledReady ==
  ASSUME IInv, NEW k \in DOMAIN poll_list, poll_list' = Handled(k)
  PROVE  \A j \in Ready' : /\ j \in Ready /\ j # k
                           /\ poll_list'[j].fd = poll_list[j].fd
                           /\ poll_list'[j].revents = poll_list[j].revents
BY HandledFacts DEF Ready

\* What write_to_client does when it does not end the server.
LEMMA WrittenFacts ==
  ASSUME IInv, write_to_client
  PROVE  \/ pc' = "killed" /\ UNCHANGED <<delivered, clients, poll_list>>
         \/ \E fd \in Connected :
              /\ clients[fd].out # << >>
              /\ delivered' = [delivered EXCEPT ![clients[fd].conn] =
                                 Append(@, Head(clients[fd].out))]
              /\ clients' = [clients EXCEPT ![fd].out = Tail(@)]
              /\ \E k \in Ready : /\ poll_list[k].fd = fd
                                  /\ poll_list' = [Handled(k) EXCEPT ![k].pollout =
                                                     ~ AllWritten(clients[fd].out)]
              /\ status[clients[fd].conn] = "open"
              /\ UNCHANGED pc
<1> PollListOK /\ EventsStillHold
  BY DEF IInv
<1>1. PICK k \in Ready :
       LET fd == poll_list[k].fd
           c == clients[fd].conn
           out == clients[fd].out
       IN  /\ fd \in Connected
           /\ "OUT" \in poll_list[k].revents
           /\ \/ /\ status[c] = "open"
                 /\ delivered' = [delivered EXCEPT ![c] = Append(@, Head(out))]
                 /\ clients' = [clients EXCEPT ![fd].out = Tail(@)]
                 /\ poll_list' = [Handled(k) EXCEPT ![k].pollout = ~ AllWritten(out)]
                 /\ UNCHANGED pc
              \/ /\ status[c] # "open"
                 /\ pc' = "killed"
                 /\ UNCHANGED <<delivered, clients, poll_list>>
  BY Zenon DEF write_to_client
<1>2. clients[poll_list[k].fd].out # << >>
  <2>1. k \in DOMAIN poll_list /\ poll_list[k].fd \in Fd /\ poll_list[k].pollout
    <3>1. k \in Ready /\ poll_list[k].fd \in Connected /\ "OUT" \in poll_list[k].revents
      BY <1>1, Zenon
    <3>2. QED
      BY <3>1 DEF EventsStillHold, Ready, Connected
  <2>2. PICK j \in DOMAIN poll_list :
          /\ poll_list[j].fd = poll_list[k].fd
          /\ poll_list[j].pollout <=> clients[poll_list[k].fd].out # << >>
    BY <1>1, Zenon DEF PollListOK
  <2>3. j = k
    BY <2>1, <2>2, ServerAssumption DEF PollListOK
  <2>4. QED
    BY <2>1, <2>2, <2>3
<1>3. QED
  BY <1>1, <1>2, Zenon

-----------------------------------------------------------------------------
(***************************************************************************)
(* Runs.                                                                   *)
(***************************************************************************)
\* The positions of the elements of M in s.
At(s, M) == {k \in DOMAIN s : s[k] \in M}

\* Where a run request may be, as in Places.
RunLine(id) == {[cmd |-> "run", arg |-> id]}

RunRequest(c, id) == {r \in Request : r.owner = c /\ r.id = id}

RunAnswer(c, id, kind) == {a \in Answer : a.owner = c /\ a.id = id /\ a.kind = kind}

Sent(c, id) == At(socket[c], RunLine(id))

InLines(c, id) == IF clients[cur].conn = c THEN At(lines, RunLine(id)) ELSE {}

InQueue(c, id) == At(queue, RunRequest(c, id))

Active(c, id) == {p \in Running : processes[p].owner = c /\ processes[p].task_id = id}

\* The answers of one kind to the run id among those of connection c.
Told(c, id, kind) == At(Answers(c), RunAnswer(c, id, kind))

Cancelled(c, id) == <<c, id>> \in cancelled

Single(A) == \A x, y \in A : x = y

\* A run is in one place at most.
OnePlace(sent, read, queued, active, told, gone) ==
  /\ Single(sent) /\ Single(read) /\ Single(queued) /\ Single(active) /\ Single(told)
  /\ sent # {} => read = {} /\ queued = {} /\ active = {} /\ told = {} /\ ~gone
  /\ read # {} => queued = {} /\ active = {} /\ told = {} /\ ~gone
  /\ queued # {} => active = {} /\ told = {} /\ ~gone
  /\ active # {} => told = {} /\ ~gone
  /\ told # {} => ~gone

Somewhere(sent, read, queued, active, told, gone) ==
  sent # {} \/ read # {} \/ queued # {} \/ active # {} \/ told # {} \/ gone

\* The client of connection c waits for run id.
Awaited(c, id) == Up /\ status[c] = "open" /\ id \in 1 .. asked[c].run

\* The run id of connection c is in one place at most, and in one as long as the
\* connection is open; an id that was not sent yet is nowhere.  S was answered when
\* the run was started and not before, once, and F comes after it.
RunOK(c, id) ==
  /\ OnePlace(Sent(c, id), InLines(c, id), InQueue(c, id), Active(c, id),
              Told(c, id, "F"), Cancelled(c, id))
  /\ Awaited(c, id) => Somewhere(Sent(c, id), InLines(c, id), InQueue(c, id), Active(c, id),
                                 Told(c, id, "F"), Cancelled(c, id))
  /\ id > asked[c].run =>
       ~ Somewhere(Sent(c, id), InLines(c, id), InQueue(c, id), Active(c, id),
                   Told(c, id, "S"), Cancelled(c, id))
  /\ Told(c, id, "S") # {} =>
       Sent(c, id) = {} /\ InLines(c, id) = {} /\ InQueue(c, id) = {} /\ ~ Cancelled(c, id)
  /\ Active(c, id) # {} /\ Reached(c) => Told(c, id, "S") # {}
  /\ Single(Told(c, id, "S"))
  /\ \A k \in Told(c, id, "F") : \E j \in Told(c, id, "S") : j < k

RunsInv ==
  /\ \A c \in Conn, id \in Nat : RunOK(c, id)
  /\ \A c \in Conn : status[c] = "new" => asked[c].run = 0

\* A is empty when B is and only then, and has one element at most when B has.
Alike(A, B) == (A = {} <=> B = {}) /\ (Single(B) => Single(A))

\* Pushing m.
LEMMA AppendAt ==
  ASSUME NEW S, NEW s \in Seq(S), NEW m \in S, NEW M
  PROVE  /\ m \in M => /\ At(Append(s, m), M) = At(s, M) \cup {Len(s) + 1}
                       /\ \A k \in At(s, M) : k < Len(s) + 1
         /\ m \notin M => At(Append(s, m), M) = At(s, M)
BY DEF At

\* The write buffer of the only client a connection has.
BuffersAre ==
  \A c : /\ \A f \in Connected : clients[f].conn = c => Buffered(c) = clients[f].out
         /\ ~ Reached(c) => Buffered(c) = << >>

\* A connection has one client, so its buffer is that of the client.
LEMMA BufferedIs == ConnInv => BuffersAre
<1> SUFFICES ASSUME ConnInv, NEW c
             PROVE  /\ \A f \in Connected : clients[f].conn = c => Buffered(c) = clients[f].out
                    /\ ~ Reached(c) => Buffered(c) = << >>
  BY DEF BuffersAre
<1> Owners
  BY DEF ConnInv
<1> DEFINE fds == {f \in Connected : clients[f].conn = c}
<1>1. ~ Reached(c) => fds = {}
  BY DEF Reached
<1>2. ASSUME NEW f \in Connected, clients[f].conn = c PROVE fds = {f}
  BY <1>2 DEF Owners, Owned
<1>3. \A f : (CHOOSE g \in {f} : TRUE) = f
  OBVIOUS
<1>4. QED
  BY <1>1, <1>2, <1>3 DEF Buffered

\* The answers of a connection are a sequence of answers.
LEMMA AnswersType ==
  ASSUME IInv, ConnInv, NEW c \in Conn
  PROVE  Answers(c) \in Seq(Answer) /\ delivered[c] \in Seq(Answer) /\ Buffered(c) \in Seq(Answer)
<1> TypeOK
  BY DEF IInv
<1>1. Buffered(c) \in Seq(Answer)
  <2>1. ASSUME NEW f \in Connected, clients[f].conn = c PROVE Buffered(c) \in Seq(Answer)
    <3>1. clients[f] \in Client
      BY DEF TypeOK, Connected
    <3>2. clients[f].out \in Seq(Answer)
      BY <3>1 DEF Client
    <3>3. QED
      BY <2>1, <3>2, BufferedIs DEF BuffersAre
  <2>2. << >> \in Seq(Answer)
    OBVIOUS
  <2>3. QED
    BY <2>1, <2>2, BufferedIs, Zenon DEF Reached, BuffersAre
<1>2. QED
  BY <1>1 DEF Answers, TypeOK

\* A message pushed behind o comes behind d and o.
LEMMA ConcatAppend ==
  ASSUME NEW S, NEW d \in Seq(S), NEW o \in Seq(S), NEW m \in S
  PROVE  d \o Append(o, m) = Append(d \o o, m)
OBVIOUS

\* queue_write puts its message behind the answers of the connection it goes to.
LEMMA PushAnswers ==
  ASSUME IInv, ConnInv, ConnInv', NEW fd \in Connected, NEW msg \in Answer,
         queue_write(poll_list, fd, msg), delivered' = delivered, NEW c \in Conn
  PROVE  Answers(c)' = IF clients[fd].conn = c THEN Append(Answers(c), msg) ELSE Answers(c)
<1>1. BuffersAre /\ BuffersAre'
  <2>1. (ConnInv => BuffersAre)'
    BY BufferedIs, PTL
  <2>2. QED
    BY <2>1, BufferedIs
<1>2. /\ Connected' = Connected
      /\ \A f \in Connected :
           /\ clients'[f].conn = clients[f].conn
           /\ clients'[f].out = IF f = fd THEN Append(clients[f].out, msg) ELSE clients[f].out
  BY WriteFacts
<1>3. delivered[c] \in Seq(Answer) /\ Buffered(c) \in Seq(Answer)
  BY AnswersType
<1>4. CASE clients[fd].conn = c
  <2>1. Buffered(c) = clients[fd].out /\ Buffered(c)' = clients'[fd].out
    BY <1>1, <1>2, <1>4, Zenon DEF BuffersAre
  <2>2. Answers(c)' = delivered[c] \o Append(Buffered(c), msg)
    BY <1>2, <2>1, Zenon DEF Answers
  <2>3. delivered[c] \o Append(Buffered(c), msg) = Append(delivered[c] \o Buffered(c), msg)
    <3> DEFINE d == delivered[c]
               o == Buffered(c)
    <3>1. d \in Seq(Answer) /\ o \in Seq(Answer)
      BY <1>3
    <3> HIDE DEF d, o
    <3>2. d \o Append(o, msg) = Append(d \o o, msg)
      BY <3>1, ConcatAppend
    <3>3. QED
      BY <3>2 DEF d, o
  <2>4. QED
    BY <1>4, <2>2, <2>3, Zenon DEF Answers
<1>5. CASE clients[fd].conn # c
  <2>1. \A f \in Connected : clients[f].conn = c => f # fd
    BY <1>5
  <2>2. Buffered(c)' = Buffered(c)
    BY <1>1, <1>2, <2>1 DEF BuffersAre, Reached
  <2>3. QED
    BY <1>5, <2>2 DEF Answers
<1>6. QED
  BY <1>4, <1>5

\* A message behind the answers of c is an answer to a run or is not.
LEMMA PushTold ==
  ASSUME IInv, ConnInv, NEW c \in Conn, NEW id, NEW msg \in Answer
  PROVE  /\ Answers(c)' = Answers(c) => \A kind : Told(c, id, kind)' = Told(c, id, kind)
         /\ Answers(c)' = Append(Answers(c), msg) =>
              /\ \A kind : msg \notin RunAnswer(c, id, kind)
                             => Told(c, id, kind)' = Told(c, id, kind)
              /\ \A kind : msg \in RunAnswer(c, id, kind)
                             => Told(c, id, kind)' = Told(c, id, kind) \cup {Len(Answers(c)) + 1}
              /\ \A kind : \A k \in Told(c, id, kind) : k < Len(Answers(c)) + 1
<1> DEFINE s == Answers(c)
           n == Len(s) + 1
<1>1. s \in Seq(Answer)
  BY AnswersType
<1>2. ASSUME s' = s, NEW kind PROVE Told(c, id, kind)' = Told(c, id, kind)
  BY <1>2 DEF Told
<1>3. ASSUME s' = Append(s, msg), NEW kind
      PROVE  /\ \A k \in Told(c, id, kind) : k < n
             /\ msg \in RunAnswer(c, id, kind)
                  => Told(c, id, kind)' = Told(c, id, kind) \cup {n}
             /\ msg \notin RunAnswer(c, id, kind) => Told(c, id, kind)' = Told(c, id, kind)
  <2> DEFINE M == RunAnswer(c, id, kind)
  <2>1. Told(c, id, kind) = At(s, M) /\ Told(c, id, kind)' = At(Append(s, msg), M)
    BY <1>3 DEF Told, RunAnswer
  <2>2. \A k \in At(s, M) : k < n
    BY <1>1 DEF At
  <2> HIDE DEF s, M
  <2>3. QED
    BY <1>1, <2>1, <2>2, AppendAt DEF M
<1>4. QED
  BY <1>2, <1>3

\* What a step must respect that leaves run id of connection c where it is.
KeepsRun(c, id) ==
  /\ Alike(Sent(c, id)', Sent(c, id)) /\ Alike(InLines(c, id)', InLines(c, id))
  /\ Alike(InQueue(c, id)', InQueue(c, id)) /\ Alike(Active(c, id)', Active(c, id))
  /\ \A kind \in {"S", "F"} : Told(c, id, kind)' = Told(c, id, kind)
  /\ Cancelled(c, id)' = Cancelled(c, id)
  /\ id > asked[c].run <=> id > asked'[c].run
  /\ Awaited(c, id)' => Awaited(c, id)
  /\ Reached(c)' => Reached(c) \/ Active(c, id) = {}

\* Such a step keeps the invariant.
LEMMA RunKept == ASSUME NEW c, NEW id, RunOK(c, id), KeepsRun(c, id) PROVE RunOK(c, id)'
<1> DEFINE S == Sent(c, id)
           L == InLines(c, id)
           Q == InQueue(c, id)
           A == Active(c, id)
           X == Cancelled(c, id)
           TS == Told(c, id, "S")
           TF == Told(c, id, "F")
<1>1. /\ Alike(S', S) /\ Alike(L', L) /\ Alike(Q', Q) /\ Alike(A', A)
      /\ X' = X /\ TS' = TS /\ TF' = TF
  BY DEF KeepsRun
<1>2. OnePlace(S, L, Q, A, TF, X) => OnePlace(S', L', Q', A', TF', X')
  BY <1>1, Zenon DEF OnePlace, Alike
<1>3. /\ Somewhere(S, L, Q, A, TF, X) => Somewhere(S', L', Q', A', TF', X')
      /\ ~ Somewhere(S, L, Q, A, TS, X) => ~ Somewhere(S', L', Q', A', TS', X')
  BY <1>1, Zenon DEF Somewhere, Alike
<1>4. /\ TS' # {} => S' = {} /\ L' = {} /\ Q' = {} /\ ~ X'
      /\ A' # {} /\ Reached(c)' => TS' # {}
      /\ Single(TS') /\ \A k \in TF' : \E j \in TS' : j < k
  BY <1>1 DEF RunOK, KeepsRun, Alike
<1>5. Awaited(c, id)' => Awaited(c, id)
  BY DEF KeepsRun
<1>6. id > asked[c].run <=> id > asked'[c].run
  BY DEF KeepsRun
<1> HIDE DEF S, L, Q, A, X, TS, TF
<1>7. QED
  BY <1>2, <1>3, <1>4, <1>5, <1>6, Zenon DEF RunOK, S, L, Q, A, X, TS, TF

\* A step that moves only one run, and not backwards from a new connection.
LEMMA OneRunMoved ==
  ASSUME RunsInv, \A c \in Conn : status'[c] = "new" => asked'[c].run = 0,
         \A c \in Conn, id \in Nat : RunOK(c, id) => KeepsRun(c, id) \/ RunOK(c, id)'
  PROVE  RunsInv'
<1>1. ASSUME NEW c \in Conn, NEW id \in Nat PROVE RunOK(c, id)'
  <2>1. RunOK(c, id)
    BY DEF RunsInv
  <2>2. QED
    BY <2>1, RunKept
<1>2. (\A c \in Conn, id \in Nat : RunOK(c, id))'
  BY <1>1
<1>3. QED
  BY <1>2 DEF RunsInv

\* Steps that move no request and add no answer keep the invariant.
LEMMA QuietRuns ==
  ASSUME RunsInv, UNCHANGED <<socket, queue, processes, cancelled, asked, lines>>,
         \A c \in Conn : Answers(c)' = Answers(c),
         lines = << >> \/ clients'[cur'].conn = clients[cur].conn,
         \A c \in Conn : status'[c] \in {"open", "new"} => status[c] \in {status'[c], "new"},
         Up' => Up,
         \A c \in Conn : Reached(c)' => Reached(c) \/ \A id : Active(c, id) = {}
  PROVE  RunsInv'
<1>1. ASSUME NEW c \in Conn, NEW id \in Nat PROVE KeepsRun(c, id)
  <2>1. /\ Sent(c, id)' = Sent(c, id) /\ InQueue(c, id)' = InQueue(c, id)
        /\ Active(c, id)' = Active(c, id) /\ Cancelled(c, id)' = Cancelled(c, id)
    BY DEF Sent, InQueue, Active, Running, Cancelled, RunLine, RunRequest, At
  <2>2. InLines(c, id)' = InLines(c, id)
    <3>1. lines = << >> => At(lines, RunLine(id)) = {}
      BY DEF At
    <3>2. At(lines, RunLine(id))' = At(lines, RunLine(id))
      BY DEF At, RunLine
    <3>3. QED
      BY <3>1, <3>2, Zenon DEF InLines
  <2>3. \A kind : Told(c, id, kind)' = Told(c, id, kind)
    BY DEF Told, RunAnswer
  <2>4. Awaited(c, id)' => Awaited(c, id)
    BY DEF Awaited, RunsInv
  <2>5. QED
    BY <2>1, <2>2, <2>3, <2>4 DEF KeepsRun, Alike
<1>2. (\A c \in Conn, id \in Nat : RunOK(c, id))'
  BY <1>1, RunKept DEF RunsInv
<1>3. (\A c \in Conn : status[c] = "new" => asked[c].run = 0)'
  BY DEF RunsInv
<1>4. QED
  BY <1>2, <1>3 DEF RunsInv

\* Steps that leave the clients alone, too.
LEMMA StillRuns ==
  ASSUME RunsInv, UNCHANGED <<clients, delivered, socket, queue, processes, cancelled, asked, lines>>,
         lines = << >> \/ cur' = cur, Up' => Up,
         \A c \in Conn : status'[c] \in {"open", "new"} => status[c] \in {status'[c], "new"}
  PROVE  RunsInv'
<1>1. \A c \in Conn : Answers(c)' = Answers(c) /\ Reached(c)' = Reached(c)
  BY DEF Answers, Buffered, Reached, Connected
<1>2. QED
  BY <1>1, QuietRuns

\* The sets of the invariant are those of Places.
LEMMA PlacesAre ==
  ASSUME IInv, ConnInv, NEW c \in Conn, NEW id
  PROVE  /\ InQueue(c, id) = {k \in DOMAIN queue : queue[k].owner = c /\ queue[k].id = id}
         /\ \A kind : Told(c, id, kind) = {k \in DOMAIN Answers(c) : AnswerTo(c, id, kind, k)}
<1> TypeOK
  BY DEF IInv
<1>1. queue \in Seq(Request) /\ Answers(c) \in Seq(Answer)
  BY AnswersType, Zenon DEF TypeOK
<1>2. /\ \A k \in DOMAIN queue : queue[k] \in Request
      /\ \A k \in DOMAIN Answers(c) : Answers(c)[k] \in Answer
  BY <1>1
<1>3. QED
  BY <1>2, Zenon DEF InQueue, Told, At, RunRequest, RunAnswer, AnswerTo

\* A run that is in one place only has one element in Places.
LEMMA OneOfPlaces ==
  ASSUME IInv, ConnInv, NEW c \in Conn, NEW id,
         OnePlace(Sent(c, id), InLines(c, id), InQueue(c, id), Active(c, id),
                  Told(c, id, "F"), Cancelled(c, id)),
         Somewhere(Sent(c, id), InLines(c, id), InQueue(c, id), Active(c, id),
                   Told(c, id, "F"), Cancelled(c, id))
  PROVE  \E p \in Places(c, id) : Places(c, id) = {p}
<1> DEFINE S == Sent(c, id)
           L == InLines(c, id)
           Q == InQueue(c, id)
           A == Active(c, id)
           F == Told(c, id, "F")
           X == Cancelled(c, id)
<1>1. Places(c, id) = {<<"sent", k>> : k \in S} \cup {<<"read", k>> : k \in L}
                        \cup {<<"queued", k>> : k \in Q} \cup {<<"active", p>> : p \in A}
                        \cup {<<"answered", k>> : k \in F}
                        \cup (IF X THEN {<<"cancelled", 0>>} ELSE {})
  <2> DEFINE run == [cmd |-> "run", arg |-> id]
  <2>1. S = {j \in DOMAIN socket[c] : socket[c][j] = run}
    BY Zenon DEF Sent, At, RunLine
  <2>2. L = {j \in DOMAIN lines : clients[cur].conn = c /\ lines[j] = run}
    BY DEF InLines, At, RunLine
  <2>3. /\ Q = {j \in DOMAIN queue : queue[j].owner = c /\ queue[j].id = id}
        /\ F = {j \in DOMAIN Answers(c) : AnswerTo(c, id, "F", j)}
    <3>1. /\ Q = {j \in DOMAIN queue : queue[j].owner = c /\ queue[j].id = id}
          /\ \A kind : Told(c, id, kind) = {j \in DOMAIN Answers(c) : AnswerTo(c, id, kind, j)}
      BY PlacesAre, Zenon
    <3>2. QED
      BY <3>1, Zenon
  <2>4. /\ A = {q \in Running : processes[q].owner = c /\ processes[q].task_id = id}
        /\ X <=> <<c, id>> \in cancelled
    BY Zenon DEF Active, Cancelled
  <2> HIDE DEF S, L, Q, A, F, X
  <2>5. QED
    BY <2>1, <2>2, <2>3, <2>4, Zenon DEF Places
<1> HIDE DEF S, L, Q, A, F, X
<1>2. OnePlace(S, L, Q, A, F, X) /\ Somewhere(S, L, Q, A, F, X)
  BY DEF S, L, Q, A, F, X
<1>3. \E x : Places(c, id) = {x}
  <2>1. ASSUME NEW k \in S PROVE Places(c, id) = {<<"sent", k>>}
    BY <1>1, <1>2, <2>1, Zenon DEF OnePlace, Single
  <2>2. ASSUME NEW k \in L PROVE Places(c, id) = {<<"read", k>>}
    BY <1>1, <1>2, <2>2, Zenon DEF OnePlace, Single
  <2>3. ASSUME NEW k \in Q PROVE Places(c, id) = {<<"queued", k>>}
    BY <1>1, <1>2, <2>3, Zenon DEF OnePlace, Single
  <2>4. ASSUME NEW k \in A PROVE Places(c, id) = {<<"active", k>>}
    BY <1>1, <1>2, <2>4, Zenon DEF OnePlace, Single
  <2>5. ASSUME NEW k \in F PROVE Places(c, id) = {<<"answered", k>>}
    BY <1>1, <1>2, <2>5, Zenon DEF OnePlace, Single
  <2>6. ASSUME X PROVE Places(c, id) = {<<"cancelled", 0>>}
    BY <1>1, <1>2, <2>6, Zenon DEF OnePlace, Single
  <2>7. QED
    BY <1>2, <2>1, <2>2, <2>3, <2>4, <2>5, <2>6, Zenon DEF Somewhere
<1>4. QED
  BY <1>3, Zenon

\* What the invariant says of the runs of the open connections.
LEMMA RunsConserved == IInv /\ ConnInv /\ RunsInv => RequestsConserved
<1> SUFFICES ASSUME IInv, ConnInv, RunsInv, Up, NEW c \in Conn, status[c] = "open",
                    NEW id \in 1 .. asked[c].run
             PROVE  \E p \in Places(c, id) : Places(c, id) = {p}
  BY DEF RequestsConserved
<1> TypeOK
  BY DEF IInv
<1>1. id \in Nat
  <2>1. asked[c].run \in Nat
    BY Zenon DEF TypeOK
  <2>2. QED
    BY <2>1
<1>2. RunOK(c, id)
  BY <1>1, Zenon DEF RunsInv
<1>3. QED
  BY <1>2, OneOfPlaces, Zenon DEF RunOK, Awaited

\* What the invariant says of the answers of a connection.
LEMMA RunsAnswered == IInv /\ ConnInv /\ RunsInv => StartedThenFinished
<1> SUFFICES ASSUME IInv, ConnInv, RunsInv, NEW c \in Conn, NEW k \in DOMAIN Answers(c),
                    Answers(c)[k].owner = c
             PROVE  LET a == Answers(c)[k]
                    IN  /\ \A j \in DOMAIN Answers(c) : AnswerTo(c, a.id, a.kind, j) => j = k
                        /\ a.kind = "F" => \E j \in 1 .. k - 1 : AnswerTo(c, a.id, "S", j)
  BY DEF StartedThenFinished
<1> DEFINE a == Answers(c)[k]
<1>1. Answers(c) \in Seq(Answer)
  BY AnswersType, Zenon
<1>2. a \in Answer /\ a.id \in Nat /\ a.kind \in {"S", "F"}
  <2>1. a \in Answer
    BY <1>1
  <2>2. QED
    BY <2>1, Zenon DEF Answer
<1>3. RunOK(c, a.id)
  BY <1>2, Zenon DEF RunsInv
<1>4. k \in Told(c, a.id, a.kind)
  BY PlacesAre DEF AnswerTo
<1>5. Single(Told(c, a.id, "S")) /\ Single(Told(c, a.id, "F"))
  BY <1>3, Zenon DEF RunOK, OnePlace
<1>6. \A j \in DOMAIN Answers(c) : AnswerTo(c, a.id, a.kind, j) => j = k
  <2>1. \A kind : Told(c, a.id, kind) = {j \in DOMAIN Answers(c) : AnswerTo(c, a.id, kind, j)}
    BY PlacesAre, Zenon
  <2>2. \A j \in DOMAIN Answers(c) : AnswerTo(c, a.id, a.kind, j) => j \in Told(c, a.id, a.kind)
    BY <2>1, Zenon
  <2>3. QED
    BY <1>2, <1>4, <1>5, <2>2, Zenon DEF Single
<1>7. ASSUME a.kind = "F" PROVE \E j \in 1 .. k - 1 : AnswerTo(c, a.id, "S", j)
  <2>1. PICK j \in Told(c, a.id, "S") : j < k
    BY <1>3, <1>4, <1>7, Zenon DEF RunOK
  <2>2. j \in DOMAIN Answers(c) /\ AnswerTo(c, a.id, "S", j)
    BY <2>1, PlacesAre
  <2>3. j \in 1 .. k - 1
    BY <1>1, <2>1, <2>2
  <2>4. QED
    BY <2>2, <2>3, Zenon
<1>8. QED
  BY <1>6, <1>7, Zenon
=============================================================================
