---------------------- MODULE ProofServerClientProofs -----------------------
(***************************************************************************)
(* The steps that write to, read from and close a client, and those that   *)
(* start, end and interrupt a job, keep IInv of ProofServerInvariant.      *)
(***************************************************************************)
EXTENDS ProofServerInvariant

\* close_client: the entry and the client disappear together.
LEMMA CloseKeeps ==
  ASSUME IInv, pc = "dispatch", NEW k \in Ready, poll_list[k].fd \in Connected,
         close_client(k, poll_list[k].fd),
         UNCHANGED <<parallel, processes, queue, cur, lines, kernel, clientSide>>
  PROVE  IInv'
<1> TypeOK /\ ProcessesAreChildren /\ NoLostChild /\ PollListOK /\ EventsStillHold
  BY DEF IInv
<1> DEFINE fd == poll_list[k].fd
<1>1. /\ clients' = [clients EXCEPT ![fd] = None]
      /\ poll_list' = [poll_list EXCEPT ![k] = Entry(NoFd, poll_list[k].pollout, {})]
      /\ pc' \in {"dispatch", "down"}
  BY DEF close_client
<1>2. /\ k \in DOMAIN poll_list /\ fd \in Fd
      /\ poll_list \in Seq(PollEntry) /\ poll_list[k] \in PollEntry
  BY DEF Ready, TypeOK, Connected
<1>3. Entry(NoFd, poll_list[k].pollout, {}) \in PollEntry
  BY <1>2 DEF Entry, PollEntry, Events
<1>4. /\ poll_list' \in Seq(PollEntry)
      /\ DOMAIN poll_list' = DOMAIN poll_list
      /\ \A j \in DOMAIN poll_list : j # k => poll_list'[j] = poll_list[j]
      /\ poll_list'[k].fd = NoFd /\ poll_list'[k].revents = {}
  <2> DEFINE new == [poll_list EXCEPT ![k] = Entry(NoFd, poll_list[k].pollout, {})]
  <2>1. DOMAIN new = 1 .. Len(poll_list) /\ Len(poll_list) \in Nat
        /\ DOMAIN poll_list = 1 .. Len(poll_list)
    BY <1>2
  <2>2. /\ \A j \in DOMAIN poll_list : j # k => new[j] = poll_list[j]
        /\ new[k] = Entry(NoFd, poll_list[k].pollout, {})
    BY <1>2
  <2>3. \A j \in 1 .. Len(poll_list) : new[j] \in PollEntry
    BY <1>2, <1>3, <2>1, <2>2
  <2>4. new = [j \in 1 .. Len(poll_list) |-> new[j]]
    BY <2>1, Zenon
  <2>5. new \in Seq(PollEntry)
    BY <2>1, <2>3, <2>4, SeqOfEntries, Zenon
  <2>6. new[k].fd = NoFd /\ new[k].revents = {}
    BY <2>2 DEF Entry
  <2>7. QED
    BY <1>1, <2>1, <2>2, <2>5, <2>6, Zenon
<1>5. Connected' = Connected \ {fd} /\ \A g \in Fd : g # fd => clients'[g] = clients[g]
  BY <1>1, <1>2, Zenon DEF Connected, TypeOK
<1>6. TypeOK'
  BY <1>1, <1>2, <1>4, Zenon DEF TypeOK, kernel, clientSide
<1>7. ProcessesAreChildren' /\ NoLostChild'
  BY <1>1 DEF ProcessesAreChildren, NoLostChild, kernel
<1>8. \A j \in DOMAIN poll_list : poll_list[j].fd = fd => j = k
  BY <1>2, ServerAssumption DEF PollListOK
<1> HIDE DEF fd
<1>9. PollListOK'
  <2>1. ASSUME NEW g \in Connected'
        PROVE  \E j \in DOMAIN poll_list' :
                 /\ poll_list'[j].fd = g
                 /\ poll_list'[j].pollout <=> clients'[g].out # << >>
    <3>1. g \in Connected /\ g # fd /\ g \in Fd
      BY <1>5 DEF Connected
    <3>2. PICK j \in DOMAIN poll_list : /\ poll_list[j].fd = g
                                        /\ poll_list[j].pollout <=> clients[g].out # << >>
      BY <3>1, Zenon DEF PollListOK
    <3>3. j # k
      BY <3>1, <3>2 DEF fd
    <3>4. QED
      BY <1>4, <1>5, <3>1, <3>2, <3>3, Zenon
  <2>2. QED
    BY <1>4, <1>5, <1>8, <2>1, ServerAssumption DEF PollListOK
<1>10. EventsStillHold'
  <2>1. \A j \in Ready' : j \in Ready /\ j # k /\ poll_list'[j] = poll_list[j]
    BY <1>4, Zenon DEF Ready
  <2>2. cpipe' = cpipe /\ backlog' = backlog
    BY DEF kernel
  <2>3. QED
    BY <1>1, <2>1, <2>2, Zenon DEF EventsStillHold
<1>11. QED
  BY <1>6, <1>7, <1>9, <1>10, Zenon DEF IInv

\* POLLERR closes the client.
LEMMA ClientErrorKeeps == ASSUME IInv, client_error PROVE IInv'
<1>1. PICK k \in Ready : poll_list[k].fd \in Connected /\ close_client(k, poll_list[k].fd)
  BY DEF client_error
<1>2. /\ pc = "dispatch"
      /\ UNCHANGED <<parallel, processes, queue, cur, lines, kernel, clientSide>>
  BY DEF client_error
<1>3. QED
  BY <1>1, <1>2, CloseKeeps

\* write_to_client clears POLLOUT exactly when the buffer has become empty.
LEMMA WriteKeeps == ASSUME IInv, write_to_client PROVE IInv'
<1> TypeOK /\ ProcessesAreChildren /\ NoLostChild /\ PollListOK /\ EventsStillHold
  BY DEF IInv
<1>1. PICK k \in Ready :
        LET fd == poll_list[k].fd
            c == clients[fd].conn
            out == clients[fd].out
        IN  /\ fd \in Connected
            /\ "OUT" \in poll_list[k].revents
            /\ \/ /\ delivered' = [delivered EXCEPT ![c] = Append(@, Head(out))]
                  /\ clients' = [clients EXCEPT ![fd].out = Tail(@)]
                  /\ poll_list' = [Handled(k) EXCEPT ![k].pollout = ~ AllWritten(out)]
                  /\ UNCHANGED pc
               \/ /\ pc' = "killed"
                  /\ UNCHANGED <<delivered, clients, poll_list>>
  BY Zenon DEF write_to_client
<1>2. /\ pc = "dispatch"
      /\ UNCHANGED <<parallel, processes, queue, cur, lines, kernel, status, asked, cancelled>>
  BY Zenon DEF write_to_client
<1> DEFINE fd == poll_list[k].fd
           c == clients[fd].conn
           out == clients[fd].out
<1>6. "OUT" \in poll_list[k].revents /\ fd \in Connected
  BY <1>1, Zenon
<1> HIDE DEF fd, c, out
<1>3. CASE pc' = "killed" /\ UNCHANGED <<delivered, clients, poll_list>>
  <2>1. TypeOK'
    BY <1>2, <1>3, Zenon DEF TypeOK, kernel
  <2>2. ProcessesAreChildren' /\ NoLostChild' /\ PollListOK'
    BY <1>2, <1>3, Zenon DEF ProcessesAreChildren, NoLostChild, PollListOK, Connected, kernel
  <2>3. EventsStillHold'
    BY <1>2, <1>3 DEF EventsStillHold, Ready, Connected, kernel
  <2>4. QED
    BY <2>1, <2>2, <2>3, Zenon DEF IInv
<1>4. CASE /\ delivered' = [delivered EXCEPT ![c] = Append(@, Head(out))]
           /\ clients' = [clients EXCEPT ![fd].out = Tail(@)]
           /\ poll_list' = [Handled(k) EXCEPT ![k].pollout = ~ AllWritten(out)]
           /\ UNCHANGED pc
  <2>1. k \in DOMAIN poll_list /\ fd \in Connected /\ fd \in Fd
    BY <1>6 DEF Ready, Connected
  <2>2. clients[fd] \in Client /\ c \in Conn /\ out \in Seq(Answer)
    BY <2>1, Zenon DEF TypeOK, Connected, Client, c, out
  <2>3. out # << >>
    <3>1. poll_list[k].pollout
      BY <1>6, <2>1 DEF EventsStillHold, fd
    <3>2. QED
      BY <2>1, <3>1, ServerAssumption, Zenon DEF PollListOK, fd, out
  <2>4. Head(out) \in Answer /\ Tail(out) \in Seq(Answer)
    BY <2>2, <2>3
  <2>5. delivered' \in [Conn -> Seq(Answer)]
    <3>1. delivered[c] \in Seq(Answer) /\ delivered \in [Conn -> Seq(Answer)]
      BY <2>2, Zenon DEF TypeOK
    <3>2. Append(delivered[c], Head(out)) \in Seq(Answer)
      BY <2>4, <3>1
    <3>3. QED
      BY <1>4, <2>2, <3>1, <3>2, Zenon
  <2>6. clients' = [clients EXCEPT ![fd] = [clients[fd] EXCEPT !.out = Tail(@)]]
    BY <1>4
  <2>7. /\ [clients[fd] EXCEPT !.out = Tail(@)] \in Client
        /\ [clients[fd] EXCEPT !.out = Tail(@)].out = Tail(out)
    BY <2>2, <2>4, Zenon DEF Client, out
  <2>8. /\ clients' \in [Fd -> Client \cup {None}]
        /\ \A g \in Fd : g # fd => clients'[g] = clients[g]
        /\ clients'[fd] # None /\ clients'[fd].out = Tail(out)
    BY <2>1, <2>6, <2>7, NoneAssumption, ZenonT(40) DEF TypeOK
  <2>9. Connected' = Connected
    BY <2>1, <2>8 DEF Connected
  <2> DEFINE h == Handled(k)
             b == ~ AllWritten(out)
             new == [h EXCEPT ![k].pollout = b]
  <2>10. /\ h \in Seq(PollEntry)
         /\ DOMAIN h = DOMAIN poll_list
         /\ \A j \in DOMAIN poll_list :
              /\ h[j].fd = poll_list[j].fd
              /\ h[j].pollout = poll_list[j].pollout
              /\ h[j].revents = IF j = k THEN {} ELSE poll_list[j].revents
    BY <2>1, HandledFacts
  <2>11. b \in BOOLEAN /\ (b <=> Tail(out) # << >>)
    BY DEF AllWritten
  <2> HIDE DEF h, b
  <2>12. Len(h) \in Nat /\ DOMAIN h = 1 .. Len(h) /\ h[k] \in PollEntry
         /\ \A j \in DOMAIN h : h[j] \in PollEntry
    BY <2>1, <2>10
  <2>13. /\ [h[k] EXCEPT !.pollout = b] \in PollEntry
         /\ [h[k] EXCEPT !.pollout = b].fd = h[k].fd
         /\ [h[k] EXCEPT !.pollout = b].pollout = b
         /\ [h[k] EXCEPT !.pollout = b].revents = h[k].revents
    BY <2>11, <2>12, Zenon DEF PollEntry
  <2>14. /\ DOMAIN new = 1 .. Len(h)
         /\ \A j \in 1 .. Len(h) : new[j] = IF j = k THEN [h[k] EXCEPT !.pollout = b] ELSE h[j]
         /\ new = [j \in 1 .. Len(h) |-> new[j]]
    BY <2>12, Zenon
  <2>15. new \in Seq(PollEntry)
    BY <2>12, <2>13, <2>14, SeqOfEntries, ZenonT(40)
  <2>16. /\ DOMAIN new = DOMAIN poll_list
         /\ \A j \in DOMAIN poll_list :
              /\ new[j].fd = poll_list[j].fd
              /\ j # k => new[j].pollout = poll_list[j].pollout
              /\ new[j].revents = IF j = k THEN {} ELSE poll_list[j].revents
         /\ new[k].pollout = b
    BY <2>1, <2>10, <2>12, <2>13, <2>14, Zenon
  <2>17. poll_list' = new
    BY <1>4 DEF h, b
  <2> HIDE DEF new
  <2>18. TypeOK'
    BY <1>2, <1>4, <2>5, <2>8, <2>15, <2>17, ZenonT(40) DEF TypeOK, kernel
  <2>19. ProcessesAreChildren' /\ NoLostChild'
    BY <1>2, <1>4, Zenon DEF ProcessesAreChildren, NoLostChild, kernel
  <2>20. PollListOK'
    <3>1. ASSUME NEW g \in Connected
          PROVE  \E j \in DOMAIN new : /\ new[j].fd = g
                                       /\ new[j].pollout <=> clients'[g].out # << >>
      <4>1. CASE g = fd
        <5>1. new[k].fd = g
          BY <2>1, <2>16, <4>1, Zenon DEF fd
        <5>2. new[k].pollout <=> clients'[g].out # << >>
          BY <2>8, <2>11, <2>16, <4>1, ZenonT(40)
        <5>3. QED
          BY <2>1, <2>16, <5>1, <5>2, Zenon
      <4>2. CASE g # fd
        <5>1. PICK j \in DOMAIN poll_list : /\ poll_list[j].fd = g
                                            /\ poll_list[j].pollout <=> clients[g].out # << >>
          BY DEF PollListOK
        <5>2. j # k /\ clients'[g] = clients[g]
          BY <2>8, <4>2, <5>1, Zenon DEF fd, Connected
        <5>3. QED
          BY <2>16, <5>1, <5>2, Zenon
      <4>3. QED
        BY <4>1, <4>2
    <3>2. QED
      BY <2>9, <2>16, <2>17, <3>1 DEF PollListOK
  <2>21. EventsStillHold'
    <3>1. \A j \in Ready' : /\ j \in Ready /\ j # k
                            /\ poll_list'[j].fd = poll_list[j].fd
                            /\ poll_list'[j].pollout = poll_list[j].pollout
                            /\ poll_list'[j].revents = poll_list[j].revents
      BY <2>16, <2>17 DEF Ready
    <3>2. cpipe' = cpipe /\ backlog' = backlog /\ pc' = "dispatch"
      BY <1>2, <1>4 DEF kernel
    <3>3. QED
      BY <3>1, <3>2 DEF EventsStillHold
  <2>22. QED
    BY <2>18, <2>19, <2>20, <2>21, Zenon DEF IInv
<1>5. QED
  BY <1>1, <1>3, <1>4, Zenon DEF fd, c, out

\* read_on_client preserves the invariant: lines, end of file, or an error.
LEMMA ReadKeeps == ASSUME IInv, read_on_client PROVE IInv'
<1> TypeOK /\ ProcessesAreChildren /\ NoLostChild /\ PollListOK /\ EventsStillHold
  BY DEF IInv
<1>1. PICK k \in Ready :
        LET fd == poll_list[k].fd
            c == clients[fd].conn
        IN  /\ fd \in Connected
            /\ \/ \E n \in 1 .. Len(socket[c]) :
                    /\ lines' = SubSeq(socket[c], 1, n)
                    /\ socket' = [socket EXCEPT ![c] = SubSeq(@, n + 1, Len(@))]
                    /\ cur' = fd
                    /\ poll_list' = Handled(k)
                    /\ pc' = "lines"
                    /\ UNCHANGED <<clients, status>>
               \/ close_client(k, fd) /\ UNCHANGED <<lines, socket, cur, status>>
               \/ /\ status' = [status EXCEPT ![c] = "closed"]
                  /\ poll_list' = Handled(k)
                  /\ UNCHANGED <<lines, socket, cur, clients, pc>>
  BY Zenon DEF read_on_client
<1>2. /\ pc = "dispatch"
      /\ UNCHANGED <<parallel, processes, queue, backlog, children, sigchld, cpipe,
                     asked, delivered, cancelled>>
  BY Zenon DEF read_on_client
<1> DEFINE fd == poll_list[k].fd
           c == clients[fd].conn
<1>3. k \in DOMAIN poll_list /\ fd \in Connected /\ fd \in Fd
  <2>1. fd \in Connected
    BY <1>1, Zenon
  <2>2. QED
    BY <2>1 DEF Ready, Connected
<1>4. c \in Conn
  BY <1>3, Zenon DEF TypeOK, Connected, Client
<1> HIDE DEF fd, c
<1>5. CASE close_client(k, fd) /\ UNCHANGED <<lines, socket, cur, status>>
  BY <1>2, <1>3, <1>5, CloseKeeps, Zenon DEF fd, kernel, clientSide
<1>6. ASSUME poll_list' = Handled(k), UNCHANGED clients,
             pc' \in {"dispatch", "lines"}, pc' = "lines" => cur' \in Connected
      PROVE  /\ poll_list' \in Seq(PollEntry)
             /\ ProcessesAreChildren' /\ NoLostChild' /\ PollListOK' /\ EventsStillHold'
  <2>1. /\ Handled(k) \in Seq(PollEntry)
        /\ DOMAIN Handled(k) = DOMAIN poll_list
        /\ \A j \in DOMAIN poll_list :
             /\ Handled(k)[j].fd = poll_list[j].fd
             /\ Handled(k)[j].pollout = poll_list[j].pollout
             /\ Handled(k)[j].revents = IF j = k THEN {} ELSE poll_list[j].revents
    BY <1>3, HandledFacts
  <2>2. /\ poll_list' \in Seq(PollEntry)
        /\ DOMAIN poll_list' = DOMAIN poll_list
        /\ \A j \in DOMAIN poll_list :
             /\ poll_list'[j].fd = poll_list[j].fd
             /\ poll_list'[j].pollout = poll_list[j].pollout
             /\ poll_list'[j].revents = IF j = k THEN {} ELSE poll_list[j].revents
    BY <1>6, <2>1
  <2>3. Connected' = Connected
    BY <1>6 DEF Connected
  <2>4. PollListOK'
    <3>1. ASSUME NEW g \in Connected'
          PROVE  \E j \in DOMAIN poll_list' :
                   /\ poll_list'[j].fd = g
                   /\ poll_list'[j].pollout <=> (clients'[g].out # << >>)
      <4>1. PICK j \in DOMAIN poll_list : /\ poll_list[j].fd = g
                                          /\ poll_list[j].pollout <=> (clients[g].out # << >>)
        BY <2>3, <3>1 DEF PollListOK
      <4>2. QED
        BY <1>6, <2>2, <4>1, Zenon
    <3>2. \A i, j \in DOMAIN poll_list' :
            poll_list'[i].fd = poll_list'[j].fd /\ poll_list'[i].fd # NoFd => i = j
      BY <2>2 DEF PollListOK
    <3>3. \A j \in DOMAIN poll_list' :
            poll_list'[j].fd \in Fd => poll_list'[j].fd \in Connected'
      BY <2>2, <2>3 DEF PollListOK
    <3>4. QED
      BY <3>1, <3>2, <3>3, Zenon DEF PollListOK
  <2>5. ProcessesAreChildren' /\ NoLostChild'
    BY <1>2, <1>6 DEF ProcessesAreChildren, NoLostChild
  <2>6. EventsStillHold'
    <3>1. \A j \in Ready' : /\ j \in Ready
                            /\ poll_list'[j].fd = poll_list[j].fd
                            /\ poll_list'[j].pollout = poll_list[j].pollout
                            /\ poll_list'[j].revents = poll_list[j].revents
      BY <2>2 DEF Ready
    <3>2. QED
      BY <1>2, <1>6, <2>3, <3>1 DEF EventsStillHold
  <2>7. QED
    BY <2>2, <2>4, <2>5, <2>6, Zenon
<1>7. CASE \E n \in 1 .. Len(socket[c]) :
             /\ lines' = SubSeq(socket[c], 1, n)
             /\ socket' = [socket EXCEPT ![c] = SubSeq(@, n + 1, Len(@))]
             /\ cur' = fd
             /\ poll_list' = Handled(k)
             /\ pc' = "lines"
             /\ UNCHANGED <<clients, status>>
  <2>1. PICK n \in 1 .. Len(socket[c]) :
             /\ lines' = SubSeq(socket[c], 1, n)
             /\ socket' = [socket EXCEPT ![c] = SubSeq(@, n + 1, Len(@))]
    BY <1>7, Zenon
  <2>2. socket[c] \in Seq(Line) /\ Len(socket[c]) \in Nat
    BY <1>4 DEF TypeOK
  <2>3. SubSeq(socket[c], 1, n) \in Seq(Line)
    BY <2>2
  <2>4. SubSeq(socket[c], n + 1, Len(socket[c])) \in Seq(Line)
    BY <2>2
  <2>5. socket' \in [Conn -> Seq(Line)] /\ lines' \in Seq(Line)
    BY <1>4, <2>1, <2>3, <2>4, Zenon DEF TypeOK
  <2>6. /\ poll_list' \in Seq(PollEntry)
        /\ ProcessesAreChildren' /\ NoLostChild' /\ PollListOK' /\ EventsStillHold'
    BY <1>3, <1>6, <1>7, Zenon
  <2>7. TypeOK'
    BY <1>2, <1>3, <1>7, <2>5, <2>6, ZenonT(40) DEF TypeOK
  <2>8. QED
    BY <2>6, <2>7, Zenon DEF IInv
<1>8. CASE /\ status' = [status EXCEPT ![c] = "closed"]
           /\ poll_list' = Handled(k)
           /\ UNCHANGED <<lines, socket, cur, clients, pc>>
  <2>1. /\ poll_list' \in Seq(PollEntry)
        /\ ProcessesAreChildren' /\ NoLostChild' /\ PollListOK' /\ EventsStillHold'
    BY <1>2, <1>6, <1>8, Zenon
  <2>2. TypeOK'
    BY <1>2, <1>4, <1>8, <2>1, Zenon DEF TypeOK
  <2>3. QED
    BY <2>1, <2>2 DEF IInv
<1>9. QED
  BY <1>1, <1>5, <1>7, <1>8, Zenon DEF fd, c

\* The events stay valid when only the pollout fields are set.
LEMMA EventsKept ==
  ASSUME EventsStillHold,
         DOMAIN poll_list' = DOMAIN poll_list,
         \A j \in DOMAIN poll_list : /\ poll_list'[j].fd = poll_list[j].fd
                                     /\ poll_list'[j].revents = poll_list[j].revents
                                     /\ poll_list[j].pollout => poll_list'[j].pollout,
         cpipe > 0 => cpipe' > 0,
         backlog # << >> => backlog' # << >>,
         pc' = pc \/ pc' \in {"down", "killed"},
         cur' = cur,
         Connected' = Connected
  PROVE  EventsStillHold'
BY DEF EventsStillHold, Ready

\* run_request preserves the invariant from every place it is called from.
LEMMA RunRequestKeeps ==
  ASSUME IInv, NEW r \in Request, run_request(r), pc # "reap",
         cur' = cur, cpipe' = cpipe, backlog' = backlog, sigchld' = sigchld
  PROVE  /\ processes' \in [Pid -> Process \cup {None}]
         /\ children' \in [Pid -> {"none"} \cup Alive \cup Zombie]
         /\ clients' \in [Fd -> Client \cup {None}]
         /\ poll_list' \in Seq(PollEntry)
         /\ pc' \in {pc, "down"}
         /\ Connected' = Connected
         /\ ProcessesAreChildren'
         /\ NoLostChild'
         /\ PollListOK'
         /\ EventsStillHold'
<1> TypeOK /\ ProcessesAreChildren /\ NoLostChild /\ PollListOK /\ EventsStillHold
  BY DEF IInv
<1>1. r.key \in Fd /\ r.id \in Nat /\ r.owner \in Conn
  BY DEF Request
<1>2. CASE UNCHANGED <<processes, children, clients, poll_list>> /\ pc' \in {pc, "down"}
  <2>1. Connected' = Connected
    BY <1>2 DEF Connected
  <2>2. PollListOK' /\ ProcessesAreChildren' /\ NoLostChild'
    BY <1>2, <2>1 DEF PollListOK, ProcessesAreChildren, NoLostChild
  <2>3. EventsStillHold'
    BY <1>2, <2>1 DEF EventsStillHold, Ready
  <2>4. QED
    BY <1>2, <2>1, <2>2, <2>3, Zenon DEF TypeOK
<1>3. CASE /\ clients[r.key] # None
           /\ \E pid \in FreePid :
                /\ children' = [children EXCEPT ![pid] = "running"]
                /\ processes' = [processes EXCEPT ![pid] =
                     [task_id |-> r.id, client_key |-> r.key, owner |-> r.owner]]
           /\ queue_write(poll_list, r.key, Started(r.id, r.owner))
           /\ UNCHANGED pc
  <2>1. PICK pid \in FreePid :
          /\ children' = [children EXCEPT ![pid] = "running"]
          /\ processes' = [processes EXCEPT ![pid] =
               [task_id |-> r.id, client_key |-> r.key, owner |-> r.owner]]
    BY <1>3, Zenon
  <2>2. pid \in Pid /\ children[pid] = "none"
    BY DEF FreePid
  <2>3. [task_id |-> r.id, client_key |-> r.key, owner |-> r.owner] \in Process
    BY <1>1 DEF Process
  <2>4. /\ processes' \in [Pid -> Process \cup {None}]
        /\ children' \in [Pid -> {"none"} \cup Alive \cup Zombie]
    BY <2>1, <2>3, Zenon DEF TypeOK, Alive
  <2>5. ProcessesAreChildren'
    BY <2>1, <2>2, <2>3, NoneAssumption, Zenon DEF ProcessesAreChildren, TypeOK
  <2>6. NoLostChild'
    BY <1>3, <2>1, <2>2, Zenon DEF NoLostChild, TypeOK, Zombie, Signals
  <2>7. r.key \in Connected
    BY <1>1, <1>3 DEF Connected
  <2>8. /\ clients' \in [Fd -> Client \cup {None}]
        /\ poll_list' \in Seq(PollEntry)
        /\ DOMAIN poll_list' = DOMAIN poll_list
        /\ \A j \in DOMAIN poll_list : /\ poll_list'[j].fd = poll_list[j].fd
                                       /\ poll_list'[j].revents = poll_list[j].revents
                                       /\ poll_list[j].pollout => poll_list'[j].pollout
        /\ Connected' = Connected
        /\ PollListOK'
    BY <1>3, <2>7, StartedAnswer, QueueWriteKeeps, Zenon
  <2>9. EventsStillHold'
    BY <1>3, <2>8, EventsKept, Zenon
  <2>10. QED
    BY <1>3, <2>4, <2>5, <2>6, <2>8, <2>9, Zenon
<1>4. QED
  BY <1>2, <1>3 DEF run_request

\* An iteration of schedule_new_jobs preserves the invariant.
LEMMA ScheduleKeeps == ASSUME IInv, schedule_new_jobs PROVE IInv'
<1> TypeOK /\ ProcessesAreChildren /\ NoLostChild /\ PollListOK /\ EventsStillHold
  BY DEF IInv
<1>1. CASE list_length_processes < parallel /\ queue # << >>
  <2>1. Head(queue) \in Request /\ Tail(queue) \in Seq(Request)
    <3>1. queue \in Seq(Request)
      BY Zenon DEF TypeOK
    <3>2. QED
      BY <1>1, <3>1
  <2>2. /\ queue' = Tail(queue)
        /\ run_request(Head(queue))
        /\ UNCHANGED <<parallel, cur, lines, backlog, socket, sigchld, cpipe, clientSide>>
        /\ pc = "schedule"
    BY <1>1 DEF schedule_new_jobs
  <2>3. pc # "reap" /\ cur' = cur /\ cpipe' = cpipe /\ backlog' = backlog /\ sigchld' = sigchld
    BY <2>2
  <2>4. /\ processes' \in [Pid -> Process \cup {None}]
        /\ children' \in [Pid -> {"none"} \cup Alive \cup Zombie]
        /\ clients' \in [Fd -> Client \cup {None}]
        /\ poll_list' \in Seq(PollEntry)
        /\ pc' \in {pc, "down"}
        /\ ProcessesAreChildren' /\ NoLostChild' /\ PollListOK' /\ EventsStillHold'
    BY <2>1, <2>2, <2>3, RunRequestKeeps, Zenon
  <2>5. TypeOK'
    BY <2>1, <2>2, <2>4, Zenon DEF TypeOK, clientSide
  <2>6. QED
    BY <2>4, <2>5 DEF IInv
<1>2. CASE ~ (list_length_processes < parallel /\ queue # << >>)
  <2>1. /\ pc = "schedule" /\ pc' = "clean"
        /\ UNCHANGED <<parallel, clients, poll_list, processes, queue, cur, lines,
                       kernel, clientSide>>
    BY <1>2 DEF schedule_new_jobs
  <2>2. TypeOK'
    BY <2>1, Zenon DEF TypeOK, kernel, clientSide
  <2>3. ProcessesAreChildren' /\ NoLostChild' /\ PollListOK'
    BY <2>1 DEF ProcessesAreChildren, NoLostChild, PollListOK, Connected, kernel
  <2>4. EventsStillHold'
    BY <2>1 DEF EventsStillHold, Ready, Connected, kernel
  <2>5. QED
    BY <2>2, <2>3, <2>4, Zenon DEF IInv
<1>3. QED
  BY <1>1, <1>2

\* Reaping a child removes it from the list of processes and from the kernel.
LEMMA ReapKeeps == ASSUME IInv, NEW pid \in Pid, Reap(pid) PROVE IInv'
<1> TypeOK /\ ProcessesAreChildren /\ NoLostChild /\ PollListOK /\ EventsStillHold
  BY DEF IInv
<1> DEFINE proc == processes[pid]
           fd == proc.client_key
<1>1. /\ pc = "reap" /\ children[pid] \in Zombie
      /\ children' = [children EXCEPT ![pid] = "none"]
      /\ processes' = [processes EXCEPT ![pid] = None]
      /\ UNCHANGED <<parallel, queue, pc, cur, lines, backlog, socket, sigchld, cpipe,
                     clientSide>>
  BY DEF Reap
<1>2. /\ clients[fd] # None => queue_write(poll_list, fd, Finished(proc, children[pid]))
      /\ clients[fd] = None => UNCHANGED <<clients, poll_list>>
  BY DEF Reap
<1>3. proc \in Process /\ fd \in Fd
  <2>1. children[pid] # "none"
    BY <1>1 DEF Zombie, Signals
  <2>2. proc # None /\ proc \in Process \cup {None}
    BY <2>1, Zenon DEF ProcessesAreChildren, TypeOK
  <2>3. QED
    BY <2>2 DEF Process
<1> HIDE DEF proc, fd
<1>4. /\ clients' \in [Fd -> Client \cup {None}]
      /\ poll_list' \in Seq(PollEntry)
      /\ DOMAIN poll_list' = DOMAIN poll_list
      /\ \A j \in DOMAIN poll_list : /\ poll_list'[j].fd = poll_list[j].fd
                                     /\ poll_list'[j].revents = poll_list[j].revents
                                     /\ poll_list[j].pollout => poll_list'[j].pollout
      /\ Connected' = Connected
      /\ PollListOK'
  <2>1. CASE clients[fd] = None
    <3>1. UNCHANGED <<clients, poll_list>>
      BY <1>2, <2>1
    <3>2. QED
      BY <3>1, Zenon DEF TypeOK, PollListOK, Connected
  <2>2. CASE clients[fd] # None
    <3>1. fd \in Connected
      BY <1>3, <2>2 DEF Connected
    <3>2. Finished(proc, children[pid]) \in Answer
      BY <1>1, <1>3, FinishedAnswer
    <3>3. QED
      BY <1>2, <2>2, <3>1, <3>2, QueueWriteKeeps, Zenon
  <2>3. QED
    BY <2>1, <2>2
<1>5. TypeOK'
  BY <1>1, <1>4, Zenon DEF TypeOK, clientSide
<1>6. ProcessesAreChildren' /\ NoLostChild'
  BY <1>1, Zenon DEF ProcessesAreChildren, NoLostChild, TypeOK
<1>7. EventsStillHold'
  BY <1>1, <1>4, EventsKept
<1>8. QED
  BY <1>4, <1>5, <1>6, <1>7, Zenon DEF IInv

\* What remove_from_queue leaves is again a queue of requests.
LEMMA RemovedQueue ==
  ASSUME IInv, NEW id, remove_from_queue(id)
  PROVE  queue' \in Seq(Request)
<1>1. queue \in Seq(Request) /\ Len(queue) \in Nat
  <2> TypeOK
    BY DEF IInv
  <2>1. QED
    BY DEF TypeOK
<1> DEFINE kept == {k \in DOMAIN queue : queue[k].id # id}
<1>2. PICK n \in 0 .. Len(queue) : \E from \in [1 .. n -> kept] :
             queue' = [i \in 1 .. n |-> queue[from[i]]]
  BY Zenon DEF remove_from_queue
<1>3. PICK from \in [1 .. n -> kept] : queue' = [i \in 1 .. n |-> queue[from[i]]]
  BY <1>2, Zenon
<1>4. n \in Nat /\ \A i \in 1 .. n : queue[from[i]] \in Request
  BY <1>1, <1>3
<1>5. QED
  BY <1>3, <1>4

\* Carrying out a request line preserves the invariant.
LEMMA HandleMsgKeeps == ASSUME IInv, handle_msg PROVE IInv'
<1> TypeOK /\ ProcessesAreChildren /\ NoLostChild /\ PollListOK /\ EventsStillHold
  BY DEF IInv
<1> DEFINE l == Head(lines)
           r == [key |-> cur, id |-> l.arg, owner |-> clients[cur].conn]
<1>1. /\ pc = "lines" /\ lines # << >> /\ lines' = Tail(lines)
      /\ \/ l.cmd = "parallel" /\ set_parallel(l.arg)
         \/ l.cmd = "run" /\ handle_run(r)
         \/ l.cmd = "interrupt" /\ handle_interrupt(l.arg)
      /\ UNCHANGED <<cur, backlog, socket, sigchld, cpipe, status, asked, delivered>>
  BY DEF handle_msg
<1>2. l \in Line /\ Tail(lines) \in Seq(Line)
  <2>1. lines \in Seq(Line)
    BY Zenon DEF TypeOK
  <2>2. QED
    BY <1>1, <2>1
<1>3. l.arg \in Nat
  BY <1>2 DEF Line
<1>4. r \in Request
  <2>1. cur \in Connected /\ cur \in Fd
    BY <1>1 DEF EventsStillHold, Connected
  <2>2. clients[cur].conn \in Conn
    BY <2>1, Zenon DEF TypeOK, Connected, Client
  <2>3. QED
    BY <1>3, <2>1, <2>2, Zenon DEF Request
<1> HIDE DEF r, l
<1>5. CASE set_parallel(l.arg)
  <2>1. /\ parallel' = IF l.arg >= 1 THEN l.arg ELSE parallel
        /\ UNCHANGED <<processes, children, clients, poll_list, queue, cancelled, pc>>
    BY <1>5 DEF set_parallel
  <2>2. (IF l.arg >= 1 THEN l.arg ELSE parallel) \in Nat \ {0}
    <3>1. parallel \in Nat \ {0}
      BY Zenon DEF TypeOK
    <3>2. QED
      BY <1>3, <3>1
  <2>3. TypeOK'
    BY <1>1, <1>2, <2>1, <2>2, Zenon DEF TypeOK
  <2>4. ProcessesAreChildren' /\ NoLostChild' /\ PollListOK' /\ EventsStillHold'
    BY <1>1, <2>1, Zenon DEF ProcessesAreChildren, NoLostChild, PollListOK, EventsStillHold, Ready,
                      Connected
  <2>5. QED
    BY <2>3, <2>4 DEF IInv
<1>6. CASE handle_run(r)
  <2>1. CASE run_request(r) /\ UNCHANGED <<queue, parallel, cancelled>>
    <3>1. pc # "reap" /\ cur' = cur /\ cpipe' = cpipe /\ backlog' = backlog /\ sigchld' = sigchld
      BY <1>1
    <3>2. /\ processes' \in [Pid -> Process \cup {None}]
          /\ children' \in [Pid -> {"none"} \cup Alive \cup Zombie]
          /\ clients' \in [Fd -> Client \cup {None}]
          /\ poll_list' \in Seq(PollEntry)
          /\ pc' \in {pc, "down"}
          /\ ProcessesAreChildren' /\ NoLostChild' /\ PollListOK' /\ EventsStillHold'
      BY <1>4, <2>1, <3>1, RunRequestKeeps, Zenon
    <3>3. TypeOK'
      BY <1>1, <1>2, <2>1, <3>2, Zenon DEF TypeOK
    <3>4. QED
      BY <3>2, <3>3 DEF IInv
  <2>2. CASE /\ queue' = Append(queue, r)
             /\ UNCHANGED <<processes, children, clients, poll_list, pc, parallel, cancelled>>
    <3>1. Append(queue, r) \in Seq(Request)
      <4>1. queue \in Seq(Request)
        BY Zenon DEF TypeOK
      <4>2. QED
        BY <1>4, <4>1
    <3>2. TypeOK'
      BY <1>1, <1>2, <2>2, <3>1, Zenon DEF TypeOK
    <3>3. ProcessesAreChildren' /\ NoLostChild' /\ PollListOK' /\ EventsStillHold'
      BY <1>1, <2>2, Zenon DEF ProcessesAreChildren, NoLostChild, PollListOK, EventsStillHold, Ready,
                        Connected
    <3>4. QED
      BY <3>2, <3>3, Zenon DEF IInv
  <2>3. QED
    BY <1>6, <2>1, <2>2, Zenon DEF handle_run
<1>7. CASE handle_interrupt(l.arg)
  <2>1. /\ remove_from_queue(l.arg)
        /\ children' = kill_processes(l.arg)
        /\ cancelled' = cancelled \cup
             {<<queue[i].owner, l.arg>> : i \in {j \in DOMAIN queue : queue[j].id = l.arg}}
        /\ UNCHANGED <<parallel, processes, clients, poll_list, pc>>
    BY <1>7 DEF handle_interrupt
  <2>2. queue' \in Seq(Request)
    BY <2>1, RemovedQueue
  <2>3. cancelled' \subseteq Conn \X Nat
    <3>1. \A i \in DOMAIN queue : queue[i] \in Request
      <4>1. queue \in Seq(Request)
        BY Zenon DEF TypeOK
      <4>2. QED
        BY <4>1
    <3>2. \A i \in DOMAIN queue : queue[i].owner \in Conn
      BY <3>1 DEF Request
    <3>3. {<<queue[i].owner, l.arg>> : i \in {j \in DOMAIN queue : queue[j].id = l.arg}}
            \subseteq Conn \X Nat
      BY <1>3, <3>2
    <3>4. cancelled \subseteq Conn \X Nat
      BY Zenon DEF TypeOK
    <3>5. QED
      BY <2>1, <3>3, <3>4, ZenonT(40)
  <2>4. /\ children' \in [Pid -> {"none"} \cup Alive \cup Zombie]
        /\ \A p \in Pid : children'[p] = children[p]
                          \/ (children[p] = "running" /\ children'[p] = "doomed")
    BY <2>1, Zenon DEF kill_processes, TypeOK, Alive
  <2>5. TypeOK'
    BY <1>1, <1>2, <2>1, <2>2, <2>3, <2>4, ZenonT(40) DEF TypeOK
  <2>6. ProcessesAreChildren'
    BY <2>1, <2>4 DEF ProcessesAreChildren
  <2>7. NoLostChild'
    BY <1>1, <2>1, <2>4, Zenon DEF NoLostChild, Zombie, Signals
  <2>8. PollListOK' /\ EventsStillHold'
    BY <1>1, <2>1, Zenon DEF PollListOK, EventsStillHold, Ready, Connected
  <2>9. QED
    BY <2>5, <2>6, <2>7, <2>8 DEF IInv
<1>8. QED
  BY <1>1, <1>5, <1>6, <1>7
=============================================================================
