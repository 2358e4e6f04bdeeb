----------------------- MODULE ProofServerPollProofs ------------------------
(***************************************************************************)
(* The steps of the poll loop, of the kernel and of the clients keep IInv  *)
(* of ProofServerInvariant.                                                *)
(***************************************************************************)
EXTENDS ProofServerInvariant

\* The state server_init_listening sets up satisfies the invariant.
LEMMA InitIInv == Init => IInv
<1> SUFFICES ASSUME Init PROVE IInv
  OBVIOUS
<1> USE DEF Init
<1>1. TypeOK
  <2>1. poll_list \in Seq(PollEntry)
    BY DEF PollEntry, Entry, Events
  <2>2. asked \in [Conn -> [run : Nat, interrupt : SUBSET Nat, parallel : Nat]]
    OBVIOUS
  <2>3. clients \in [Fd -> Client \cup {None}] /\ processes \in [Pid -> Process \cup {None}]
    OBVIOUS
  <2>4. /\ children \in [Pid -> {"none"} \cup Alive \cup Zombie]
        /\ status \in [Conn -> {"new", "open", "closed", "reset"}]
    OBVIOUS
  <2>5. /\ queue \in Seq(Request) /\ lines \in Seq(Line) /\ backlog \in Seq(Conn)
        /\ socket \in [Conn -> Seq(Line)] /\ delivered \in [Conn -> Seq(Answer)]
    OBVIOUS
  <2>6. parallel \in Nat \ {0} /\ cpipe \in 0 .. PipeCap
    BY ServerAssumption
  <2>8. sigchld \in BOOLEAN
    BY Zenon
  <2>7. QED
    BY <2>1, <2>2, <2>3, <2>4, <2>5, <2>6, <2>8, Zenon DEF TypeOK
<1>2. ProcessesAreChildren
  BY DEF ProcessesAreChildren
<1>3. NoLostChild
  BY DEF NoLostChild, Zombie, Signals
<1>4. PollListOK
  BY ServerAssumption DEF PollListOK, Connected, Entry
<1>5. EventsStillHold
  BY DEF EventsStillHold, Ready, Entry
<1>6. QED
  BY <1>1, <1>2, <1>3, <1>4, <1>5, Zenon DEF IInv

\* poll_list_clean fills a hole with the last entry and loses none.
LEMMA CleanKeeps == ASSUME IInv, poll_list_clean PROVE IInv'
<1> TypeOK /\ ProcessesAreChildren /\ NoLostChild /\ PollListOK /\ EventsStillHold
  BY DEF IInv
<1> DEFINE Removed == {k \in DOMAIN poll_list : poll_list[k].fd = NoFd}
           last == Len(poll_list)
<1>1. /\ pc = "clean"
      /\ UNCHANGED <<parallel, clients, processes, queue, cur, lines, kernel, clientSide>>
  BY DEF poll_list_clean
<1>2. poll_list \in Seq(PollEntry) /\ last \in Nat /\ DOMAIN poll_list = 1 .. last
  BY DEF TypeOK
<1>3. ProcessesAreChildren' /\ (pc' \in {"clean", "poll"} => NoLostChild')
  BY <1>1 DEF ProcessesAreChildren, NoLostChild, kernel
<1>4. Connected' = Connected /\ clients' = clients
  BY <1>1 DEF Connected
<1>5. CASE Removed = {} /\ pc' = "poll" /\ UNCHANGED poll_list
  <2>1. TypeOK'
    BY <1>1, <1>5, Zenon DEF TypeOK, kernel, clientSide
  <2>2. PollListOK'
    BY <1>4, <1>5 DEF PollListOK
  <2>3. EventsStillHold'
    BY <1>1, <1>4, <1>5 DEF EventsStillHold, Ready, kernel
  <2>4. QED
    BY <1>3, <1>5, <2>1, <2>2, <2>3, Zenon DEF IInv
<1>6. ASSUME NEW k \in Removed,
             poll_list' = [j \in 1 .. last - 1 |->
                             IF j = k THEN poll_list[last] ELSE poll_list[j]],
             UNCHANGED pc
      PROVE  IInv'
  <2>1. k \in 1 .. last /\ poll_list[k].fd = NoFd
    BY <1>2
  <2>2. last - 1 \in Nat
    BY <1>2, <2>1
  <2>3. \A j \in 1 .. last - 1 : poll_list'[j] = IF j = k THEN poll_list[last] ELSE poll_list[j]
    BY <1>6
  <2>4. \A j \in 1 .. last - 1 : poll_list'[j] \in PollEntry
    BY <1>2, <2>2, <2>3
  <2>5. poll_list' \in Seq(PollEntry) /\ DOMAIN poll_list' = 1 .. last - 1
    BY <1>6, <2>2, <2>3, <2>4
  <2>6. TypeOK'
    BY <1>1, <1>6, <2>5, Zenon DEF TypeOK, kernel, clientSide
  <2>7. PollListOK'
    <3>1. ASSUME NEW g \in Connected
          PROVE  \E j \in 1 .. last - 1 :
                   /\ poll_list'[j].fd = g
                   /\ poll_list'[j].pollout <=> clients[g].out # << >>
      <4>1. PICK i \in DOMAIN poll_list : /\ poll_list[i].fd = g
                                          /\ poll_list[i].pollout <=> clients[g].out # << >>
        BY DEF PollListOK
      <4>2. i # k
        BY <2>1, <4>1, ServerAssumption, Zenon DEF Connected
      <4>3. CASE i = last
        <5>1. k \in 1 .. last - 1
          BY <1>2, <2>1, <4>2, <4>3
        <5>2. QED
          BY <2>3, <4>1, <4>3, <5>1, Zenon
      <4>4. CASE i # last
        <5>1. i \in 1 .. last - 1
          BY <1>2, <4>4
        <5>2. QED
          BY <2>3, <4>1, <4>2, <5>1, Zenon
      <4>5. QED
        BY <4>3, <4>4
    <3>2. ASSUME NEW i \in 1 .. last - 1, NEW j \in 1 .. last - 1,
                 poll_list'[i].fd = poll_list'[j].fd, poll_list'[i].fd # NoFd
          PROVE  i = j
      BY <1>2, <2>1, <2>3, <3>2 DEF PollListOK
    <3>3. \A j \in 1 .. last - 1 : poll_list'[j].fd \in Fd => poll_list'[j].fd \in Connected
      BY <1>2, <2>1, <2>3 DEF PollListOK
    <3>4. QED
      BY <1>4, <2>5, <3>1, <3>2, <3>3, ZenonT(40) DEF PollListOK
  <2>8. EventsStillHold'
    <3>1. \A j \in 1 .. last : poll_list[j].revents = {}
      BY <1>1, <1>2, Zenon DEF EventsStillHold, Ready
    <3>2. \A j \in 1 .. last - 1 : poll_list'[j].revents = {}
      BY <1>2, <2>1, <2>3, <3>1
    <3>3. QED
      BY <1>1, <1>6, <2>5, <3>2, Zenon DEF EventsStillHold, Ready
  <2>9. QED
    BY <1>1, <1>3, <1>6, <2>6, <2>7, <2>8, Zenon DEF IInv
<1>7. QED
  BY <1>5, <1>6 DEF poll_list_clean

\* What poll reports for an entry is true of it at that moment.
LEMMA PollEventsFacts ==
  ASSUME IInv, pc = "poll", NEW k \in DOMAIN poll_list
  PROVE  LET e == poll_list[k] IN
         /\ PollEvents(e) \in Events
         /\ e.fd # NoFd
         /\ e.fd = PipeFd /\ PollEvents(e) # {} => cpipe > 0
         /\ e.fd = ListenFd /\ PollEvents(e) # {} => backlog # << >>
         /\ e.fd \in Fd /\ "OUT" \in PollEvents(e) => e.pollout
<1>1. poll_list[k].fd # NoFd
  BY DEF IInv, EventsStillHold
<1>2. ASSUME NEW e PROVE ClientEvents(e) \in Events /\ ("OUT" \in ClientEvents(e) => e.pollout)
  BY DEF ClientEvents, Events
<1>3. QED
  BY <1>1, <1>2, ServerAssumption DEF PollEvents, Events

\* After poll every reported event holds.
LEMMA PollKeeps == ASSUME IInv, poll PROVE IInv'
<1> TypeOK /\ ProcessesAreChildren /\ NoLostChild /\ PollListOK /\ EventsStillHold
  BY DEF IInv
<1>1. /\ pc = "poll" /\ pc' = "dispatch"
      /\ UNCHANGED <<parallel, clients, processes, queue, cur, lines, kernel, clientSide>>
  BY DEF poll
<1>2. poll_list' = [k \in DOMAIN poll_list |->
                      [poll_list[k] EXCEPT !.revents = PollEvents(poll_list[k])]]
  BY DEF poll
<1>3. /\ poll_list \in Seq(PollEntry)
      /\ Len(poll_list) \in Nat /\ DOMAIN poll_list = 1 .. Len(poll_list)
      /\ \A k \in DOMAIN poll_list : poll_list[k] \in PollEntry
  BY DEF TypeOK
<1>4. \A k \in DOMAIN poll_list : PollEvents(poll_list[k]) \in Events
  BY <1>1, PollEventsFacts
<1>5. \A k \in DOMAIN poll_list :
        /\ poll_list'[k] \in PollEntry
        /\ poll_list'[k].fd = poll_list[k].fd
        /\ poll_list'[k].pollout = poll_list[k].pollout
        /\ poll_list'[k].revents = PollEvents(poll_list[k])
  BY <1>2, <1>3, <1>4 DEF PollEntry
<1>6. DOMAIN poll_list' = DOMAIN poll_list /\ poll_list' \in Seq(PollEntry)
  BY <1>2, <1>3, <1>5
<1>7. TypeOK'
  BY <1>1, <1>6, Zenon DEF TypeOK, kernel, clientSide
<1>8. ProcessesAreChildren' /\ NoLostChild'
  BY <1>1 DEF ProcessesAreChildren, NoLostChild, kernel
<1>9. PollListOK'
  BY <1>1, <1>5, <1>6 DEF PollListOK, Connected
<1>10. EventsStillHold'
  <2>1. \A k \in DOMAIN poll_list :
          LET e == poll_list[k] IN
          /\ e.fd # NoFd
          /\ e.fd = PipeFd /\ PollEvents(e) # {} => cpipe > 0
          /\ e.fd = ListenFd /\ PollEvents(e) # {} => backlog # << >>
          /\ e.fd \in Fd /\ "OUT" \in PollEvents(e) => e.pollout
    BY <1>1, PollEventsFacts, Zenon
  <2>2. cpipe' = cpipe /\ backlog' = backlog
    BY <1>1 DEF kernel
  <2>3. QED
    BY <1>1, <1>5, <1>6, <2>1, <2>2 DEF EventsStillHold, Ready
<1>11. QED
  BY <1>7, <1>8, <1>9, <1>10, Zenon DEF IInv

\* Leaving the loop over the entries preserves the invariant.
LEMMA EndOfRoundKeeps == ASSUME IInv, EndOfRound PROVE IInv'
<1> TypeOK /\ ProcessesAreChildren /\ NoLostChild /\ PollListOK /\ EventsStillHold
  BY DEF IInv
<1>1. /\ pc = "dispatch" /\ pc' = "schedule" /\ Ready = {}
      /\ UNCHANGED <<parallel, clients, poll_list, processes, queue, cur, lines,
                     kernel, clientSide>>
  BY DEF EndOfRound
<1>2. TypeOK'
  BY <1>1, Zenon DEF TypeOK, kernel, clientSide
<1>3. ProcessesAreChildren' /\ NoLostChild' /\ PollListOK'
  BY <1>1, Zenon DEF ProcessesAreChildren, NoLostChild, PollListOK, Connected, kernel
<1>4. EventsStillHold'
  BY <1>1, Zenon DEF EventsStillHold, Ready, kernel
<1>5. QED
  BY <1>2, <1>3, <1>4 DEF IInv

\* add_to_poll_list: the entries so far and the new one.
LEMMA AppendFacts ==
  ASSUME NEW s \in Seq(PollEntry), NEW e \in PollEntry
  PROVE  /\ Append(s, e) \in Seq(PollEntry)
         /\ Len(s) \in Nat
         /\ DOMAIN Append(s, e) = 1 .. Len(s) + 1
         /\ \A j \in 1 .. Len(s) : Append(s, e)[j] = s[j]
         /\ Append(s, e)[Len(s) + 1] = e
OBVIOUS

\* server_accept_client adds a client and its entry together.
LEMMA AcceptKeeps == ASSUME IInv, server_accept_client PROVE IInv'
<1> TypeOK /\ ProcessesAreChildren /\ NoLostChild /\ PollListOK /\ EventsStillHold
  BY DEF IInv
<1>1. PICK k \in Ready :
        /\ IsNext(k)
        /\ poll_list[k].fd = ListenFd
        /\ \/ \E fd \in Fd \ Connected :
                /\ clients' = [clients EXCEPT ![fd] = [conn |-> Head(backlog), out |-> << >>]]
                /\ poll_list' = Append(Handled(k), Entry(fd, FALSE, {}))
                /\ backlog' = Tail(backlog)
                /\ UNCHANGED pc
           \/ /\ Connected = Fd
              /\ pc' = "down"
              /\ UNCHANGED <<clients, poll_list, backlog>>
  BY Zenon DEF server_accept_client
<1>2. /\ pc = "dispatch"
      /\ UNCHANGED <<parallel, processes, queue, cur, lines,
                     socket, children, sigchld, cpipe, clientSide>>
  BY DEF server_accept_client
<1>3. k \in DOMAIN poll_list /\ backlog # << >>
  BY <1>1 DEF EventsStillHold, Ready
<1>4. ProcessesAreChildren' /\ NoLostChild'
  BY <1>2 DEF ProcessesAreChildren, NoLostChild
<1>5. CASE Connected = Fd /\ pc' = "down" /\ UNCHANGED <<clients, poll_list, backlog>>
  <2>1. TypeOK'
    BY <1>2, <1>5, Zenon DEF TypeOK, clientSide
  <2>2. PollListOK' /\ EventsStillHold'
    BY <1>2, <1>5, Zenon DEF PollListOK, EventsStillHold, Ready, Connected
  <2>3. QED
    BY <1>4, <2>1, <2>2 DEF IInv
<1>6. ASSUME NEW fd \in Fd \ Connected,
             clients' = [clients EXCEPT ![fd] = [conn |-> Head(backlog), out |-> << >>]],
             poll_list' = Append(Handled(k), Entry(fd, FALSE, {})),
             backlog' = Tail(backlog),
             UNCHANGED pc
      PROVE  IInv'
  <2> DEFINE n == Len(poll_list)
             h == Handled(k)
  <2>1. /\ poll_list \in Seq(PollEntry) /\ n \in Nat /\ DOMAIN poll_list = 1 .. n
        /\ backlog \in Seq(Conn)
    BY DEF TypeOK
  <2>2. /\ h \in Seq(PollEntry)
        /\ DOMAIN h = DOMAIN poll_list
        /\ \A j \in DOMAIN poll_list :
             /\ h[j].fd = poll_list[j].fd
             /\ h[j].pollout = poll_list[j].pollout
             /\ h[j].revents = IF j = k THEN {} ELSE poll_list[j].revents
    BY <1>3, HandledFacts
  <2>3. Len(h) = n
    BY <2>1, <2>2
  <2>4. Entry(fd, FALSE, {}) \in PollEntry
    BY DEF Entry, PollEntry, Events
  <2> HIDE DEF h, n
  <2>5. /\ poll_list' \in Seq(PollEntry)
        /\ DOMAIN poll_list' = 1 .. n + 1
        /\ \A j \in 1 .. n : poll_list'[j] = h[j]
        /\ poll_list'[n + 1] = Entry(fd, FALSE, {})
    <3>1. poll_list' = Append(h, Entry(fd, FALSE, {}))
      BY <1>6 DEF h
    <3>2. /\ Append(h, Entry(fd, FALSE, {})) \in Seq(PollEntry)
          /\ DOMAIN Append(h, Entry(fd, FALSE, {})) = 1 .. Len(h) + 1
          /\ \A j \in 1 .. Len(h) : Append(h, Entry(fd, FALSE, {}))[j] = h[j]
          /\ Append(h, Entry(fd, FALSE, {}))[Len(h) + 1] = Entry(fd, FALSE, {})
      BY <2>2, <2>4, AppendFacts, ZenonT(40)
    <3>3. QED
      BY <2>3, <3>1, <3>2, Zenon
  <2>51. /\ n + 1 \in 1 .. n + 1
         /\ \A i \in 1 .. n : i \in 1 .. n + 1
         /\ \A i \in 1 .. n + 1 : i \in 1 .. n \/ i = n + 1
    BY <2>1
  <2>52. \A j \in 1 .. n :
           /\ poll_list'[j].fd = poll_list[j].fd
           /\ poll_list'[j].pollout = poll_list[j].pollout
           /\ poll_list'[j].revents = IF j = k THEN {} ELSE poll_list[j].revents
    BY <2>1, <2>2, <2>5, ZenonT(40)
  <2>6. Head(backlog) \in Conn /\ Tail(backlog) \in Seq(Conn)
    BY <1>3, <2>1
  <2>7. [conn |-> Head(backlog), out |-> << >>] \in Client
    BY <2>6 DEF Client
  <2>8. TypeOK'
    BY <1>2, <1>6, <2>5, <2>6, <2>7, Zenon DEF TypeOK, clientSide
  <2>9. Connected' = Connected \cup {fd} /\ \A g \in Connected : clients'[g] = clients[g]
    <3>1. clients \in [Fd -> Client \cup {None}]
      BY Zenon DEF TypeOK
    <3>2. QED
      BY <1>6, <2>7, NoneAssumption, <3>1 DEF Connected
  <2>10. clients'[fd].out = << >>
    BY <1>6, Zenon DEF TypeOK
  <2>11. /\ poll_list'[n + 1].fd = fd
         /\ poll_list'[n + 1].pollout = FALSE
         /\ poll_list'[n + 1].revents = {}
    BY <2>5 DEF Entry
  <2>12. \A j \in 1 .. n : poll_list[j].fd # fd
    BY <2>1 DEF PollListOK
  <2>13. PollListOK'
    <3>1. ASSUME NEW g \in Connected'
          PROVE  \E j \in DOMAIN poll_list' :
                   /\ poll_list'[j].fd = g
                   /\ poll_list'[j].pollout <=> clients'[g].out # << >>
      <4>1. CASE g = fd
        BY <2>5, <2>51, <2>10, <2>11, <4>1, Zenon
      <4>2. CASE g # fd
        <5>1. PICK j \in DOMAIN poll_list : /\ poll_list[j].fd = g
                                            /\ poll_list[j].pollout <=> clients[g].out # << >>
          BY <2>9, <4>2 DEF PollListOK
        <5>2. QED
          BY <2>1, <2>5, <2>51, <2>52, <2>9, <4>2, <5>1, Zenon
      <4>3. QED
        BY <4>1, <4>2, Zenon
    <3>2. \A i, j \in DOMAIN poll_list' :
            poll_list'[i].fd = poll_list'[j].fd /\ poll_list'[i].fd # NoFd => i = j
      <4>1. \A i, j \in 1 .. n :
              poll_list'[i].fd = poll_list'[j].fd /\ poll_list'[i].fd # NoFd => i = j
        BY <2>1, <2>52 DEF PollListOK
      <4>2. \A i \in 1 .. n : poll_list'[i].fd # fd
        BY <2>52, <2>12
      <4>3. QED
        BY <2>5, <2>51, <2>11, <4>1, <4>2, ZenonT(40)
    <3>3. \A j \in DOMAIN poll_list' : poll_list'[j].fd \in Fd => poll_list'[j].fd \in Connected'
      <4>1. \A j \in 1 .. n : poll_list'[j].fd \in Fd => poll_list'[j].fd \in Connected
        BY <2>1, <2>52, Zenon DEF PollListOK
      <4>2. QED
        BY <2>5, <2>51, <2>9, <2>11, <4>1, Zenon
    <3>4. QED
      BY <3>1, <3>2, <3>3, Zenon DEF PollListOK
  <2>14. EventsStillHold'
    <3>1. ASSUME NEW j \in 1 .. n + 1, poll_list'[j].revents # {}
          PROVE  /\ j \in Ready /\ j # k
                 /\ poll_list'[j].fd = poll_list[j].fd
                 /\ poll_list'[j].pollout = poll_list[j].pollout
                 /\ poll_list'[j].revents = poll_list[j].revents
      BY <2>1, <2>51, <2>52, <2>11, <3>1, Zenon DEF Ready
    <3>2. \A j \in Ready : j # k => poll_list[j].fd # ListenFd
      BY <1>1, ServerAssumption, Zenon DEF PollListOK, Ready
    <3>3. \A j \in Ready' : /\ j \in Ready /\ j # k
                            /\ poll_list'[j].fd = poll_list[j].fd
                            /\ poll_list'[j].pollout = poll_list[j].pollout
                            /\ poll_list'[j].revents = poll_list[j].revents
      BY <2>5, <3>1 DEF Ready
    <3>4. pc' = "dispatch" /\ cpipe' = cpipe
      BY <1>2, <1>6
    <3>5. QED
      BY <1>2, <3>2, <3>3, <3>4 DEF EventsStillHold
  <2>15. QED
    BY <1>4, <2>8, <2>13, <2>14, Zenon DEF IInv
<1>7. QED
  BY <1>1, <1>5, <1>6, Zenon

\* Taking a byte from the pipe is safe because the wait3 loop follows.
LEMMA ChildEventKeeps == ASSUME IInv, child_event PROVE IInv'
<1> TypeOK /\ ProcessesAreChildren /\ NoLostChild /\ PollListOK /\ EventsStillHold
  BY DEF IInv
<1>1. PICK k \in Ready : /\ IsNext(k)
                         /\ poll_list[k].fd = PipeFd
                         /\ poll_list' = Handled(k)
  BY DEF child_event
<1>2. /\ pc = "dispatch" /\ pc' = "reap" /\ cpipe' = cpipe - 1
      /\ UNCHANGED <<parallel, clients, processes, queue, cur, lines,
                     backlog, socket, children, sigchld, clientSide>>
  BY DEF child_event
<1>3. k \in DOMAIN poll_list /\ cpipe > 0 /\ poll_list \in Seq(PollEntry)
  BY <1>1, Zenon DEF EventsStillHold, Ready, TypeOK
<1>4. /\ poll_list' \in Seq(PollEntry)
      /\ DOMAIN poll_list' = DOMAIN poll_list
      /\ \A j \in DOMAIN poll_list :
           /\ poll_list'[j].fd = poll_list[j].fd
           /\ poll_list'[j].pollout = poll_list[j].pollout
           /\ poll_list'[j].revents = IF j = k THEN {} ELSE poll_list[j].revents
  <2>1. /\ Handled(k) \in Seq(PollEntry)
        /\ DOMAIN Handled(k) = DOMAIN poll_list
        /\ \A j \in DOMAIN poll_list :
             /\ Handled(k)[j].fd = poll_list[j].fd
             /\ Handled(k)[j].pollout = poll_list[j].pollout
             /\ Handled(k)[j].revents = IF j = k THEN {} ELSE poll_list[j].revents
    BY <1>3, HandledFacts
  <2>2. QED
    BY <1>1, <2>1
<1>5. cpipe - 1 \in 0 .. PipeCap
  <2>1. cpipe \in 0 .. PipeCap
    BY Zenon DEF TypeOK
  <2>2. QED
    BY <1>3, ServerAssumption, <2>1
<1>6. TypeOK'
  BY <1>2, <1>4, <1>5, Zenon DEF TypeOK, clientSide
<1>7. ProcessesAreChildren' /\ NoLostChild'
  BY <1>2 DEF ProcessesAreChildren, NoLostChild
<1>8. PollListOK'
  BY <1>2, <1>4 DEF PollListOK, Connected
<1>9. EventsStillHold'
  <2>1. \A j \in Ready' : j \in Ready /\ j # k
    BY <1>4 DEF Ready
  <2>2. \A j \in Ready : j # k => poll_list[j].fd # PipeFd
    BY <1>1, ServerAssumption DEF PollListOK, Ready
  <2>3. QED
    BY <1>2, <1>4, <2>1, <2>2 DEF EventsStillHold, Ready
<1>10. QED
  BY <1>6, <1>7, <1>8, <1>9, Zenon DEF IInv

\* The wait3 loop ends only when no terminated child is left.
LEMMA ReapDoneKeeps == ASSUME IInv, ReapDone PROVE IInv'
<1> TypeOK /\ ProcessesAreChildren /\ NoLostChild /\ PollListOK /\ EventsStillHold
  BY DEF IInv
<1>1. /\ pc = "reap" /\ pc' = "dispatch" /\ \A p \in Pid : children[p] \notin Zombie
      /\ UNCHANGED <<parallel, clients, poll_list, processes, queue, cur, lines,
                     kernel, clientSide>>
  BY DEF ReapDone
<1>2. TypeOK'
  BY <1>1, Zenon DEF TypeOK, kernel, clientSide
<1>3. ProcessesAreChildren' /\ NoLostChild' /\ PollListOK'
  BY <1>1 DEF ProcessesAreChildren, NoLostChild, PollListOK, Connected, kernel
<1>4. EventsStillHold'
  BY <1>1 DEF EventsStillHold, Ready, kernel
<1>5. QED
  BY <1>2, <1>3, <1>4, Zenon DEF IInv

\* Leaving handle_msg preserves the invariant.
LEMMA EndOfLinesKeeps == ASSUME IInv, EndOfLines PROVE IInv'
<1> TypeOK /\ ProcessesAreChildren /\ NoLostChild /\ PollListOK /\ EventsStillHold
  BY DEF IInv
<1>1. /\ pc = "lines" /\ pc' = "dispatch" /\ cur' = NoFd
      /\ UNCHANGED <<parallel, clients, poll_list, processes, queue, lines, kernel, clientSide>>
  BY DEF EndOfLines
<1>2. TypeOK'
  BY <1>1, Zenon DEF TypeOK, kernel, clientSide
<1>3. ProcessesAreChildren' /\ NoLostChild' /\ PollListOK'
  BY <1>1 DEF ProcessesAreChildren, NoLostChild, PollListOK, Connected, kernel
<1>4. EventsStillHold'
  BY <1>1 DEF EventsStillHold, Ready, kernel
<1>5. QED
  BY <1>2, <1>3, <1>4 DEF IInv

\* A prover that ends leaves SIGCHLD pending.
LEMMA ExitKeeps == ASSUME IInv, NEW pid \in Pid, Exit(pid) PROVE IInv'
<1> TypeOK /\ ProcessesAreChildren /\ NoLostChild /\ PollListOK /\ EventsStillHold
  BY DEF IInv
<1>1. PICK cause \in ExitCauses \cup {"kill"} : children' = [children EXCEPT ![pid] = cause]
  BY Zenon DEF Exit
<1>2. /\ children[pid] \in Alive /\ sigchld' = TRUE
      /\ UNCHANGED <<server, backlog, socket, cpipe, clientSide>>
  BY DEF Exit
<1>3. cause \in Zombie /\ cause # "none" /\ children[pid] # "none"
  BY <1>2, ServerAssumption DEF Zombie, Signals, Alive
<1>4. children' \in [Pid -> {"none"} \cup Alive \cup Zombie] /\ sigchld' \in BOOLEAN
  BY <1>1, <1>2, <1>3, Zenon DEF TypeOK
<1>5. TypeOK'
  BY <1>2, <1>4, Zenon DEF TypeOK, server, clientSide
<1>6. ProcessesAreChildren'
  BY <1>1, <1>2, <1>3, Zenon DEF ProcessesAreChildren, TypeOK, server
<1>7. NoLostChild'
  BY <1>2 DEF NoLostChild
<1>8. PollListOK' /\ EventsStillHold'
  BY <1>2, Zenon DEF PollListOK, EventsStillHold, Ready, Connected, server
<1>9. QED
  BY <1>5, <1>6, <1>7, <1>8, Zenon DEF IInv

\* The handler turns a pending signal into a byte, or finds the pipe full.
LEMMA SigchldKeeps == ASSUME IInv, sigchld_handle PROVE IInv'
<1> TypeOK /\ ProcessesAreChildren /\ NoLostChild /\ PollListOK /\ EventsStillHold
  BY DEF IInv
<1>1. /\ sigchld /\ sigchld' = FALSE
      /\ cpipe' = IF cpipe < PipeCap THEN cpipe + 1 ELSE cpipe
      /\ UNCHANGED <<server, backlog, socket, children, clientSide>>
  BY DEF sigchld_handle
<1>2. /\ (IF cpipe < PipeCap THEN cpipe + 1 ELSE cpipe) \in 0 .. PipeCap
      /\ (IF cpipe < PipeCap THEN cpipe + 1 ELSE cpipe) > 0
  <2>1. cpipe \in 0 .. PipeCap
    BY Zenon DEF TypeOK
  <2>2. QED
    BY ServerAssumption, <2>1
<1>3. sigchld' \in BOOLEAN
  BY <1>1, Zenon
<1>4. TypeOK'
  BY <1>1, <1>2, <1>3, Zenon DEF TypeOK, server, clientSide
<1>5. ProcessesAreChildren' /\ NoLostChild'
  BY <1>1, <1>2 DEF ProcessesAreChildren, NoLostChild, server
<1>6. PollListOK' /\ EventsStillHold'
  BY <1>1, <1>2, Zenon DEF PollListOK, EventsStillHold, Ready, Connected, server
<1>7. QED
  BY <1>4, <1>5, <1>6 DEF IInv

\* What clients do does not invalidate an event poll has reported.
LEMMA ClientStepKeeps == ASSUME IInv, NEW c \in Conn,
                                Connect(c) \/ SendRun(c) \/ SendInterrupt(c)
                                  \/ SendParallel(c) \/ Disconnect(c)
                         PROVE  IInv'
<1> TypeOK /\ ProcessesAreChildren /\ NoLostChild /\ PollListOK /\ EventsStillHold
  BY DEF IInv
<1>1. UNCHANGED <<server, children, sigchld, cpipe, delivered, cancelled>>
  BY Zenon DEF Connect, SendRun, SendInterrupt, SendParallel, Disconnect, Send, kernel
<1>2. backlog \in Seq(Conn) /\ backlog' \in Seq(Conn) /\ (backlog # << >> => backlog' # << >>)
  <2>1. backlog' = backlog \/ backlog' = Append(backlog, c)
    BY Zenon DEF Connect, SendRun, SendInterrupt, SendParallel, Disconnect, Send, kernel
  <2>2. backlog \in Seq(Conn)
    BY Zenon DEF TypeOK
  <2>3. /\ Append(backlog, c) \in Seq(Conn)
        /\ Append(backlog, c) # << >>
    <3>1. Append(backlog, c) \in Seq(Conn)
      BY <2>2
    <3>2. Len(backlog) \in Nat /\ Len(Append(backlog, c)) = Len(backlog) + 1 /\ Len(<< >>) = 0
      BY <2>2
    <3>3. QED
      BY <3>1, <3>2
  <2>4. QED
    BY <2>1, <2>2, <2>3, Zenon
<1>3. status' \in [Conn -> {"new", "open", "closed", "reset"}]
  BY ZenonT(40) DEF TypeOK, Connect, SendRun, SendInterrupt, SendParallel, Disconnect, Send
<1>4. socket' \in [Conn -> Seq(Line)]
  <2>1. socket' = socket \/ \E cmd \in {"run", "interrupt", "parallel"}, arg \in Nat :
                              socket' = [socket EXCEPT ![c] =
                                           Append(@, [cmd |-> cmd, arg |-> arg])]
    <3>1. asked[c].run + 1 \in Nat /\ \A id \in 1 .. asked[c].run : id \in Nat
      <4>1. asked[c].run \in Nat
        BY Zenon DEF TypeOK
      <4>2. QED
        BY <4>1
    <3>2. QED
      BY <3>1, ServerAssumption, Zenon
         DEF Connect, SendRun, SendInterrupt, SendParallel, Disconnect, Send, kernel
  <2>2. socket \in [Conn -> Seq(Line)] /\ socket[c] \in Seq(Line)
    BY Zenon DEF TypeOK
  <2>3. ASSUME NEW cmd \in {"run", "interrupt", "parallel"}, NEW arg \in Nat
        PROVE  Append(socket[c], [cmd |-> cmd, arg |-> arg]) \in Seq(Line)
    <3>1. [cmd |-> cmd, arg |-> arg] \in Line
      BY DEF Line
    <3>2. QED
      BY <2>2, <3>1
  <2>4. QED
    BY <2>1, <2>2, <2>3, Zenon
<1>5. asked' \in [Conn -> [run : Nat, interrupt : SUBSET Nat, parallel : Nat]]
  <2>1. \/ asked' = asked
        \/ asked' = [asked EXCEPT ![c].run = @ + 1]
        \/ \E id \in 1 .. asked[c].run : asked' = [asked EXCEPT ![c].interrupt = @ \cup {id}]
        \/ asked' = [asked EXCEPT ![c].parallel = @ + 1]
    BY Zenon DEF Connect, SendRun, SendInterrupt, SendParallel, Disconnect, Send
  <2>2. /\ asked \in [Conn -> [run : Nat, interrupt : SUBSET Nat, parallel : Nat]]
        /\ asked[c] \in [run : Nat, interrupt : SUBSET Nat, parallel : Nat]
    BY Zenon DEF TypeOK
  <2>3. \A id \in 1 .. asked[c].run : id \in Nat
    BY <2>2
  <2>4. QED
    BY <2>1, <2>2, <2>3
<1>6. TypeOK'
  BY <1>1, <1>2, <1>3, <1>4, <1>5, ZenonT(40) DEF TypeOK, server
<1>7. ProcessesAreChildren' /\ NoLostChild' /\ PollListOK'
  BY <1>1, Zenon DEF ProcessesAreChildren, NoLostChild, PollListOK, Connected, server
<1>8. EventsStillHold'
  BY <1>1, <1>2, Zenon DEF EventsStillHold, Ready, Connected, server
<1>9. QED
  BY <1>6, <1>7, <1>8 DEF IInv
=============================================================================
