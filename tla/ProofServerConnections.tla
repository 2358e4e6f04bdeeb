----------------------- MODULE ProofServerConnections -----------------------
(***************************************************************************)
(* Every step keeps ConnInv of ProofServerInvariant: whose client a        *)
(* descriptor is.                                                          *)
(***************************************************************************)
EXTENDS ProofServerInvariant

\* What a step must respect that neither connects nor accepts a client.
LEMMA ConnKept ==
  ASSUME IInv, IInv', ConnInv, backlog' = backlog,
         \A c \in Conn : status'[c] # status[c] => status[c] # "new" /\ status'[c] \notin {"new", "open"},
         \A f \in Connected' : f \in Connected /\ clients'[f].conn = clients[f].conn,
         \A f \in Connected : status[clients[f].conn] = "open" => f \in Connected',
         \A k \in DOMAIN queue' : \/ \E j \in DOMAIN queue : queue'[k] = queue[j]
                                  \/ Owned(queue'[k].owner, queue'[k].key),
         \A p \in Running' : \/ p \in Running /\ processes'[p] = processes[p]
                             \/ Owned(processes'[p].owner, processes'[p].client_key),
         \A k \in Ready' : \/ \E j \in Ready : /\ poll_list'[k].fd = poll_list[j].fd
                                               /\ poll_list'[k].revents = poll_list[j].revents
                           \/ "ERR" \notin poll_list'[k].revents
                           \/ status[clients[poll_list'[k].fd].conn] # "open",
         lines' # << >> => pc' \in {"lines", "down"} /\ cur' \in Connected'
  PROVE  ConnInv'
<1> TypeOK
  BY DEF IInv
<1> Owners /\ BacklogOK /\ ErrorsOfGone /\ LinesOfClient
  BY DEF ConnInv
<1>1. \A c \in Conn : \A fd : Owned(c, fd) =>
        /\ status'[c] # "new" /\ \A k \in DOMAIN backlog' : backlog'[k] # c
        /\ \A f \in Connected' : clients'[f].conn = c => f = fd
  BY DEF Owned, Accepted
<1>2. Named /\ Named'
  <2>1. (IInv => Named)'
    BY NamedConns, PTL
  <2>2. QED
    BY <2>1, NamedConns
<1>3. (\A f \in Connected : Owned(clients[f].conn, f))'
  BY <1>1, <1>2 DEF Named, Owners, Owned, Accepted
<1>4. /\ \A k \in DOMAIN queue' : Owned(queue'[k].owner, queue'[k].key)
      /\ \A p \in Running' : Owned(processes'[p].owner, processes'[p].client_key)
  BY DEF Owners
<1>5. /\ (\A k \in DOMAIN queue : Owned(queue[k].owner, queue[k].key))'
      /\ (\A p \in Running : Owned(processes[p].owner, processes[p].client_key))'
  BY <1>1, <1>2, <1>4 DEF Named, Owned, Accepted
<1>6. (\A c \in Conn : status[c] = "open" =>
          Reached(c) \/ \E k \in DOMAIN backlog : backlog[k] = c)'
  BY <1>2 DEF Named, BacklogOK, Reached
<1>7. /\ (\A j, k \in DOMAIN backlog : backlog[j] = backlog[k] => j = k)'
      /\ (\A k \in DOMAIN backlog : status[backlog[k]] # "new")'
  <2>1. \A k \in DOMAIN backlog : backlog[k] \in Conn
    <3>1. backlog \in Seq(Conn)
      BY Zenon DEF TypeOK
    <3>2. QED
      BY <3>1
  <2>2. QED
    BY <2>1 DEF BacklogOK
<1>8. \A k \in Ready' : poll_list'[k].fd \in Connected' /\ "ERR" \in poll_list'[k].revents
                            => status[clients[poll_list'[k].fd].conn] # "open"
  BY DEF ErrorsOfGone
<1>9. (\A k \in Ready :
         poll_list[k].fd \in Connected /\ "ERR" \in poll_list[k].revents
           => status[clients[poll_list[k].fd].conn] # "open")'
  BY <1>2, <1>8, Zenon DEF Named
<1>10. QED
  BY <1>3, <1>5, <1>6, <1>7, <1>9, Zenon DEF ConnInv, Owners, BacklogOK, ErrorsOfGone, LinesOfClient

\* Steps that leave the lists of the server and the connections alone keep ConnInv.
LEMMA QuietConn ==
  ASSUME IInv, IInv', ConnInv, UNCHANGED <<clients, processes, queue, backlog>>,
         \A c \in Conn : status'[c] # status[c] => status[c] # "new" /\ status'[c] \notin {"new", "open"},
         \A k \in Ready' : \/ "ERR" \notin poll_list'[k].revents
                           \/ \E j \in Ready : /\ poll_list'[k].fd = poll_list[j].fd
                                               /\ poll_list'[k].revents = poll_list[j].revents
                           \/ status[clients[poll_list'[k].fd].conn] # "open",
         lines' # << >> => lines # << >> /\ pc' = pc /\ cur' = cur
  PROVE  ConnInv'
<1> LinesOfClient
  BY DEF ConnInv
<1>1. Connected' = Connected /\ Running' = Running
  BY DEF Connected, Running
<1>2. lines' # << >> => pc' \in {"lines", "down"} /\ cur' \in Connected'
  BY <1>1 DEF LinesOfClient
<1>3. QED
  BY <1>1, <1>2, ConnKept, Zenon

\* An iteration of schedule_new_jobs keeps ConnInv.
LEMMA ScheduleConn == ASSUME IInv, IInv', ConnInv, schedule_new_jobs PROVE ConnInv'
<1> TypeOK
  BY DEF IInv
<1> Owners /\ LinesOfClient
  BY DEF ConnInv
<1>1. CASE list_length_processes < parallel /\ queue # << >>
  <2>1. /\ queue' = Tail(queue) /\ run_request(Head(queue)) /\ pc = "schedule"
        /\ UNCHANGED <<cur, lines, backlog, status>>
    BY <1>1 DEF schedule_new_jobs, clientSide
  <2>2. Head(queue) \in Request /\ Head(queue) = queue[1] /\ 1 \in DOMAIN queue
    <3>1. queue \in Seq(Request)
      BY Zenon DEF TypeOK
    <3>2. QED
      BY <1>1, <3>1
  <2>3. \A k \in DOMAIN queue' : k + 1 \in DOMAIN queue /\ queue'[k] = queue[k + 1]
    <3>1. queue \in Seq(Request)
      BY Zenon DEF TypeOK
    <3>2. QED
      BY <1>1, <2>1, <3>1
  <2>4. Owned(Head(queue).owner, Head(queue).key) /\ lines' = << >>
    BY <2>1, <2>2 DEF Owners, LinesOfClient
  <2>5. QED
    BY <2>1, <2>2, <2>3, <2>4, RunRequestFacts, ConnKept, Zenon
<1>2. CASE ~ (list_length_processes < parallel /\ queue # << >>)
  <2>1. UNCHANGED <<clients, poll_list, processes, queue, cur, lines, backlog, status>>
    BY <1>2 DEF schedule_new_jobs, clientSide, kernel
  <2>2. lines' = << >>
    BY <2>1 DEF schedule_new_jobs, LinesOfClient
  <2>3. QED
    BY <2>1, <2>2, QuietConn, Zenon DEF Ready
<1>3. QED
  BY <1>1, <1>2

\* The steps of the poll loop that look at no client keep ConnInv.
LEMMA LoopConn ==
  ASSUME IInv, IInv', ConnInv,
         poll_list_clean \/ poll \/ EndOfRound \/ child_event \/ ReapDone \/ EndOfLines
  PROVE  ConnInv'
<1> TypeOK /\ EventsStillHold
  BY DEF IInv
<1> LinesOfClient
  BY DEF ConnInv
<1>1. CASE EndOfRound \/ ReapDone \/ EndOfLines
  <2>1. UNCHANGED <<clients, processes, queue, backlog, status, poll_list, lines>>
    BY <1>1, Zenon DEF EndOfRound, ReapDone, EndOfLines, kernel, clientSide
  <2>2. lines' = << >> \/ (lines' = lines /\ pc \in {"dispatch", "reap"})
    BY <1>1, Zenon DEF EndOfRound, ReapDone, EndOfLines
  <2>3. lines' = << >>
    BY <2>1, <2>2 DEF LinesOfClient
  <2>4. QED
    BY <2>1, <2>3, QuietConn, Zenon DEF Ready
<1>2. CASE child_event
  <2>1. /\ UNCHANGED <<clients, processes, queue, backlog, status, lines>>
        /\ pc = "dispatch"
    BY <1>2 DEF child_event, clientSide
  <2>2. PICK k \in Ready : poll_list' = Handled(k)
    BY <1>2 DEF child_event
  <2>3. \A j \in Ready' : j \in Ready /\ poll_list'[j].fd = poll_list[j].fd
                          /\ poll_list'[j].revents = poll_list[j].revents
    BY <2>2, HandledReady DEF Ready
  <2>4. lines' = << >>
    BY <2>1 DEF LinesOfClient
  <2>5. QED
    BY <2>1, <2>3, <2>4, QuietConn, Zenon
<1>3. CASE poll_list_clean
  <2>1. /\ UNCHANGED <<clients, processes, queue, backlog, status, lines>>
        /\ pc = "clean" /\ pc' \in {"clean", "poll"}
    BY <1>3 DEF poll_list_clean, kernel, clientSide
  <2>2. Ready' = {} /\ lines' = << >>
    <3>1. EventsStillHold'
      BY DEF IInv
    <3>2. QED
      BY <2>1, <3>1 DEF EventsStillHold, LinesOfClient
  <2>3. QED
    BY <2>1, <2>2, QuietConn, Zenon
<1>4. CASE poll
  <2>1. /\ UNCHANGED <<clients, processes, queue, backlog, status, lines>>
        /\ pc = "poll"
        /\ poll_list' = [k \in DOMAIN poll_list |->
                     [poll_list[k] EXCEPT !.revents = PollEvents(poll_list[k])]]
    BY <1>4 DEF poll, kernel, clientSide
  <2>2. \A k \in DOMAIN poll_list : poll_list[k] \in PollEntry
    <3>1. poll_list \in Seq(PollEntry)
      BY Zenon DEF TypeOK
    <3>2. QED
      BY <3>1
  <2>3. \A k \in Ready' : /\ k \in DOMAIN poll_list
                          /\ poll_list'[k].fd = poll_list[k].fd
                          /\ poll_list'[k].revents = PollEvents(poll_list[k])
    BY <2>1, <2>2 DEF Ready, PollEntry
  <2>4. \A e : "ERR" \in PollEvents(e) => status[clients[e.fd].conn] # "open"
    BY DEF PollEvents, ClientEvents
  <2>5. lines' = << >>
    BY <2>1 DEF LinesOfClient
  <2>6. QED
    BY <2>1, <2>3, <2>4, <2>5, QuietConn
<1>5. QED
  BY <1>1, <1>2, <1>3, <1>4, Zenon

\* Reaping a child keeps ConnInv.
LEMMA ReapConn == ASSUME IInv, IInv', ConnInv, NEW pid \in Pid, Reap(pid) PROVE ConnInv'
<1> TypeOK /\ ProcessesAreChildren
  BY DEF IInv
<1> LinesOfClient
  BY DEF ConnInv
<1> DEFINE proc == processes[pid]
           fd == proc.client_key
<1>1. /\ pc = "reap" /\ children[pid] \in Zombie
      /\ processes' = [processes EXCEPT ![pid] = None]
      /\ IF clients[fd] # None
           THEN queue_write(poll_list, fd, Finished(proc, children[pid]))
           ELSE UNCHANGED <<clients, poll_list>>
      /\ UNCHANGED <<queue, backlog, status, lines>>
  BY DEF Reap, clientSide
<1>2. \A p \in Running' : p \in Running /\ processes'[p] = processes[p]
  BY <1>1, Zenon DEF TypeOK, Running
<1>3. lines' = << >>
  BY <1>1 DEF LinesOfClient
<1>4. /\ Connected' = Connected
      /\ \A f \in Connected : clients'[f].conn = clients[f].conn
      /\ Ready' = Ready
      /\ \A k \in Ready : /\ poll_list'[k].fd = poll_list[k].fd
                          /\ poll_list'[k].revents = poll_list[k].revents
  <2>1. CASE clients[fd] = None
    BY <1>1, <2>1 DEF Connected, Ready
  <2>2. CASE clients[fd] # None
    <3>1. processes[pid] # None
      BY <1>1 DEF ProcessesAreChildren, Zombie, Signals
    <3>2. proc \in Process
      BY <3>1, Zenon DEF TypeOK
    <3>3. fd \in Connected /\ Finished(proc, children[pid]) \in Answer
      BY <1>1, <2>2, <3>2, FinishedAnswer, Zenon DEF Connected, Process
    <3>4. QED
      BY <1>1, <2>2, <3>3, WriteFacts, Zenon
  <2>3. QED
    BY <2>1, <2>2
<1>5. QED
  BY <1>1, <1>2, <1>3, <1>4, ConnKept, Zenon

\* Closing a client that is gone keeps ConnInv.
LEMMA CloseConn ==
  ASSUME IInv, IInv', ConnInv, NEW k \in Ready, poll_list[k].fd \in Connected,
         close_client(k, poll_list[k].fd), pc = "dispatch",
         status[clients[poll_list[k].fd].conn] # "open",
         UNCHANGED <<processes, queue, lines, backlog, status>>
  PROVE  ConnInv'
<1> TypeOK
  BY DEF IInv
<1> LinesOfClient
  BY DEF ConnInv
<1> DEFINE fd == poll_list[k].fd
<1>1. /\ clients' = [clients EXCEPT ![fd] = None]
      /\ poll_list' = [poll_list EXCEPT ![k] = Entry(NoFd, poll_list[k].pollout, {})]
  BY DEF close_client
<1>2. \A f \in Connected' : f \in Connected /\ f # fd /\ clients'[f] = clients[f]
  BY <1>1, Zenon DEF Connected, TypeOK
<1>3. \A f \in Connected : f # fd => f \in Connected'
  BY <1>1, Zenon DEF Connected, TypeOK
<1>4. \A j \in Ready' : j \in Ready /\ poll_list'[j] = poll_list[j]
  BY <1>1, Zenon DEF Ready, Entry, TypeOK
<1>5. lines' = << >>
  BY DEF LinesOfClient
<1>6. Running' = Running
  BY DEF Running
<1>7. QED
  BY <1>2, <1>3, <1>4, <1>5, <1>6, ConnKept, Zenon

\* POLLERR closes a client that is gone.
LEMMA ErrorConn == ASSUME IInv, IInv', ConnInv, client_error PROVE ConnInv'
<1> ErrorsOfGone
  BY DEF ConnInv
<1>1. PICK k \in Ready : /\ poll_list[k].fd \in Connected /\ "ERR" \in poll_list[k].revents
                         /\ close_client(k, poll_list[k].fd)
  BY DEF client_error
<1>2. /\ pc = "dispatch"
      /\ UNCHANGED <<processes, queue, lines, backlog, status>>
  BY DEF client_error, kernel, clientSide
<1>3. status[clients[poll_list[k].fd].conn] # "open"
  BY <1>1 DEF ErrorsOfGone
<1>4. QED
  BY <1>1, <1>2, <1>3, CloseConn, Zenon

\* Writing an answer keeps ConnInv.
LEMMA WriteConn == ASSUME IInv, IInv', ConnInv, write_to_client PROVE ConnInv'
<1> TypeOK
  BY DEF IInv
<1> LinesOfClient
  BY DEF ConnInv
<1>1. UNCHANGED <<processes, queue, backlog, status, lines>> /\ pc = "dispatch"
  BY Zenon DEF write_to_client, kernel
<1>2. lines' = << >>
  BY <1>1 DEF LinesOfClient
<1>3. CASE pc' = "killed" /\ UNCHANGED <<delivered, clients, poll_list>>
  BY <1>1, <1>2, <1>3, QuietConn, Zenon DEF Ready
<1>4. ASSUME NEW fd \in Connected, NEW k \in Ready, clients[fd].out # << >>,
             clients' = [clients EXCEPT ![fd].out = Tail(@)],
             poll_list' = [Handled(k) EXCEPT ![k].pollout = ~ AllWritten(clients[fd].out)]
      PROVE  ConnInv'
  <2> DEFINE b == ~ AllWritten(clients[fd].out)
  <2>1. fd \in Fd /\ clients[fd] \in Client /\ clients \in [Fd -> Client \cup {None}]
    BY Zenon DEF TypeOK, Connected
  <2>2. [clients[fd] EXCEPT !.out = Tail(@)] \in Client
    <3>1. Tail(clients[fd].out) \in Seq(Answer)
      BY <1>4, <2>1 DEF Client
    <3>2. QED
      BY <2>1, <3>1, Zenon DEF Client
  <2>3. Connected' = Connected /\ \A f \in Connected : clients'[f].conn = clients[f].conn
    BY <1>4, <2>1, <2>2, NoneAssumption, Zenon DEF Connected, Client
  <2>4. \A j \in Ready' : /\ j \in Ready
                          /\ poll_list'[j].fd = poll_list[j].fd
                          /\ poll_list'[j].revents = poll_list[j].revents
    <3>1. /\ k \in DOMAIN poll_list
          /\ Handled(k) \in Seq(PollEntry) /\ DOMAIN Handled(k) = DOMAIN poll_list
          /\ \A j \in DOMAIN poll_list :
               /\ Handled(k)[j].fd = poll_list[j].fd
               /\ Handled(k)[j].revents = IF j = k THEN {} ELSE poll_list[j].revents
      BY HandledFacts DEF Ready
    <3>2. /\ DOMAIN poll_list' = DOMAIN poll_list
          /\ \A j \in DOMAIN poll_list :
               poll_list'[j] = IF j = k THEN [Handled(k)[k] EXCEPT !.pollout = b] ELSE Handled(k)[j]
      BY <1>4, <3>1
    <3>3. /\ [Handled(k)[k] EXCEPT !.pollout = b].fd = Handled(k)[k].fd
          /\ [Handled(k)[k] EXCEPT !.pollout = b].revents = Handled(k)[k].revents
      BY <3>1 DEF PollEntry
    <3>4. QED
      BY <3>1, <3>2, <3>3, Zenon DEF Ready
  <2>5. Running' = Running
    BY <1>1 DEF Running
  <2>6. QED
    BY <1>1, <1>2, <2>3, <2>4, <2>5, ConnKept
<1>5. QED
  BY <1>3, <1>4, WrittenFacts, Zenon

\* Reading from a client keeps ConnInv: only one that is gone is closed.
LEMMA ReadConn == ASSUME IInv, IInv', ConnInv, read_on_client PROVE ConnInv'
<1> TypeOK
  BY DEF IInv
<1> DEFINE fd(k) == poll_list[k].fd
           c(k) == clients[fd(k)].conn
<1>1. /\ pc = "dispatch"
      /\ UNCHANGED <<processes, queue, backlog>>
  BY Zenon DEF read_on_client
<1>2. PICK k \in Ready :
        /\ fd(k) \in Connected
        /\ \/ /\ poll_list' = Handled(k) /\ pc' = "lines" /\ cur' = fd(k)
              /\ UNCHANGED <<clients, status>>
           \/ /\ status[c(k)] = "closed" /\ close_client(k, fd(k))
              /\ UNCHANGED <<lines, cur, status>>
           \/ /\ status[c(k)] = "reset"
              /\ status' = [status EXCEPT ![c(k)] = "closed"]
              /\ poll_list' = Handled(k)
              /\ UNCHANGED <<lines, cur, clients, pc>>
  BY Zenon DEF read_on_client
<1>3. k \in DOMAIN poll_list
  BY DEF Ready
<1>4. Running' = Running
  BY <1>1 DEF Running
<1>5. CASE /\ poll_list' = Handled(k) /\ pc' = "lines" /\ cur' = fd(k)
           /\ UNCHANGED <<clients, status>>
  <2>1. \A j \in Ready' : j \in Ready /\ poll_list'[j].fd = poll_list[j].fd
                          /\ poll_list'[j].revents = poll_list[j].revents
    BY <1>3, <1>5, HandledReady, Zenon
  <2>2. Connected' = Connected
    BY <1>5 DEF Connected
  <2>3. QED
    BY <1>1, <1>2, <1>4, <1>5, <2>1, <2>2, ConnKept, Zenon
<1>6. CASE status[c(k)] = "closed" /\ close_client(k, fd(k)) /\ UNCHANGED <<lines, cur, status>>
  BY <1>1, <1>2, <1>6, CloseConn, Zenon
<1>7. CASE /\ status[c(k)] = "reset" /\ status' = [status EXCEPT ![c(k)] = "closed"]
           /\ poll_list' = Handled(k)
           /\ UNCHANGED <<lines, cur, clients, pc>>
  <2>1. \A j \in Ready' : j \in Ready /\ poll_list'[j].fd = poll_list[j].fd
                          /\ poll_list'[j].revents = poll_list[j].revents
    BY <1>3, <1>7, HandledReady, Zenon
  <2>2. \A d \in Conn : status'[d] # status[d]
                          => status[d] # "new" /\ status'[d] \notin {"new", "open"}
    BY <1>7, Zenon DEF TypeOK
  <2>3. QED
    BY <1>1, <1>7, <2>1, <2>2, QuietConn, Zenon
<1>8. QED
  BY <1>2, <1>5, <1>6, <1>7, Zenon

\* What a request line makes of the queue, the processes and the clients.
LEMMA HandleConn == ASSUME IInv, IInv', ConnInv, handle_msg PROVE ConnInv'
<1> TypeOK
  BY DEF IInv
<1> Owners /\ LinesOfClient
  BY DEF ConnInv
<1> DEFINE l == Head(lines)
           r == [key |-> cur, id |-> l.arg, owner |-> clients[cur].conn]
<1>1. /\ pc = "lines" /\ lines # << >> /\ lines' = Tail(lines)
      /\ \/ l.cmd = "parallel" /\ set_parallel(l.arg)
         \/ l.cmd = "run" /\ handle_run(r)
         \/ l.cmd = "interrupt" /\ handle_interrupt(l.arg)
      /\ UNCHANGED <<cur, backlog, status>>
  BY DEF handle_msg
<1>2. cur \in Connected /\ clients[cur] \in Client /\ l \in Line
  BY <1>1 DEF LinesOfClient, TypeOK, Connected
<1>3. r \in Request
  BY <1>2 DEF Request, Client, Line, Connected
<1>4. Owned(r.owner, r.key)
  BY <1>2 DEF Owners
<1> HIDE DEF r, l
<1>5. CASE set_parallel(l.arg)
  <2>1. UNCHANGED <<processes, clients, poll_list, queue, pc>>
    BY <1>5 DEF set_parallel
  <2>2. QED
    BY <1>1, <2>1, QuietConn, Zenon DEF Ready
<1>6. CASE handle_run(r)
  <2>1. CASE run_request(r) /\ UNCHANGED queue
    BY <1>1, <1>2, <1>3, <1>4, <2>1, RunRequestFacts, ConnKept, Zenon
  <2>2. CASE /\ queue' = Append(queue, r)
             /\ UNCHANGED <<processes, clients, poll_list, pc>>
    <3>1. \A k \in DOMAIN queue' : (k \in DOMAIN queue /\ queue'[k] = queue[k]) \/ queue'[k] = r
      <4>1. queue \in Seq(Request)
        BY Zenon DEF TypeOK
      <4>2. QED
        BY <1>3, <2>2, <4>1
    <3>2. Connected' = Connected /\ Running' = Running /\ Ready' = Ready
      BY <2>2 DEF Connected, Running, Ready
    <3>3. QED
      BY <1>1, <1>2, <1>4, <2>2, <3>1, <3>2, ConnKept, Zenon
  <2>3. QED
    BY <1>6, <2>1, <2>2 DEF handle_run
<1>7. CASE handle_interrupt(l.arg)
  <2>1. /\ remove_from_queue(l.arg)
        /\ UNCHANGED <<processes, clients, poll_list, pc>>
    BY <1>7 DEF handle_interrupt
  <2>2. \A k \in DOMAIN queue' : \E j \in DOMAIN queue : queue'[k] = queue[j]
    BY <2>1 DEF remove_from_queue
  <2>3. Connected' = Connected /\ Running' = Running /\ Ready' = Ready
    BY <2>1 DEF Connected, Running, Ready
  <2>4. QED
    BY <1>1, <1>2, <2>1, <2>2, <2>3, ConnKept, Zenon
<1>8. QED
  BY <1>1, <1>5, <1>6, <1>7, Zenon

\* server_accept_client takes a connection out of the backlog for good.
LEMMA AcceptConn == ASSUME IInv, IInv', ConnInv, server_accept_client PROVE ConnInv'
<1> TypeOK /\ PollListOK /\ EventsStillHold
  BY DEF IInv
<1> Owners /\ BacklogOK /\ ErrorsOfGone /\ LinesOfClient
  BY DEF ConnInv
<1>1. /\ pc = "dispatch"
      /\ UNCHANGED <<processes, queue, lines, status>>
  BY DEF server_accept_client, clientSide
<1>2. PICK k \in Ready :
        /\ poll_list[k].fd = ListenFd
        /\ \/ \E fd \in Fd \ Connected :
                /\ clients' = [clients EXCEPT ![fd] = [conn |-> Head(backlog), out |-> << >>]]
                /\ poll_list' = Append(Handled(k), Entry(fd, FALSE, {}))
                /\ backlog' = Tail(backlog)
           \/ UNCHANGED <<clients, poll_list, backlog>>
  BY Zenon DEF server_accept_client
<1>3. lines' = << >>
  BY <1>1 DEF LinesOfClient
<1>4. CASE UNCHANGED <<clients, poll_list, backlog>>
  BY <1>1, <1>3, <1>4, QuietConn, Zenon DEF Ready
<1>5. ASSUME NEW fd \in Fd \ Connected,
             clients' = [clients EXCEPT ![fd] = [conn |-> Head(backlog), out |-> << >>]],
             poll_list' = Append(Handled(k), Entry(fd, FALSE, {})),
             backlog' = Tail(backlog)
      PROVE  ConnInv'
  <2> DEFINE new == Head(backlog)
  <2>1. /\ backlog \in Seq(Conn) /\ backlog # << >> /\ new = backlog[1] /\ 1 \in DOMAIN backlog
        /\ new \in Conn
    <3>1. backlog \in Seq(Conn)
      BY Zenon DEF TypeOK
    <3>2. QED
      BY <1>2, <3>1 DEF EventsStillHold
  <2>2. /\ \A j \in DOMAIN backlog' : /\ j + 1 \in DOMAIN backlog /\ backlog'[j] = backlog[j + 1]
                                      /\ j \in Nat \ {0}
        /\ \A j \in DOMAIN backlog : j # 1 => j - 1 \in DOMAIN backlog' /\ backlog'[j - 1] = backlog[j]
    BY <1>5, <2>1
  <2>3. status[new] # "new" /\ \A j \in DOMAIN backlog' : backlog'[j] # new
    BY <2>1, <2>2 DEF BacklogOK
  <2>4. \A c \in Conn : Accepted(c) => c # new /\ status'[c] # "new"
                                       /\ \A j \in DOMAIN backlog' : backlog'[j] # c
    BY <1>1, <2>1, <2>2 DEF Accepted
  <2> HIDE DEF new
  <2>5. /\ Connected' = Connected \cup {fd}
        /\ clients'[fd].conn = new
        /\ \A f \in Connected : clients'[f] = clients[f] /\ f # fd
    <3>1. clients \in [Fd -> Client \cup {None}] /\ [conn |-> new, out |-> << >>] \in Client
      BY <2>1 DEF TypeOK, Client
    <3>2. QED
      BY <1>5, <3>1, NoneAssumption, Zenon DEF Connected, new
  <2>6. /\ \A f \in Connected : clients[f].conn \in Conn
        /\ \A j \in DOMAIN queue : queue[j].owner \in Conn
        /\ \A p \in Running : processes[p].owner \in Conn
    BY NamedConns DEF Named
  <2> DEFINE Still(c, g) == /\ status'[c] # "new" /\ \A j \in DOMAIN backlog' : backlog'[j] # c
                            /\ \A f \in Connected' : clients'[f].conn = c => f = g
  <2>7. \A c \in Conn : \A g : Owned(c, g) => c # new /\ Still(c, g)
    BY <2>4, <2>5, Zenon DEF Owned
  <2>8. Still(new, fd)
    <3>1. \A f \in Connected : clients[f].conn # new
      BY <2>6, <2>7, Zenon DEF Owners
    <3>2. QED
      BY <1>1, <2>3, <2>5, <3>1, Zenon
  <2> HIDE DEF Still
  <2>9. (\A f \in Connected : Owned(clients[f].conn, f))'
    <3>1. \A f \in Connected' : Still(clients'[f].conn, f)
      BY <2>5, <2>6, <2>7, <2>8, Zenon DEF Owners
    <3>2. QED
      BY <3>1, Zenon DEF Still, Owned, Accepted
  <2>10. /\ (\A j \in DOMAIN queue : Owned(queue[j].owner, queue[j].key))'
         /\ (\A p \in Running : Owned(processes[p].owner, processes[p].client_key))'
    <3>1. Running' = Running
      BY <1>1 DEF Running
    <3>2. /\ \A j \in DOMAIN queue' : Still(queue'[j].owner, queue'[j].key)
          /\ \A p \in Running' : Still(processes'[p].owner, processes'[p].client_key)
      BY <1>1, <2>6, <2>7, <3>1, Zenon DEF Owners
    <3>3. QED
      BY <3>2, Zenon DEF Still, Owned, Accepted
  <2>11. /\ (\A i, j \in DOMAIN backlog : backlog[i] = backlog[j] => i = j)'
         /\ (\A j \in DOMAIN backlog : status[backlog[j]] # "new")'
    BY <1>1, <2>1, <2>2 DEF BacklogOK
  <2>12. (\A c \in Conn : status[c] = "open" =>
            Reached(c) \/ \E j \in DOMAIN backlog : backlog[j] = c)'
    <3>1. \A c \in Conn : status[c] = "open" =>
            Reached(c) \/ \E j \in DOMAIN backlog : backlog[j] = c
      BY Zenon DEF BacklogOK
    <3>2. \A c \in Conn : Reached(c) \/ c = new => \E f \in Connected' : clients'[f].conn = c
      BY <2>5, Zenon DEF Reached
    <3>3. \A j \in DOMAIN backlog : backlog[j] = new \/ \E i \in DOMAIN backlog' : backlog'[i] = backlog[j]
      BY <2>1, <2>2, Zenon DEF new
    <3>4. ASSUME NEW c \in Conn, status'[c] = "open"
          PROVE  \/ \E f \in Connected' : clients'[f].conn = c
                 \/ \E i \in DOMAIN backlog' : backlog'[i] = c
      <4>1. Reached(c) \/ \E j \in DOMAIN backlog : backlog[j] = c
        BY <1>1, <3>1, <3>4, Zenon
      <4>2. CASE Reached(c)
        BY <3>2, <4>2, Zenon
      <4>3. ASSUME NEW j \in DOMAIN backlog, backlog[j] = c
            PROVE  \/ \E f \in Connected' : clients'[f].conn = c
                   \/ \E i \in DOMAIN backlog' : backlog'[i] = c
        BY <3>2, <3>3, <4>3, Zenon
      <4>4. QED
        BY <4>1, <4>2, <4>3, Zenon
    <3>5. QED
      BY <3>4, Zenon DEF Reached
  <2>13. \A j \in Ready' : /\ j \in Ready
                           /\ poll_list'[j].fd = poll_list[j].fd
                           /\ poll_list'[j].revents = poll_list[j].revents
    <3>1. /\ k \in DOMAIN poll_list
          /\ Handled(k) \in Seq(PollEntry) /\ DOMAIN Handled(k) = DOMAIN poll_list
          /\ \A j \in DOMAIN poll_list :
               /\ Handled(k)[j].fd = poll_list[j].fd
               /\ Handled(k)[j].revents = IF j = k THEN {} ELSE poll_list[j].revents
      BY HandledFacts DEF Ready
    <3>2. Entry(fd, FALSE, {}) \in PollEntry /\ Entry(fd, FALSE, {}).revents = {}
      BY DEF Entry, PollEntry, Events
    <3>3. \A j \in DOMAIN poll_list' : \/ j \in DOMAIN poll_list /\ poll_list'[j] = Handled(k)[j]
                                       \/ poll_list'[j] = Entry(fd, FALSE, {})
      <4> DEFINE h == Handled(k)
                 e == Entry(fd, FALSE, {})
      <4>1. h \in Seq(PollEntry) /\ e \in PollEntry /\ DOMAIN h = DOMAIN poll_list
        BY <3>1, <3>2, Zenon
      <4>2. poll_list' = Append(h, e)
        BY <1>5
      <4> HIDE DEF h, e
      <4>3. \A j \in DOMAIN poll_list' : (j \in DOMAIN h /\ poll_list'[j] = h[j]) \/ poll_list'[j] = e
        BY <4>1, <4>2
      <4>4. QED
        BY <4>1, <4>3, Zenon DEF h, e
    <3>4. QED
      BY <3>1, <3>2, <3>3, Zenon DEF Ready
  <2>14. (\A j \in Ready :
            poll_list[j].fd \in Connected /\ "ERR" \in poll_list[j].revents
              => status[clients[poll_list[j].fd].conn] # "open")'
    <3>1. \A j \in Ready : poll_list[j].fd # fd
      BY DEF PollListOK, Ready
    <3>2. QED
      BY <1>1, <2>5, <2>13, <3>1 DEF ErrorsOfGone
  <2>15. QED
    BY <1>3, <2>9, <2>10, <2>11, <2>12, <2>14, Zenon DEF ConnInv, Owners, BacklogOK, ErrorsOfGone, LinesOfClient
<1>6. QED
  BY <1>2, <1>4, <1>5, Zenon

\* A client that connects enters the backlog, once.
LEMMA ConnectConn == ASSUME IInv, IInv', ConnInv, NEW c \in Conn, Connect(c) PROVE ConnInv'
<1> TypeOK
  BY DEF IInv
<1> Owners /\ BacklogOK /\ ErrorsOfGone /\ LinesOfClient
  BY DEF ConnInv
<1>1. /\ status[c] = "new" /\ status' = [status EXCEPT ![c] = "open"]
      /\ backlog' = Append(backlog, c)
      /\ UNCHANGED <<clients, poll_list, processes, queue, pc, cur, lines>>
  BY DEF Connect, server
<1>2. /\ \A d \in Conn : status'[d] = IF d = c THEN "open" ELSE status[d]
      /\ backlog \in Seq(Conn)
  BY <1>1, Zenon DEF TypeOK
<1>3. /\ DOMAIN backlog' = 1 .. Len(backlog) + 1 /\ Len(backlog) \in Nat
      /\ DOMAIN backlog = 1 .. Len(backlog)
      /\ backlog'[Len(backlog) + 1] = c
      /\ \A k \in DOMAIN backlog : backlog'[k] = backlog[k]
  BY <1>1, <1>2
<1>4. \A k \in DOMAIN backlog : backlog[k] # c /\ backlog[k] \in Conn
  BY <1>1, <1>2 DEF BacklogOK
<1>5. Connected' = Connected /\ Running' = Running /\ Ready' = Ready
  BY <1>1 DEF Connected, Running, Ready
<1>6. \A d \in Conn : Accepted(d) => /\ status'[d] # "new" /\ status'[d] = status[d]
                                     /\ \A k \in DOMAIN backlog' : backlog'[k] # d
  BY <1>1, <1>2, <1>3 DEF Accepted
<1>7. /\ \A f \in Connected : clients[f].conn \in Conn
      /\ \A j \in DOMAIN queue : queue[j].owner \in Conn
      /\ \A p \in Running : processes[p].owner \in Conn
  BY NamedConns DEF Named
<1> DEFINE Still(d, g) == /\ status'[d] # "new" /\ \A j \in DOMAIN backlog' : backlog'[j] # d
                          /\ \A f \in Connected' : clients'[f].conn = d => f = g
<1>71. \A d \in Conn : \A g : Owned(d, g) => Still(d, g)
  BY <1>1, <1>5, <1>6, Zenon DEF Owned
<1> HIDE DEF Still
<1>8. (\A f \in Connected : Owned(clients[f].conn, f))'
  <2>1. \A f \in Connected' : Still(clients'[f].conn, f)
    BY <1>1, <1>5, <1>7, <1>71, Zenon DEF Owners
  <2>2. QED
    BY <2>1, Zenon DEF Still, Owned, Accepted
<1>9. /\ (\A j \in DOMAIN queue : Owned(queue[j].owner, queue[j].key))'
      /\ (\A p \in Running : Owned(processes[p].owner, processes[p].client_key))'
  <2>1. /\ \A j \in DOMAIN queue' : Still(queue'[j].owner, queue'[j].key)
        /\ \A p \in Running' : Still(processes'[p].owner, processes'[p].client_key)
    BY <1>1, <1>5, <1>7, <1>71, Zenon DEF Owners
  <2>2. QED
    BY <2>1, Zenon DEF Still, Owned, Accepted
<1>10. /\ (\A i, j \in DOMAIN backlog : backlog[i] = backlog[j] => i = j)'
       /\ (\A j \in DOMAIN backlog : status[backlog[j]] # "new")'
  <2>1. /\ \A i, j \in DOMAIN backlog : backlog[i] = backlog[j] => i = j
        /\ \A j \in DOMAIN backlog : status[backlog[j]] # "new"
    BY Zenon DEF BacklogOK
  <2>2. \A k \in DOMAIN backlog' : k \in DOMAIN backlog \/ k = Len(backlog) + 1
    BY <1>3
  <2>3. QED
    BY <1>2, <1>3, <1>4, <2>1, <2>2, Zenon
<1>11. (\A d \in Conn : status[d] = "open" =>
          Reached(d) \/ \E j \in DOMAIN backlog : backlog[j] = d)'
  <2>1. Len(backlog) + 1 \in DOMAIN backlog' /\ \A j \in DOMAIN backlog : j \in DOMAIN backlog'
    BY <1>3
  <2>2. \A d \in Conn : status[d] = "open" =>
          Reached(d) \/ \E j \in DOMAIN backlog : backlog[j] = d
    BY Zenon DEF BacklogOK
  <2>3. \A d \in Conn : Reached(d) => \E f \in Connected' : clients'[f].conn = d
    BY <1>1, <1>5, Zenon DEF Reached
  <2>4. \A d \in Conn : status'[d] = "open" =>
          \/ \E f \in Connected' : clients'[f].conn = d
          \/ \E j \in DOMAIN backlog' : backlog'[j] = d
    BY <1>2, <1>3, <2>1, <2>2, <2>3, Zenon
  <2>5. QED
    BY <2>4, Zenon DEF Reached
<1>12. (\A j \in Ready :
          poll_list[j].fd \in Connected /\ "ERR" \in poll_list[j].revents
            => status[clients[poll_list[j].fd].conn] # "open")'
  <2>1. \A f \in Connected : Accepted(clients[f].conn)
    BY Zenon DEF Owners, Owned
  <2>2. \A f \in Connected : status'[clients[f].conn] = status[clients[f].conn]
    BY <1>6, <1>7, <2>1, Zenon
  <2>3. \A j \in Ready : poll_list[j].fd \in Connected /\ "ERR" \in poll_list[j].revents
          => status'[clients[poll_list[j].fd].conn] # "open"
    BY <2>2, Zenon DEF ErrorsOfGone
  <2>4. QED
    BY <1>1, <1>5, <2>3, Zenon
<1>13. QED
  BY <1>1, <1>5, <1>8, <1>9, <1>10, <1>11, <1>12, Zenon DEF ConnInv, Owners, BacklogOK, ErrorsOfGone, LinesOfClient

\* The kernel, and clients that send or leave, keep ConnInv.
LEMMA OutsideConn ==
  ASSUME IInv, IInv', ConnInv,
         \/ \E pid \in Pid : Exit(pid)
         \/ sigchld_handle
         \/ \E c \in Conn : SendRun(c) \/ SendInterrupt(c) \/ SendParallel(c) \/ Disconnect(c)
  PROVE  ConnInv'
<1> TypeOK
  BY DEF IInv
<1>1. UNCHANGED <<server, backlog>>
  BY Zenon DEF Exit, sigchld_handle, SendRun, SendInterrupt, SendParallel, Disconnect, Send, kernel
<1>2. \/ status' = status
      \/ \E c \in Conn : status[c] = "open" /\ \E x \in {"closed", "reset"} :
                           status' = [status EXCEPT ![c] = x]
  BY Zenon DEF Exit, sigchld_handle, SendRun, SendInterrupt, SendParallel, Disconnect, Send, clientSide
<1>3. \A c \in Conn : status'[c] # status[c] => status[c] # "new" /\ status'[c] \notin {"new", "open"}
  BY <1>2, Zenon DEF TypeOK
<1>4. QED
  BY <1>1, <1>3, QuietConn, Zenon DEF server, Ready

\* The invariant about connections is inductive.
LEMMA NextConn == IInv /\ IInv' /\ ConnInv /\ [Next]_vars => ConnInv'
<1> SUFFICES ASSUME IInv, IInv', ConnInv, [Next]_vars PROVE ConnInv'
  OBVIOUS
<1>1. CASE ServerStep
  BY <1>1, ScheduleConn, LoopConn, AcceptConn, ReapConn, ErrorConn, WriteConn, ReadConn, HandleConn, Zenon
     DEF ServerStep, handle_child_events
<1>2. CASE ClientStep
  BY <1>2, ConnectConn, OutsideConn, Zenon DEF ClientStep
<1>3. CASE (\E pid \in Pid : Exit(pid)) \/ sigchld_handle
  BY <1>3, OutsideConn
<1>4. CASE UNCHANGED vars
  <2>1. /\ UNCHANGED <<clients, poll_list, processes, queue, pc, cur, lines>>
        /\ UNCHANGED <<backlog, status>>
    BY <1>4 DEF vars, server, kernel, clientSide
  <2>2. QED
    BY <2>1, QuietConn DEF Ready
<1>5. QED
  BY <1>1, <1>2, <1>3, <1>4, Zenon DEF Next
=============================================================================
