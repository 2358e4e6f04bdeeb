------------------------- MODULE ProofServerProofs --------------------------
(***************************************************************************)
(* Proofs about ProofServer for every number of clients, descriptors,      *)
(* processes, requests and every -j.  The state is well typed, the process *)
(* list is the set of unreaped children, no terminated child is forgotten, *)
(* the poll list mirrors the clients, and the events of a round stay true  *)
(* until they are handled.  A run request is in one place, answered once   *)
(* and in order, and no slot stays idle while one waits.                   *)
(***************************************************************************)
EXTENDS ProofServerPollProofs, ProofServerClientProofs, ProofServerConnections,
        ProofServerClientRuns, ProofServerJobRuns, FiniteSetTheorems

\* The invariant is inductive.
LEMMA NextIInv == IInv /\ [Next]_vars => IInv'
<1> SUFFICES ASSUME IInv, [Next]_vars PROVE IInv'
  OBVIOUS
<1>1. CASE ServerStep
  BY <1>1, ScheduleKeeps, CleanKeeps, PollKeeps, EndOfRoundKeeps, AcceptKeeps,
     ChildEventKeeps, ReapKeeps, ReapDoneKeeps, ClientErrorKeeps, WriteKeeps, ReadKeeps,
     HandleMsgKeeps, EndOfLinesKeeps, Zenon
     DEF ServerStep, handle_child_events
<1>2. CASE \E pid \in Pid : Exit(pid)
  BY <1>2, ExitKeeps, Zenon
<1>3. CASE sigchld_handle
  BY <1>3, SigchldKeeps, Zenon
<1>4. CASE ClientStep
  BY <1>4, ClientStepKeeps DEF ClientStep
<1>5. CASE UNCHANGED vars
  <2>1. /\ UNCHANGED <<parallel, clients, poll_list, processes, queue, pc, cur, lines>>
        /\ UNCHANGED <<backlog, socket, children, sigchld, cpipe>>
        /\ UNCHANGED <<status, asked, delivered, cancelled>>
    BY <1>5, Zenon DEF vars, server, kernel, clientSide
  <2>2. TypeOK'
    BY <2>1, Zenon DEF IInv, TypeOK
  <2>3. ProcessesAreChildren' /\ NoLostChild'
    BY <2>1, Zenon DEF IInv, ProcessesAreChildren, NoLostChild
  <2>4. PollListOK'
    BY <2>1, Zenon DEF IInv, PollListOK, Connected
  <2>5. EventsStillHold'
    BY <2>1, Zenon DEF IInv, EventsStillHold, Ready, Connected
  <2>6. QED
    BY <2>2, <2>3, <2>4, <2>5, Zenon DEF IInv
<1>6. QED
  BY <1>1, <1>2, <1>3, <1>4, <1>5, Zenon DEF Next

\* The inductive invariant holds in every reachable state.
LEMMA ServerIInv == Spec => []IInv
<1>1. QED
  BY InitIInv, NextIInv, PTL DEF Spec

-----------------------------------------------------------------------------
(***************************************************************************)
(* The connections and the runs.                                           *)
(***************************************************************************)
\* At the start no connection is known.
LEMMA InitConn == Init => ConnInv
<1> SUFFICES ASSUME Init PROVE ConnInv
  OBVIOUS
<1>1. Connected = {} /\ Running = {} /\ Ready = {}
  BY DEF Init, Connected, Running, Ready, Entry
<1>2. queue = << >> /\ backlog = << >> /\ lines = << >> /\ status = [c \in Conn |-> "new"]
  BY DEF Init
<1>3. QED
  BY <1>1, <1>2 DEF ConnInv, Owners, BacklogOK, ErrorsOfGone, LinesOfClient

\* At the start no run is anywhere.
LEMMA InitRuns == Init => RunsInv
<1> SUFFICES ASSUME Init PROVE RunsInv
  OBVIOUS
<1>1. Connected = {} /\ Running = {}
  BY DEF Init, Connected, Running
<1>2. \A c \in Conn : Answers(c) = << >>
  <2>1. \A c \in Conn : delivered[c] = << >> /\ Buffered(c) = << >>
    BY <1>1, Zenon DEF Init, Buffered
  <2>2. QED
    BY <2>1 DEF Answers
<1>3. ASSUME NEW c \in Conn, NEW id \in Nat
      PROVE  /\ Sent(c, id) = {} /\ InLines(c, id) = {} /\ InQueue(c, id) = {}
             /\ Active(c, id) = {} /\ ~ Cancelled(c, id)
             /\ \A kind \in {"S", "F"} : Told(c, id, kind) = {}
  <2>1. socket[c] = << >> /\ lines = << >> /\ queue = << >> /\ cancelled = {} /\ Answers(c) = << >>
    BY <1>2, Zenon DEF Init
  <2>2. \A M : At(<< >>, M) = {}
    BY DEF At
  <2>3. QED
    BY <1>1, <2>1, <2>2, Zenon DEF Sent, InLines, InQueue, Active, Cancelled, Told
<1>4. \A c \in Conn : asked[c].run = 0
  BY DEF Init
<1>5. ASSUME NEW c \in Conn, NEW id \in Nat PROVE RunOK(c, id)
  <2>1. ~ Awaited(c, id)
    BY <1>4 DEF Awaited
  <2>2. QED
    BY <1>3, <2>1, Zenon DEF RunOK, OnePlace, Somewhere, Single
<1>6. QED
  BY <1>4, <1>5, Zenon DEF RunsInv

\* The invariant of the runs is inductive.
LEMMA NextRuns == IInv /\ ConnInv /\ ConnInv' /\ RunsInv /\ [Next]_vars => RunsInv'
<1> SUFFICES ASSUME IInv, ConnInv, ConnInv', RunsInv, [Next]_vars PROVE RunsInv'
  OBVIOUS
<1>1. CASE ServerStep
  BY <1>1, ScheduleRuns, LoopRuns, AcceptRuns, ReapRuns, ErrorRuns, WriteRuns, ReadRuns, HandleRuns, Zenon
     DEF ServerStep, handle_child_events
<1>2. TypeOK
  BY DEF IInv
<1>3. CASE ClientStep
  BY <1>2, <1>3, OutsideRuns, SendRuns, Zenon DEF ClientStep
<1>4. CASE (\E pid \in Pid : Exit(pid)) \/ sigchld_handle
  BY <1>2, <1>4, OutsideRuns, Zenon
<1>5. CASE UNCHANGED vars
  <2>1. /\ UNCHANGED <<clients, delivered, socket, queue, processes, cancelled, asked, lines>>
        /\ UNCHANGED <<cur, pc, status>>
    BY <1>5, Zenon DEF vars, server, kernel, clientSide
  <2>2. QED
    BY <2>1, StillRuns, Zenon DEF Up
<1>6. QED
  BY <1>1, <1>3, <1>4, <1>5, Zenon DEF Next

\* The three invariants together hold in every reachable state.
LEMMA ServerRuns == Spec => [](IInv /\ ConnInv /\ RunsInv)
<1>1. Spec => []ConnInv
  BY InitConn, NextConn, ServerIInv, PTL DEF Spec
<1>2. Spec => []RunsInv
  BY <1>1, InitRuns, NextRuns, ServerIInv, PTL DEF Spec
<1>3. QED
  BY <1>1, <1>2, ServerIInv, PTL

-----------------------------------------------------------------------------
(***************************************************************************)
(* The slots.                                                              *)
(***************************************************************************)
\* From the end of schedule_new_jobs to the end of poll.
SlotsFull ==
  pc \in {"clean", "poll"} /\ queue # << >> => list_length_processes >= parallel

\* schedule_new_jobs stops when the queue is empty or every slot is taken, and nothing
\* that may happen before the events of the next poll are dispatched changes either.
LEMMA NextSlots == TypeOK /\ SlotsFull /\ [Next]_vars => SlotsFull'
<1> SUFFICES ASSUME TypeOK, SlotsFull, [Next]_vars, pc' \in {"clean", "poll"}, queue' # << >>
             PROVE  (list_length_processes >= parallel)'
  BY DEF SlotsFull
<1>1. list_length_processes \in Nat /\ parallel \in Nat
  <2>1. Running \subseteq Pid
    BY DEF Running
  <2>2. IsFiniteSet(Running)
    BY <2>1, FS_Subset, ServerAssumption, Zenon
  <2>3. QED
    BY <2>2, FS_CardinalityType, Zenon DEF list_length_processes, TypeOK
<1>2. CASE schedule_new_jobs
  <2>1. ASSUME NEW r, run_request(r), pc = "schedule" PROVE pc' \in {"schedule", "down"}
    BY <2>1, Zenon DEF run_request
  <2>2. ~ (list_length_processes < parallel /\ queue # << >>)
    BY <1>2, <2>1, Zenon DEF schedule_new_jobs
  <2>3. UNCHANGED <<processes, queue, parallel>>
    BY <1>2, <2>2, Zenon DEF schedule_new_jobs
  <2>4. QED
    BY <1>1, <2>2, <2>3 DEF list_length_processes, Running
<1>3. CASE pc \in {"clean", "poll"} /\ UNCHANGED <<processes, queue, parallel>>
  BY <1>3, Zenon DEF SlotsFull, list_length_processes, Running
<1>4. CASE ServerStep /\ ~ schedule_new_jobs
  <2>1. ~ (server_accept_client \/ child_event \/ handle_child_events \/ client_error)
    BY Zenon DEF server_accept_client, child_event, handle_child_events, Reap, ReapDone, client_error,
           close_client
  <2>2. ~ (write_to_client \/ read_on_client \/ handle_msg \/ EndOfLines \/ poll \/ EndOfRound)
    <3>1. ~ (EndOfLines \/ poll \/ EndOfRound)
      BY DEF EndOfLines, poll, EndOfRound
    <3>2. ~ (write_to_client \/ read_on_client)
      BY Zenon DEF write_to_client, read_on_client, close_client
    <3>3. ~ handle_msg
      BY DEF handle_msg, set_parallel, handle_run, handle_interrupt, run_request
    <3>4. QED
      BY <3>1, <3>2, <3>3, Zenon
  <2>3. poll_list_clean
    BY <1>4, <2>1, <2>2, Zenon DEF ServerStep
  <2>4. QED
    BY <1>3, <2>3, Zenon DEF poll_list_clean
<1>5. CASE ClientStep \/ (\E pid \in Pid : Exit(pid)) \/ sigchld_handle
  <2>1. UNCHANGED <<pc, processes, queue, parallel>>
    BY <1>5, Zenon DEF ClientStep, Connect, SendRun, SendInterrupt, SendParallel, Send, Disconnect,
       Exit, sigchld_handle, server
  <2>2. QED
    BY <1>3, <2>1
<1>6. CASE UNCHANGED vars
  BY <1>3, <1>6, Zenon DEF vars, server
<1>7. QED
  BY <1>2, <1>4, <1>5, <1>6, Zenon DEF Next

-----------------------------------------------------------------------------
(***************************************************************************)
(* The theorems.                                                           *)
(***************************************************************************)
\* The state of the event loop is well typed, for any number of clients and jobs;
\* in particular `parallel' never becomes 0, whatever a `parallel' line says.
THEOREM ServerTypeOK == Spec => []TypeOK
<1>1. IInv => TypeOK
  BY DEF IInv
<1>2. QED
  BY <1>1, ServerIInv, PTL

\* The list `processes' is the set of unreaped children (server-unix.c 453-455).
THEOREM ServerProcesses == Spec => []ProcessesAreChildren
<1>1. IInv => ProcessesAreChildren
  BY DEF IInv
<1>2. QED
  BY <1>1, ServerIInv, PTL

\* No terminated child is forgotten, for any capacity of the self-pipe.
THEOREM ServerNoLostChild == Spec => []NoLostChild
<1>1. IInv => NoLostChild
  BY DEF IInv
<1>2. QED
  BY <1>1, ServerIInv, PTL

\* The poll list mirrors the connected clients and their pending answers.
THEOREM ServerPollList == Spec => []PollListOK
<1>1. IInv => PollListOK
  BY DEF IInv
<1>2. QED
  BY <1>1, ServerIInv, PTL

\* The events poll reported are still true when the loop of main acts on them.
THEOREM ServerEvents == Spec => []EventsStillHold
<1>1. IInv => EventsStillHold
  BY DEF IInv
<1>2. QED
  BY <1>1, ServerIInv, PTL

\* Every run request sent over an open connection is in exactly one place: among the
\* unread lines, in the queue, running, answered F, or withdrawn by an interrupt.  So
\* handle_run, schedule_new_jobs, the reaping of a child and remove_from_queue neither
\* lose nor double a job, for any number of clients, jobs and processes.
THEOREM ServerRequestsConserved == Spec => []RequestsConserved
<1>1. QED
  BY RunsConserved, ServerRuns, PTL

\* A client is told of a start once, of a result once, and of the result after the start.
THEOREM ServerStartedThenFinished == Spec => []StartedThenFinished
<1>1. QED
  BY RunsAnswered, ServerRuns, PTL

\* The server sleeps in poll with a job in the queue only when every slot is taken,
\* whatever lines changed `parallel' before.
THEOREM ServerNoIdleSlot == Spec => []NoIdleSlot
<1>1. Init => SlotsFull
  BY DEF Init, SlotsFull
<1>2. SlotsFull => NoIdleSlot
  BY DEF SlotsFull, NoIdleSlot
<1>3. QED
  BY <1>1, <1>2, NextSlots, ServerTypeOK, PTL DEF Spec
=============================================================================
