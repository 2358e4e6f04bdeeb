------------------------- MODULE ProofServerJobRuns -------------------------
(***************************************************************************)
(* The steps that start, end and interrupt a job keep RunsInv of           *)
(* ProofServerInvariant.                                                   *)
(***************************************************************************)
EXTENDS ProofServerInvariant

\* Taking the head away.
LEMMA TailAt ==
  ASSUME NEW S, NEW s \in Seq(S), s # << >>, NEW M
  PROVE  /\ Head(s) \in M => At(s, M) # {} /\ (Single(At(s, M)) => At(Tail(s), M) = {})
         /\ Head(s) \notin M => Alike(At(Tail(s), M), At(s, M))
<1>1. /\ \A k \in At(Tail(s), M) : k + 1 \in At(s, M) /\ k \in Nat \ {0}
      /\ \A k \in At(s, M) : k \in Nat /\ (k = 1 \/ k - 1 \in At(Tail(s), M))
      /\ 1 \in At(s, M) <=> Head(s) \in M
  BY DEF At
<1>2. QED
  BY <1>1 DEF Single, Alike

\* B is not empty, and has one element when A is empty.
Grown(A, B) == B # {} /\ (A = {} => Single(B))

\* What run_request does to a run: it starts it or leaves it.
LEMMA StartFacts ==
  ASSUME IInv, ConnInv, ConnInv', NEW r \in Request, run_request(r), delivered' = delivered,
         NEW c \in Conn, NEW id \in Nat
  PROVE  /\ Reached(c)' = Reached(c) /\ pc' \in {pc, "down"}
         /\ Told(c, id, "F")' = Told(c, id, "F")
         /\ \/ /\ clients[r.key] = None \/ pc' = "down" \/ ~ (r \in RunRequest(c, id))
               /\ Active(c, id)' = Active(c, id) /\ Told(c, id, "S")' = Told(c, id, "S")
            \/ /\ r \in RunRequest(c, id) /\ r.key \in Connected
               /\ Grown(Active(c, id), Active(c, id)')
               /\ IF clients[r.key].conn = c
                    THEN Grown(Told(c, id, "S"), Told(c, id, "S")')
                    ELSE Told(c, id, "S")' = Told(c, id, "S")
<1> TypeOK /\ ProcessesAreChildren
  BY DEF IInv
<1>1. /\ Reached(c)' = Reached(c) /\ pc' \in {pc, "down"}
  BY RunRequestFacts DEF Reached
<1>2. TypeOK
  OBVIOUS
<1>3. CASE /\ UNCHANGED <<processes, clients, poll_list>>
           /\ clients[r.key] = None \/ pc' = "down"
  <2>1. Answers(c)' = Answers(c) /\ Active(c, id)' = Active(c, id)
    BY <1>3 DEF Answers, Buffered, Connected, Active, Running
  <2>2. \A kind : Told(c, id, kind)' = Told(c, id, kind)
    BY <2>1 DEF Told, RunAnswer
  <2>3. QED
    BY <1>1, <1>3, <2>1, <2>2, Zenon
<1>4. CASE /\ clients[r.key] # None
           /\ \E pid \in FreePid :
                processes' = [processes EXCEPT ![pid] =
                     [task_id |-> r.id, client_key |-> r.key, owner |-> r.owner]]
           /\ queue_write(poll_list, r.key, Started(r.id, r.owner))
  <2> DEFINE msg == Started(r.id, r.owner)
  <2>1. r.key \in Connected /\ msg \in Answer
    BY <1>4, StartedAnswer DEF Connected, Request
  <2>2. /\ msg \in RunAnswer(c, id, "S") <=> r \in RunRequest(c, id)
        /\ msg \notin RunAnswer(c, id, "F")
    BY <2>1 DEF RunAnswer, RunRequest, Started
  <2>3. PICK pid \in FreePid :
          processes' = [processes EXCEPT ![pid] =
               [task_id |-> r.id, client_key |-> r.key, owner |-> r.owner]]
    BY <1>4, Zenon
  <2>4. processes \in [Pid -> Process \cup {None}] /\ pid \in Pid /\ processes[pid] = None
    BY <2>3, Zenon DEF TypeOK, FreePid, ProcessesAreChildren
  <2>5. [task_id |-> r.id, client_key |-> r.key, owner |-> r.owner] # None
    BY NoneAssumption DEF Process, Request
  <2>6. Active(c, id)' = IF r \in RunRequest(c, id) THEN Active(c, id) \cup {pid} ELSE Active(c, id)
    BY <2>3, <2>4, <2>5, Zenon DEF Active, Running, RunRequest
  <2>7. Answers(c)' = IF clients[r.key].conn = c THEN Append(Answers(c), msg) ELSE Answers(c)
    BY <1>4, <2>1, PushAnswers
  <2> HIDE DEF msg
  <2>8. /\ Told(c, id, "F")' = Told(c, id, "F")
        /\ r \in RunRequest(c, id) /\ clients[r.key].conn = c =>
             Grown(Told(c, id, "S"), Told(c, id, "S")')
        /\ ~ (r \in RunRequest(c, id) /\ clients[r.key].conn = c) =>
             Told(c, id, "S")' = Told(c, id, "S")
    <3>1. CASE clients[r.key].conn # c
      <4>1. \A kind : Told(c, id, kind)' = Told(c, id, kind)
        BY <1>2, <2>1, <2>7, <3>1, PushTold, Zenon
      <4>2. QED
        BY <3>1, <4>1
    <3>2. CASE clients[r.key].conn = c
      <4>1. Answers(c)' = Append(Answers(c), msg)
        BY <2>7, <3>2
      <4>2. /\ Told(c, id, "F")' = Told(c, id, "F")
            /\ msg \notin RunAnswer(c, id, "S") => Told(c, id, "S")' = Told(c, id, "S")
        BY <1>2, <2>1, <2>2, <4>1, PushTold
      <4>3. msg \in RunAnswer(c, id, "S")
              => Told(c, id, "S")' = Told(c, id, "S") \cup {Len(Answers(c)) + 1}
        BY <1>2, <2>1, <4>1, PushTold
      <4>4. QED
        BY <2>2, <3>2, <4>2, <4>3, Zenon DEF Grown, Single
    <3>3. QED
      BY <3>1, <3>2
  <2>9. QED
    BY <1>1, <2>1, <2>6, <2>8, Zenon DEF Grown, Single
<1>5. QED
  BY <1>3, <1>4, Zenon DEF run_request

\* An accepted connection that is open has the client its requests name.
LEMMA OwnedClient ==
  ASSUME ConnInv, NEW c \in Conn, NEW fd, Owned(c, fd)
  PROVE  /\ Reached(c) => fd \in Connected /\ clients[fd].conn = c
         /\ status[c] = "open" => Reached(c)
<1>1. BacklogOK
  BY DEF ConnInv
<1>2. QED
  BY <1>1 DEF BacklogOK, Owned, Accepted, Reached

\* A run that leaves the queue or the lines read is started, or its client is gone.
LEMMA RunStarted ==
  ASSUME IInv, ConnInv, ConnInv', NEW r \in Request, Owned(r.owner, r.key), run_request(r),
         UNCHANGED <<delivered, status, cancelled, asked, socket>>,
         NEW c \in Conn, NEW id \in Nat, RunOK(c, id),
         r \in RunRequest(c, id) => /\ InQueue(c, id) # {} \/ InLines(c, id) # {}
                                    /\ InQueue(c, id)' = {} /\ InLines(c, id)' = {},
         r \notin RunRequest(c, id) => /\ Alike(InQueue(c, id)', InQueue(c, id))
                                       /\ Alike(InLines(c, id)', InLines(c, id))
  PROVE  KeepsRun(c, id) \/ RunOK(c, id)'
<1>1. Sent(c, id)' = Sent(c, id) /\ Cancelled(c, id)' = Cancelled(c, id)
  BY DEF Sent, RunLine, Cancelled
<1>2. /\ Awaited(c, id)' => Awaited(c, id)
      /\ pc' = "down" => ~ Awaited(c, id)'
      /\ Awaited(c, id)' => status[c] = "open"
  BY StartFacts DEF Awaited, Up
<1>3. CASE r \notin RunRequest(c, id)
  <2>1. /\ Active(c, id)' = Active(c, id) /\ Reached(c)' = Reached(c)
        /\ \A kind \in {"S", "F"} : Told(c, id, kind)' = Told(c, id, kind)
    BY <1>3, StartFacts
  <2>2. QED
    BY <1>1, <1>2, <1>3, <2>1, Zenon DEF KeepsRun, Alike
<1>4. CASE r \in RunRequest(c, id)
  <2>1. /\ Sent(c, id) = {} /\ Active(c, id) = {} /\ ~ Cancelled(c, id) /\ ~ (id > asked[c].run)
        /\ Told(c, id, "S") = {} /\ Told(c, id, "F") = {}
    BY <1>4 DEF RunOK, OnePlace, Somewhere
  <2>2. /\ Reached(c) => r.key \in Connected /\ clients[r.key].conn = c
        /\ status[c] = "open" => Reached(c)
    BY <1>4, OwnedClient DEF RunRequest
  <2>3. r.key \in Connected => clients[r.key] # None
    BY DEF Connected
  <2>4. CASE /\ clients[r.key] = None \/ pc' = "down"
             /\ Active(c, id)' = Active(c, id) /\ Told(c, id, "S")' = Told(c, id, "S")
    <3>1. ~ Awaited(c, id)' /\ Told(c, id, "F")' = {}
      BY <1>2, <2>1, <2>2, <2>3, <2>4, StartFacts, Zenon
    <3>2. QED
      BY <1>1, <1>4, <2>1, <2>4, <3>1, Zenon DEF RunOK, OnePlace, Single
  <2>5. CASE /\ Grown(Active(c, id), Active(c, id)')
             /\ IF clients[r.key].conn = c
                  THEN Grown(Told(c, id, "S"), Told(c, id, "S")')
                  ELSE Told(c, id, "S")' = Told(c, id, "S")
    <3>1. /\ Single(Active(c, id)') /\ Active(c, id)' # {}
          /\ Told(c, id, "F")' = {} /\ Reached(c)' = Reached(c)
      BY <2>1, <2>5, StartFacts, Zenon DEF Grown
    <3>2. Single(Told(c, id, "S")') /\ (Reached(c) => Told(c, id, "S")' # {})
      BY <2>1, <2>2, <2>5, Zenon DEF Single, Grown
    <3>3. QED
      BY <1>1, <1>4, <2>1, <3>1, <3>2, Zenon DEF RunOK, OnePlace, Somewhere, Single
  <2>6. QED
    BY <1>4, <2>4, <2>5, StartFacts, Zenon
<1>5. QED
  BY <1>3, <1>4

\* An iteration of schedule_new_jobs takes a run from the queue.
LEMMA ScheduleRuns == ASSUME IInv, ConnInv, ConnInv', RunsInv, schedule_new_jobs PROVE RunsInv'
<1> TypeOK
  BY DEF IInv
<1> Owners /\ LinesOfClient
  BY DEF ConnInv
<1>1. CASE list_length_processes < parallel /\ queue # << >>
  <2> DEFINE r == Head(queue)
  <2>1. /\ queue' = Tail(queue) /\ run_request(r) /\ pc = "schedule"
        /\ UNCHANGED <<cur, lines, socket, status, asked, delivered, cancelled>>
    BY <1>1 DEF schedule_new_jobs, clientSide
  <2>2. queue \in Seq(Request)
    BY Zenon DEF TypeOK
  <2>3. r \in Request /\ r = queue[1] /\ 1 \in DOMAIN queue
    BY <1>1, <2>2
  <2>4. Owned(r.owner, r.key) /\ lines = << >>
    BY <2>1, <2>3 DEF Owners, LinesOfClient
  <2> HIDE DEF r
  <2>5. ASSUME NEW c \in Conn, NEW id \in Nat, RunOK(c, id) PROVE KeepsRun(c, id) \/ RunOK(c, id)'
    <3>1. InLines(c, id) = {} /\ InLines(c, id)' = {}
      BY <2>1, <2>4 DEF InLines, At
    <3>2. InQueue(c, id) = At(queue, RunRequest(c, id)) /\ InQueue(c, id)' = At(Tail(queue), RunRequest(c, id))
      BY <2>1 DEF InQueue, RunRequest
    <3>3. Single(InQueue(c, id))
      BY <2>5 DEF RunOK, OnePlace
    <3>4. /\ r \in RunRequest(c, id) => InQueue(c, id) # {} /\ InQueue(c, id)' = {}
          /\ r \notin RunRequest(c, id) => Alike(InQueue(c, id)', InQueue(c, id))
      BY <1>1, <2>2, <3>2, <3>3, TailAt DEF r
    <3>5. Alike(InLines(c, id)', InLines(c, id))
      BY <3>1 DEF Alike
    <3>6. QED
      BY <2>1, <2>3, <2>4, <2>5, <3>1, <3>4, <3>5, RunStarted, Zenon
  <2>6. QED
    BY <2>1, <2>5, OneRunMoved, Zenon DEF RunsInv
<1>2. CASE ~ (list_length_processes < parallel /\ queue # << >>)
  <2>1. UNCHANGED <<clients, processes, queue, cur, lines, socket, status, asked, delivered, cancelled>>
    BY <1>2 DEF schedule_new_jobs, clientSide, kernel
  <2>2. pc = "schedule"
    BY DEF schedule_new_jobs
  <2>3. QED
    BY <2>1, <2>2, StillRuns, Zenon DEF Up
<1>3. QED
  BY <1>1, <1>2

\* A terminated run is answered, unless its client is gone.
LEMMA ReapRuns ==
  ASSUME IInv, ConnInv, ConnInv', RunsInv, NEW pid \in Pid, Reap(pid) PROVE RunsInv'
<1> TypeOK /\ ProcessesAreChildren
  BY DEF IInv
<1> Owners /\ LinesOfClient
  BY DEF ConnInv
<1>1. PICK proc \in Process, fd \in Fd : /\ proc = processes[pid] /\ fd = proc.client_key
                                        /\ pid \in Running
  <2>1. children[pid] \in Zombie
    BY DEF Reap
  <2>2. processes[pid] # None
    BY <2>1 DEF ProcessesAreChildren, Zombie, Signals
  <2>3. processes[pid] \in Process
    BY <2>2, Zenon DEF TypeOK
  <2>4. QED
    BY <2>2, <2>3 DEF Running, Process
<1>2. /\ pc = "reap" /\ processes' = [processes EXCEPT ![pid] = None]
      /\ IF clients[fd] # None
           THEN queue_write(poll_list, fd, Finished(proc, children[pid]))
           ELSE UNCHANGED <<clients, poll_list>>
      /\ UNCHANGED <<queue, pc, cur, lines, socket, status, asked, delivered, cancelled>>
  BY <1>1 DEF Reap, clientSide
<1>3. PICK msg \in Answer : msg = Finished(proc, children[pid])
  BY <1>1, FinishedAnswer DEF Reap
<1>4. Owned(proc.owner, fd) /\ lines = << >> /\ TypeOK
  BY <1>1, <1>2 DEF Owners, LinesOfClient
<1>5. \A c \in Conn : Answers(c)' = IF fd \in Connected /\ clients[fd].conn = c
                                       THEN Append(Answers(c), msg) ELSE Answers(c)
  <2>1. CASE clients[fd] # None
    <3>1. fd \in Connected
      BY <2>1 DEF Connected
    <3>2. QED
      BY <1>2, <1>3, <2>1, <3>1, PushAnswers, Zenon
  <2>2. CASE clients[fd] = None
    <3>1. fd \notin Connected
      BY <2>2 DEF Connected
    <3>2. UNCHANGED <<clients, delivered>>
      BY <1>2, <2>2
    <3>3. \A c \in Conn : Answers(c)' = Answers(c)
      BY <3>2 DEF Answers, Buffered, Connected
    <3>4. QED
      BY <3>1, <3>3
  <2>3. QED
    BY <2>1, <2>2
<1>6. \A c \in Conn : Reached(c)' = Reached(c)
  <2>1. CASE clients[fd] # None
    <3>1. fd \in Connected
      BY <2>1 DEF Connected
    <3>2. Connected' = Connected /\ \A f \in Connected : clients'[f].conn = clients[f].conn
      BY <1>2, <1>3, <2>1, <3>1, WriteFacts, Zenon
    <3>3. QED
      BY <3>2 DEF Reached
  <2>2. CASE clients[fd] = None
    BY <1>2, <2>2 DEF Reached, Connected
  <2>3. QED
    BY <2>1, <2>2
<1>7. ASSUME NEW c \in Conn, NEW id \in Nat, RunOK(c, id) PROVE KeepsRun(c, id) \/ RunOK(c, id)'
  <2>1. /\ Sent(c, id)' = Sent(c, id) /\ InQueue(c, id)' = InQueue(c, id)
        /\ Cancelled(c, id)' = Cancelled(c, id)
        /\ Awaited(c, id)' <=> Awaited(c, id)
    BY <1>2 DEF Sent, InQueue, Cancelled, RunLine, RunRequest, Awaited, Up
  <2>2. InLines(c, id)' = {} /\ InLines(c, id) = {}
    BY <1>2, <1>4 DEF InLines, At
  <2>3. Active(c, id)' = Active(c, id) \ {pid}
    <3>1. processes \in [Pid -> Process \cup {None}]
      BY <1>4, Zenon DEF TypeOK
    <3>2. QED
      BY <1>2, <3>1 DEF Active, Running
  <2>4. /\ msg \notin RunAnswer(c, id, "S")
        /\ msg \in RunAnswer(c, id, "F") <=> proc.owner = c /\ proc.task_id = id
    BY <1>3 DEF RunAnswer, Finished
  <2>5. CASE ~ (proc.owner = c /\ proc.task_id = id)
    <3>1. \A kind \in {"S", "F"} : Told(c, id, kind)' = Told(c, id, kind)
      BY <1>4, <1>5, <2>4, <2>5, PushTold, Zenon
    <3>2. Active(c, id)' = Active(c, id)
      BY <1>1, <2>3, <2>5, Zenon DEF Active
    <3>3. QED
      BY <1>2, <1>6, <2>1, <2>2, <3>1, <3>2, Zenon DEF KeepsRun, Alike
  <2>6. CASE proc.owner = c /\ proc.task_id = id
    <3>1. pid \in Active(c, id)
      BY <1>1, <2>6 DEF Active
    <3>2. /\ Active(c, id)' = {} /\ Told(c, id, "F") = {} /\ Sent(c, id) = {} /\ InQueue(c, id) = {}
          /\ ~ Cancelled(c, id) /\ ~ (id > asked[c].run)
      BY <1>7, <2>3, <3>1, Zenon DEF RunOK, OnePlace, Single, Somewhere
    <3>3. /\ Reached(c) => fd \in Connected /\ clients[fd].conn = c
          /\ status[c] = "open" => Reached(c)
      BY <1>4, <2>6, OwnedClient, Zenon
    <3>4. CASE Reached(c)
      <4>1. Answers(c)' = Append(Answers(c), msg)
        BY <1>5, <3>3, <3>4, Zenon
      <4>2. /\ Told(c, id, "S")' = Told(c, id, "S")
            /\ Told(c, id, "F")' = {Len(Answers(c)) + 1}
            /\ \A k \in Told(c, id, "S") : k < Len(Answers(c)) + 1
        <5>1. /\ \A kind : msg \notin RunAnswer(c, id, kind) => Told(c, id, kind)' = Told(c, id, kind)
              /\ \A kind : msg \in RunAnswer(c, id, kind) =>
                   Told(c, id, kind)' = Told(c, id, kind) \cup {Len(Answers(c)) + 1}
              /\ \A kind : \A k \in Told(c, id, kind) : k < Len(Answers(c)) + 1
          BY <4>1, PushTold, Zenon
        <5>2. Told(c, id, "S")' = Told(c, id, "S")
          BY <2>4, <5>1, Zenon
        <5>3. Told(c, id, "F")' = Told(c, id, "F") \cup {Len(Answers(c)) + 1}
          BY <2>4, <2>6, <5>1, Zenon
        <5>4. QED
          BY <3>2, <5>1, <5>2, <5>3, Zenon
      <4>3. Told(c, id, "S") # {}
        BY <1>7, <3>1, <3>4, Zenon DEF RunOK
      <4>4. QED
        <5>1. /\ OnePlace(Sent(c, id)', InLines(c, id)', InQueue(c, id)', Active(c, id)',
                          Told(c, id, "F")', Cancelled(c, id)')
              /\ Somewhere(Sent(c, id)', InLines(c, id)', InQueue(c, id)', Active(c, id)',
                           Told(c, id, "F")', Cancelled(c, id)')
          BY <2>1, <2>2, <3>2, <4>2, Zenon DEF OnePlace, Somewhere, Single
        <5>2. Single(Told(c, id, "S")) /\ asked' = asked
          BY <1>2, <1>7, Zenon DEF RunOK
        <5>3. \A k \in Told(c, id, "F")' : \E j \in Told(c, id, "S")' : j < k
          BY <4>2, <4>3, Zenon
        <5>4. QED
          BY <2>1, <2>2, <3>2, <4>2, <4>3, <5>1, <5>2, <5>3, Zenon DEF RunOK
    <3>5. CASE ~ Reached(c)
      <4>1. fd \in Connected => clients[fd].conn # c
        BY <3>5 DEF Reached
      <4>2. \A kind \in {"S", "F"} : Told(c, id, kind)' = Told(c, id, kind)
        BY <1>4, <1>5, <4>1, PushTold, Zenon
      <4>3. ~ Awaited(c, id)' /\ ~ Reached(c)'
        BY <1>6, <2>1, <3>3, <3>5, Zenon DEF Awaited
      <4>4. QED
        BY <1>2, <1>7, <2>1, <2>2, <3>2, <4>2, <4>3, Zenon DEF RunOK, OnePlace, Single
    <3>6. QED
      BY <3>4, <3>5
  <2>7. QED
    BY <2>5, <2>6
<1>8. QED
  BY <1>2, <1>7, OneRunMoved, Zenon DEF RunsInv

\* What an interrupt leaves in the queue.
LEMMA RemovedAt ==
  ASSUME IInv, NEW arg, remove_from_queue(arg), NEW c \in Conn, NEW id \in Nat
  PROVE  /\ id = arg => InQueue(c, id)' = {}
         /\ id # arg => Alike(InQueue(c, id)', InQueue(c, id))
<1> TypeOK
  BY DEF IInv
<1> DEFINE kept == {k \in DOMAIN queue : queue[k].id # arg}
           M == RunRequest(c, id)
<1>0. PICK n \in 0 .. Len(queue) : \E from \in [1 .. n -> kept] :
        /\ \A i, j \in 1 .. n : i < j => from[i] < from[j]
        /\ \A k \in kept : \E i \in 1 .. n : from[i] = k
        /\ queue' = [i \in 1 .. n |-> queue[from[i]]]
  BY Zenon DEF remove_from_queue
<1>1. PICK from \in [1 .. n -> kept] :
        /\ \A i, j \in 1 .. n : i < j => from[i] < from[j]
        /\ \A k \in kept : \E i \in 1 .. n : from[i] = k
        /\ queue' = [i \in 1 .. n |-> queue[from[i]]]
  BY <1>0, Zenon
<1>2. /\ InQueue(c, id)' = {i \in 1 .. n : queue[from[i]] \in M}
      /\ InQueue(c, id) = {k \in DOMAIN queue : queue[k] \in M}
  BY <1>1 DEF InQueue, At, RunRequest
<1>3. \A k : queue[k] \in M => queue[k].id = id
  BY DEF RunRequest
<1>4. \A i \in 1 .. n : from[i] \in kept
  BY <1>1
<1>5. \A i, j \in 1 .. n : from[i] = from[j] => i = j
  <2>1. queue \in Seq(Request)
    BY Zenon DEF TypeOK
  <2>2. kept \subseteq Nat
    BY <2>1
  <2>3. \A i \in 1 .. n : from[i] \in Nat
    BY <1>4, <2>2
  <2>4. QED
    BY <1>1, <2>3
<1>6. CASE id = arg
  <2>1. \A i \in 1 .. n : queue[from[i]] \notin M
    BY <1>3, <1>4, <1>6, Zenon
  <2>2. QED
    BY <1>2, <1>6, <2>1, Zenon
<1>7. CASE id # arg
  <2>1. \A k \in InQueue(c, id) : k \in kept
    BY <1>2, <1>3, <1>7, Zenon
  <2>2. \A i \in InQueue(c, id)' : i \in 1 .. n /\ from[i] \in InQueue(c, id)
    BY <1>2, <1>4
  <2>3. \A k \in InQueue(c, id) : \E i \in 1 .. n : from[i] = k /\ i \in InQueue(c, id)'
    BY <1>1, <1>2, <2>1, Zenon
  <2>4. QED
    BY <1>5, <1>7, <2>2, <2>3 DEF Alike, Single
<1>8. QED
  BY <1>6, <1>7

\* A request line is carried out.
LEMMA HandleRuns == ASSUME IInv, ConnInv, ConnInv', RunsInv, handle_msg PROVE RunsInv'
<1> TypeOK /\ EventsStillHold
  BY DEF IInv
<1> Owners /\ LinesOfClient
  BY DEF ConnInv
<1>1. PICK l \in Line, d \in Conn :
        /\ l = Head(lines) /\ cur \in Connected /\ d = clients[cur].conn
        /\ pc = "lines" /\ lines # << >> /\ lines' = Tail(lines)
        /\ \/ l.cmd = "parallel" /\ set_parallel(l.arg)
           \/ l.cmd = "run" /\ handle_run([key |-> cur, id |-> l.arg, owner |-> d])
           \/ l.cmd = "interrupt" /\ handle_interrupt(l.arg)
        /\ UNCHANGED <<cur, socket, status, asked, delivered>>
  <2>1. pc = "lines" /\ lines # << >>
    BY DEF handle_msg
  <2>2. lines \in Seq(Line) /\ cur \in Connected
    BY <2>1, Zenon DEF TypeOK, EventsStillHold
  <2>3. Head(lines) \in Line /\ clients[cur].conn \in Conn
    BY <2>1, <2>2, NamedConns DEF Named
  <2>4. QED
    BY <2>1, <2>2, <2>3, Zenon DEF handle_msg
<1>2. PICK r \in Request : r = [key |-> cur, id |-> l.arg, owner |-> d]
  BY <1>1 DEF Request, Line, Connected
<1>3. Owned(r.owner, r.key) /\ lines \in Seq(Line)
  BY <1>1, <1>2, Zenon DEF Owners, LinesOfClient, TypeOK
<1>4. clients'[cur'].conn = d
  <2>1. CASE UNCHANGED clients
    BY <1>1, <2>1
  <2>2. CASE run_request(r)
    BY <1>1, <2>2, RunRequestFacts
  <2>3. QED
    BY <1>1, <1>2, <2>1, <2>2, Zenon DEF set_parallel, handle_run, handle_interrupt
<1>5. ASSUME NEW c \in Conn, NEW id \in Nat, RunOK(c, id)
      PROVE  /\ c = d /\ l \in RunLine(id) => InLines(c, id) # {} /\ InLines(c, id)' = {}
             /\ ~ (c = d /\ l \in RunLine(id)) => Alike(InLines(c, id)', InLines(c, id))
  <2>1. CASE c = d
    <3>1. InLines(c, id) = At(lines, RunLine(id)) /\ InLines(c, id)' = At(Tail(lines), RunLine(id))
      BY <1>1, <1>4, <2>1, Zenon DEF InLines, RunLine
    <3>2. Single(InLines(c, id))
      BY <1>5 DEF RunOK, OnePlace
    <3>3. QED
      BY <1>1, <1>3, <2>1, <3>1, <3>2, TailAt
  <2>2. CASE c # d
    <3>1. InLines(c, id) = {} /\ InLines(c, id)' = {}
      BY <1>1, <1>4, <2>2, Zenon DEF InLines
    <3>2. QED
      BY <2>2, <3>1 DEF Alike
  <2>3. QED
    BY <2>1, <2>2
<1>6. \A c \in Conn, id \in Nat : r \in RunRequest(c, id) <=> c = d /\ l.arg = id
  BY <1>2 DEF RunRequest
<1>7. \A id : l \in RunLine(id) <=> l.cmd = "run" /\ l.arg = id
  BY <1>1 DEF RunLine, Line
<1>8. ASSUME NEW c \in Conn, NEW id \in Nat, RunOK(c, id) PROVE KeepsRun(c, id) \/ RunOK(c, id)'
  <2>1. CASE l.cmd = "run" /\ run_request(r) /\ UNCHANGED <<queue, cancelled>>
    <3>1. InQueue(c, id)' = InQueue(c, id)
      BY <2>1 DEF InQueue, RunRequest
    <3>2. InLines(c, id) # {} => InQueue(c, id) = {}
      BY <1>8 DEF RunOK, OnePlace
    <3>3. Alike(InQueue(c, id)', InQueue(c, id))
      BY <3>1 DEF Alike
    <3>4. /\ r \in RunRequest(c, id) => InLines(c, id) # {} /\ InLines(c, id)' = {} /\ InQueue(c, id)' = {}
          /\ r \notin RunRequest(c, id) => Alike(InLines(c, id)', InLines(c, id))
      BY <1>5, <1>6, <1>7, <1>8, <2>1, <3>1, <3>2, Zenon
    <3>5. QED
      BY <1>1, <1>3, <1>8, <2>1, <3>3, <3>4, RunStarted, Zenon
  <2>2. ASSUME UNCHANGED <<processes, clients, pc>>
        PROVE  /\ Sent(c, id)' = Sent(c, id) /\ Active(c, id)' = Active(c, id)
               /\ Reached(c)' = Reached(c) /\ (Awaited(c, id)' <=> Awaited(c, id))
               /\ \A kind \in {"S", "F"} : Told(c, id, kind)' = Told(c, id, kind)
    <3>1. Answers(c)' = Answers(c) /\ Reached(c)' = Reached(c)
      BY <1>1, <2>2 DEF Answers, Buffered, Connected, Reached
    <3>2. QED
      BY <1>1, <2>2, <3>1, Zenon DEF Sent, RunLine, Active, Running, Awaited, Up, Told, RunAnswer
  <2>3. CASE l.cmd = "run" /\ queue' = Append(queue, r) /\ UNCHANGED <<processes, clients, pc, cancelled>>
    <3>1. Cancelled(c, id)' = Cancelled(c, id)
      BY <2>3 DEF Cancelled
    <3>2. queue \in Seq(Request)
      BY Zenon DEF TypeOK
    <3>3. /\ r \in RunRequest(c, id) => InQueue(c, id)' = InQueue(c, id) \cup {Len(queue) + 1}
          /\ r \notin RunRequest(c, id) => InQueue(c, id)' = InQueue(c, id)
      BY <1>2, <2>3, <3>2, AppendAt DEF InQueue, RunRequest
    <3>4. CASE r \notin RunRequest(c, id)
      BY <1>1, <1>5, <1>6, <1>7, <1>8, <2>2, <2>3, <3>1, <3>3, <3>4, Zenon DEF KeepsRun, Alike
    <3>5. CASE r \in RunRequest(c, id)
      <4>1. InLines(c, id) # {} /\ InLines(c, id)' = {}
        BY <1>5, <1>6, <1>7, <1>8, <2>3, <3>5, Zenon
      <4>2. QED
        BY <1>1, <1>8, <2>2, <2>3, <3>1, <3>3, <3>5, <4>1, Zenon DEF RunOK, OnePlace, Somewhere, Single
    <3>6. QED
      BY <3>4, <3>5, Zenon
  <2>4. CASE l.cmd = "parallel" /\ UNCHANGED <<processes, clients, queue, cancelled, pc>>
    <3>1. InQueue(c, id)' = InQueue(c, id) /\ Cancelled(c, id)' = Cancelled(c, id)
      BY <2>4 DEF InQueue, RunRequest, Cancelled
    <3>2. QED
      BY <1>1, <1>5, <1>7, <1>8, <2>2, <2>4, <3>1, Zenon DEF KeepsRun, Alike
  <2>5. CASE l.cmd = "interrupt" /\ handle_interrupt(l.arg)
    <3>1. Alike(InLines(c, id)', InLines(c, id))
      BY <1>5, <1>7, <1>8, <2>5, Zenon
    <3>2. /\ id = l.arg => InQueue(c, id)' = {}
          /\ id # l.arg => Alike(InQueue(c, id)', InQueue(c, id))
      BY <2>5, RemovedAt DEF handle_interrupt
    <3>3. Cancelled(c, id)' <=> Cancelled(c, id) \/ (id = l.arg /\ InQueue(c, id) # {})
      <4>1. \A k \in DOMAIN queue : queue[k] \in Request
        BY NamedConns DEF Named
      <4>2. InQueue(c, id) = {k \in DOMAIN queue : queue[k].owner = c /\ queue[k].id = id}
        BY <4>1 DEF InQueue, At, RunRequest
      <4>3. QED
        BY <2>5, <4>2 DEF Cancelled, handle_interrupt
    <3>4. UNCHANGED <<processes, clients, pc>>
      BY <2>5 DEF handle_interrupt
    <3>5. CASE id # l.arg \/ InQueue(c, id) = {}
      <4>1. Alike(InQueue(c, id)', InQueue(c, id))
        BY <3>2, <3>5 DEF Alike, Single
      <4>2. Cancelled(c, id)' = Cancelled(c, id)
        BY <3>3, <3>5 DEF Cancelled
      <4>3. QED
        BY <1>1, <2>2, <3>1, <3>4, <4>1, <4>2, Zenon DEF KeepsRun, Alike
    <3>6. CASE id = l.arg /\ InQueue(c, id) # {}
      <4>1. /\ Sent(c, id) = {} /\ InLines(c, id) = {} /\ Active(c, id) = {} /\ ~ (id > asked[c].run)
            /\ \A kind \in {"S", "F"} : Told(c, id, kind) = {}
        BY <1>8, <3>6, Zenon DEF RunOK, OnePlace, Somewhere
      <4>2. /\ Sent(c, id)' = {} /\ InLines(c, id)' = {} /\ Active(c, id)' = {} /\ Cancelled(c, id)'
            /\ \A kind \in {"S", "F"} : Told(c, id, kind)' = {}
            /\ InQueue(c, id)' = {} /\ ~ (id > asked'[c].run)
        BY <1>1, <2>2, <3>1, <3>2, <3>3, <3>4, <3>6, <4>1, Zenon DEF Alike
      <4>3. QED
        BY <4>2 DEF RunOK, OnePlace, Somewhere, Single
    <3>7. QED
      BY <3>5, <3>6, Zenon
  <2>6. QED
    BY <1>1, <1>2, <2>1, <2>3, <2>4, <2>5, Zenon DEF set_parallel, handle_run
<1>9. QED
  BY <1>1, <1>8, OneRunMoved, Zenon DEF RunsInv
=============================================================================
