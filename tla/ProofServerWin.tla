--------------------------- MODULE ProofServerWin ---------------------------
(***************************************************************************)
(* The proof server of src/src/server/server-win.c: an event loop around   *)
(* an I/O completion port.  Pipe instances, clients and processes are told *)
(* apart by keys that are generated once; a pipe instance becomes a client *)
(* under its own key when someone connects to it.  Overlapped reads and    *)
(* writes and the messages of job objects arrive as packets, in the order  *)
(* in which they were posted.  A call that fails at once (here: because    *)
(* the client is gone) posts no packet.                                    *)
(*                                                                         *)
(* A message of the pipe is one request line, as prove_client.ml sends it. *)
(***************************************************************************)
EXTENDS Integers, Sequences, FiniteSetsExt

CONSTANTS
  Conn,           \* client connections, each made once
  InitParallel,   \* -j
  Setups,         \* the situations considered, one for each behaviour
  None

\* What a situation consists of.
Setup ==
  [conns : SUBSET Conn,              \* the connections that are made
   mayClose : SUBSET Conn,           \* the connections whose client may disconnect
   maxRun : Nat,                     \* run requests per connection, with ids 1 .. maxRun
   maxInterrupt : Nat,               \* interrupt requests per connection
   parallelArgs : SUBSET Nat,        \* arguments of the one `parallel' request per connection
   longLines : BOOLEAN,              \* a message may be longer than READ_ONCE
   exitCauses : SUBSET {"exit", "limit"},   \* how a prover may end by itself
   memoryEvents : BOOLEAN,           \* a prover may run into its memory limit without ending
   spawnFails : SUBSET {"CreateProcess", "job"},   \* how starting a prover may fail
   singleClient : BOOLEAN]           \* --single-client

ASSUME WinAssumption ==
  /\ IsFiniteSet(Conn)
  /\ InitParallel \in Nat \ {0}
  /\ Setups # {} /\ IsFiniteSet(Setups) /\ \A s \in Setups : s \in Setup

VARIABLES
  setup,          \* the situation this behaviour is about
  \* memory of the server
  parallel, gen_key,
  server_key,     \* slot -> key of the pipe instance that listens
  clients,        \* key -> client: the list `clients'
  processes,      \* key -> process: the list `processes'
  queue,
  pc,             \* "schedule", "wait", "down" (shut down) or "undefined"
  \* system
  port,           \* packets of the completion port
  pipe,           \* conn -> request lines in the pipe
  peer,           \* key -> the connection made to that pipe instance
  children,       \* key -> state of the prover process
  \* clients
  status,         \* conn -> "new", "open" or "closed"
  asked,          \* conn -> runs sent, ids interrupted, `parallel' lines sent
  delivered,      \* conn -> answers written to the connection
  cancelled       \* <<conn, id>> taken out of the queue by an interrupt

server == <<parallel, gen_key, server_key, clients, processes, queue, pc>>
system == <<port, pipe, peer, children>>
clientSide == <<status, asked, delivered, cancelled>>
vars == <<server, system, clientSide>>

\* The run ids of all situations.
MaxRun == Max({s.maxRun : s \in Setups})

\* keygen is called once for a slot, for an accepted client and for a process.
Key == 1 .. InitParallel + Cardinality(Conn) * (1 + MaxRun)

Slot == 1 .. InitParallel          \* the length of server_socket and server_key

Line == [cmd : {"run", "interrupt", "parallel"}, arg : Nat, long : BOOLEAN]
Request == [key : Key, id : Nat, owner : Conn]
Process == [task_id : Nat, client_key : Key, owner : Conn]
Causes == {"none", "exit", "limit", "kill", "nospawn"}
Answer == [kind : {"S", "F"}, id : Nat, timeout : BOOLEAN, cause : Causes, owner : Conn]

\* The state of an overlapped operation: not started, in progress, completed with
\* its packet in the port, or failed when it was called.
Io == {"none", "pending", "posted", "failed"}
Client == [conn : Conn, out : Seq(Answer), write : Io, read : Io]

NoLine == [cmd |-> "parallel", arg |-> 0, long |-> FALSE]
Packet(kind, key, ev, line) == [kind |-> kind, key |-> key, ev |-> ev, line |-> line]

Connected == {k \in Key : clients[k] # None}
Running == {k \in Key : processes[k] # None}
Alive == {"running", "full", "doomed"}   \* full: has met its memory limit

-----------------------------------------------------------------------------
(***************************************************************************)
(* Input and output on a client.                                           *)
(***************************************************************************)

\* try_write: start a write unless one is under way (is_writing).
try_write(c) ==
  IF c.out # << >> /\ c.write = "none"
    THEN [c EXCEPT !.write = IF status[c.conn] = "open" THEN "pending" ELSE "failed"]
    ELSE c

\* push_write_data and try_write, at the end of both send functions.
send_msg_to_client(cl, k, msg) ==
  [cl EXCEPT ![k] = try_write([@ EXCEPT !.out = Append(@, msg)])]

\* Faulty variant: only the first read of a client is started.
ReadOnlyOnce(c) == IF c.read = "none" THEN [c EXCEPT !.read = "pending"] ELSE c

\* do_read: ReadFile on a pipe that is empty and whose client is gone fails at once.
do_read(c) ==
  [c EXCEPT !.read = IF pipe[c.conn] # << >> \/ status[c.conn] = "open"
                       THEN "pending" ELSE "failed"]

Started(r) ==
  [kind |-> "S", id |-> r.id, timeout |-> FALSE, cause |-> "none", owner |-> r.owner]

\* The timeout field is computed from the exit code of the process.
Finished(id, owner, cause) ==
  [kind |-> "F", id |-> id, timeout |-> cause = "limit", cause |-> cause, owner |-> owner]

\* keygen: the counter after a key was taken.
keygen == gen_key + 1

Init ==
  /\ setup \in Setups
  /\ parallel = InitParallel
  /\ gen_key = InitParallel + 1          \* create_server_socket, once per slot
  /\ server_key = [i \in Slot |-> i]
  /\ clients = [k \in Key |-> None]
  /\ processes = [k \in Key |-> None]
  /\ queue = << >>
  /\ pc = "schedule"
  /\ port = << >>
  /\ pipe = [c \in Conn |-> << >>]
  /\ peer = [k \in Key |-> None]
  /\ children = [k \in Key |-> "none"]
  /\ status = [c \in Conn |-> "new"]
  /\ asked = [c \in Conn |-> [run |-> 0, interrupt |-> {}, parallel |-> 0]]
  /\ delivered = [c \in Conn |-> << >>]
  /\ cancelled = {}

-----------------------------------------------------------------------------
(***************************************************************************)
(* Starting provers.                                                       *)
(***************************************************************************)

\* run_request, with cl and p the clients and packets at that point and next where
\* the caller goes on: nothing for a client that is
\* gone; a shutdown when the job object cannot be set up; the client gets
\* F without S when CreateProcess fails.
run_request(r, cl, p, next) ==
  \/ /\ cl[r.key] = None
     /\ port' = p
     /\ pc' = next
     /\ clients' = cl
     /\ UNCHANGED <<processes, children, gen_key>>
  \/ /\ cl[r.key] # None
     /\ "job" \in setup.spawnFails
     /\ pc' = "down"
     /\ clients' = cl
     /\ port' = p
     /\ UNCHANGED <<processes, children, gen_key>>
  \/ /\ cl[r.key] # None
     /\ "CreateProcess" \in setup.spawnFails
     /\ clients' = send_msg_to_client(cl, r.key, Finished(r.id, r.owner, "nospawn"))
     /\ port' = p
     /\ pc' = next
     /\ UNCHANGED <<processes, children, gen_key>>
  \/ /\ cl[r.key] # None
     /\ processes' = [processes EXCEPT ![gen_key] =
          [task_id |-> r.id, client_key |-> r.key, owner |-> r.owner]]
     /\ children' = [children EXCEPT ![gen_key] = "running"]
     /\ gen_key' = keygen
     /\ clients' = send_msg_to_client(cl, r.key, Started(r))
     /\ port' = Append(p, Packet("process", gen_key, "new", NoLine))
     /\ pc' = next

\* One iteration of schedule_new_jobs, or its exit to GetQueuedCompletionStatus.
schedule_new_jobs ==
  /\ pc = "schedule"
  /\ IF Cardinality(Running) < parallel /\ queue # << >>
       THEN /\ queue' = Tail(queue)
            /\ run_request(Head(queue), clients, port, "schedule")
            /\ UNCHANGED <<parallel, server_key, pipe, peer, clientSide>>
       ELSE /\ pc' = "wait"
            /\ UNCHANGED <<parallel, gen_key, server_key, clients, processes, queue,
                           system, clientSide>>

-----------------------------------------------------------------------------
(***************************************************************************)
(* Events.  Each action takes the first packet, and schedule_new_jobs is   *)
(* called before the next one is waited for.                               *)
(***************************************************************************)
pk == Head(port)

Got(kind) == pc = "wait" /\ port # << >> /\ pk.kind = kind

\* get_server_num: the slot with this key among the first `parallel' ones.
get_server_num(key) == {i \in Slot : i <= parallel /\ server_key[i] = key}

\* `parallel' has grown beyond the arrays: a search that finds nothing reads
\* behind server_key, where anything may be (or nothing is mapped).
past_the_arrays ==
  /\ pc = "wait"
  /\ port # << >>
  /\ get_server_num(pk.key) = {}
  /\ parallel > InitParallel
  /\ pc' = "undefined"
  /\ UNCHANGED <<parallel, gen_key, server_key, clients, processes, queue, system, clientSide>>

\* A client has connected to a pipe instance that listens: the instance becomes a
\* client and a new one listens in its slot.
accept_client ==
  /\ Got("socket")
  /\ \E i \in get_server_num(pk.key) :
       /\ server_key' = [server_key EXCEPT ![i] = gen_key]
       /\ gen_key' = keygen
  /\ clients' = [clients EXCEPT ![pk.key] =
       do_read([conn |-> peer[pk.key], out |-> << >>, write |-> "none", read |-> "none"])]
  /\ port' = Tail(port)
  /\ pc' = "schedule"
  /\ UNCHANGED <<parallel, processes, queue, pipe, peer, children, clientSide>>

\* A packet for a client of the list, in the case get_server_num returns -1.
ClientEvent == Got("socket") /\ get_server_num(pk.key) = {} /\ clients[pk.key] # None

\* "client already dead, ignore any events"
ignore_event ==
  /\ Got("socket")
  /\ get_server_num(pk.key) = {}
  /\ clients[pk.key] = None
  /\ port' = Tail(port)
  /\ pc' = "schedule"
  /\ UNCHANGED <<parallel, gen_key, server_key, clients, processes, queue,
                 pipe, peer, children, clientSide>>

set_parallel(n, cl) ==
  /\ parallel' = IF n >= 1 THEN n ELSE parallel
  /\ clients' = cl
  /\ port' = Tail(port)
  /\ pc' = "schedule"
  /\ UNCHANGED <<gen_key, processes, children, queue, cancelled>>

handle_run(r, cl) ==
  /\ IF Cardinality(Running) < parallel
       THEN run_request(r, cl, Tail(port), "schedule") /\ UNCHANGED queue
       ELSE /\ queue' = Append(queue, r)
            /\ clients' = cl
            /\ port' = Tail(port)
            /\ pc' = "schedule"
            /\ UNCHANGED <<gen_key, processes, children>>
  /\ UNCHANGED <<parallel, cancelled>>

\* Faulty variant: the queue is not refilled.
RemoveEverything(id) == << >>

remove_from_queue(id) == SelectSeq(queue, LAMBDA r : r.id # id)

\* remove_from_queue and kill_processes: TerminateProcess for each with that id.
handle_interrupt(id, cl) ==
  /\ queue' = remove_from_queue(id)
  /\ children' = [k \in Key |-> IF /\ processes[k] # None
                                   /\ processes[k].task_id = id
                                   /\ children[k] \in {"running", "full"}
                                  THEN "doomed" ELSE children[k]]
  /\ cancelled' = cancelled \cup
       {<<queue[i].owner, id>> : i \in {j \in DOMAIN queue : queue[j].id = id}}
  /\ clients' = cl
  /\ port' = Tail(port)
  /\ pc' = "schedule"
  /\ UNCHANGED <<parallel, gen_key, processes>>

handle_msg(l, cl) ==
  LET r == [key |-> pk.key, id |-> l.arg, owner |-> cl[pk.key].conn]
  IN  \/ l.cmd = "parallel" /\ set_parallel(l.arg, cl)
      \/ l.cmd = "run" /\ handle_run(r, cl)
      \/ l.cmd = "interrupt" /\ handle_interrupt(l.arg, cl)

\* READOP, a whole message: handle_msg, clear_readbuf and the next read, which
\* handle_msg does not depend on.
read_done ==
  /\ ClientEvent
  /\ pk.ev = "read"
  /\ handle_msg(pk.line, [clients EXCEPT ![pk.key] = do_read(@)])
  /\ UNCHANGED <<server_key, pipe, peer, status, asked, delivered>>

\* READOP, the first READ_ONCE bytes of a message: they stay in the buffer.
read_more ==
  /\ ClientEvent
  /\ pk.ev = "more"
  /\ clients' = [clients EXCEPT ![pk.key] = do_read(@)]
  /\ port' = Tail(port)
  /\ pc' = "schedule"
  /\ UNCHANGED <<parallel, gen_key, server_key, processes, queue, pipe, peer, children, clientSide>>

\* READOP, ERROR_BROKEN_PIPE: close_client.  CloseHandle aborts a pending write,
\* whose packet then finds no client.
close_client ==
  /\ ClientEvent
  /\ pk.ev = "broken"
  /\ clients' = [clients EXCEPT ![pk.key] = None]
  /\ port' = IF clients[pk.key].write = "pending"
               THEN Append(Tail(port), Packet("socket", pk.key, "unwritten", NoLine))
               ELSE Tail(port)
  /\ pc' = IF setup.singleClient /\ Connected = {pk.key} THEN "down" ELSE "schedule"
  /\ UNCHANGED <<parallel, gen_key, server_key, processes, queue, pipe, peer, children, clientSide>>

\* WRITEOP: have_written of the whole message, then try_write.
Written(c) == try_write([c EXCEPT !.write = "none", !.out = Tail(@)])

\* WRITEOP with no bytes written: the message stays, try_write starts over.
Unwritten(c) == try_write([c EXCEPT !.write = "none"])

write_done ==
  /\ ClientEvent
  /\ pk.ev \in {"written", "unwritten"}
  /\ clients' = [clients EXCEPT ![pk.key] =
       IF pk.ev = "written" THEN Written(@) ELSE Unwritten(@)]
  /\ port' = Tail(port)
  /\ pc' = "schedule"
  /\ UNCHANGED <<parallel, gen_key, server_key, processes, queue, pipe, peer, children, clientSide>>

-----------------------------------------------------------------------------
\* handle_child_event: the messages that mean the process ends.
IsEnd(ev) == ev \in {"exit", "limit", "memory"}

\* Faulty variant: the process stays in the list.
KeepProcess(k) == processes

\* list_remove(processes, key)
RemoveProcess(k) == [processes EXCEPT ![k] = None]

\* Faulty variant: the first client of the list is taken.
FirstClient(proc) ==
  IF Connected = {} THEN proc.client_key
  ELSE CHOOSE k \in Connected : \A j \in Connected : k <= j

\* The client of a process.
ClientOf(proc) == proc.client_key

\* A message of the job object of a process of the list whose client is there:
\* wait until the process has ended, then remove and answer it.
handle_child_event ==
  /\ Got("process")
  /\ processes[pk.key] # None
  /\ clients[ClientOf(processes[pk.key])] # None
  /\ LET proc == processes[pk.key]
     IN  \/ /\ ~ IsEnd(pk.ev)
            /\ UNCHANGED <<clients, processes>>
         \/ /\ IsEnd(pk.ev)
            /\ children[pk.key] \notin Alive          \* WaitForSingleObject
            /\ processes' = RemoveProcess(pk.key)
            /\ clients' = send_msg_to_client(clients, ClientOf(proc),
                            Finished(proc.task_id, proc.owner, children[pk.key]))
  /\ port' = Tail(port)
  /\ pc' = "schedule"
  /\ UNCHANGED <<parallel, gen_key, server_key, queue, pipe, peer, children, clientSide>>

\* Any other message of a job object does nothing.
ignore_child_event ==
  /\ Got("process")
  /\ IF processes[pk.key] = None THEN TRUE ELSE clients[ClientOf(processes[pk.key])] = None
  /\ port' = Tail(port)
  /\ pc' = "schedule"
  /\ UNCHANGED <<parallel, gen_key, server_key, clients, processes, queue,
                 pipe, peer, children, clientSide>>

ServerStep ==
  \/ schedule_new_jobs
  \/ past_the_arrays
  \/ accept_client
  \/ ignore_event
  \/ read_done
  \/ read_more
  \/ close_client
  \/ write_done
  \/ handle_child_event
  \/ ignore_child_event

-----------------------------------------------------------------------------
(***************************************************************************)
(* The system and the clients.  The model ends with the server process.    *)
(***************************************************************************)
Up == pc \notin {"down", "undefined"}

\* The pending read of a client completes.
ReadDone(k) ==
  /\ Up
  /\ clients[k] # None
  /\ clients[k].read = "pending"
  /\ LET c == clients[k].conn
     IN  \/ /\ pipe[c] # << >>
            /\ Head(pipe[c]).long
            /\ pipe' = [pipe EXCEPT ![c][1].long = FALSE]
            /\ port' = Append(port, Packet("socket", k, "more", NoLine))
         \/ /\ pipe[c] # << >>
            /\ ~ Head(pipe[c]).long
            /\ pipe' = [pipe EXCEPT ![c] = Tail(@)]
            /\ port' = Append(port, Packet("socket", k, "read", Head(pipe[c])))
         \/ /\ pipe[c] = << >>
            /\ status[c] = "closed"
            /\ port' = Append(port, Packet("socket", k, "broken", NoLine))
            /\ UNCHANGED pipe
  /\ clients' = [clients EXCEPT ![k].read = "posted"]
  /\ UNCHANGED <<parallel, gen_key, server_key, processes, queue, pc, peer, children, clientSide>>

\* The pending write of a client completes, or fails because the client is gone.
WriteDone(k) ==
  /\ Up
  /\ clients[k] # None
  /\ clients[k].write = "pending"
  /\ LET c == clients[k].conn
     IN  \/ /\ status[c] = "open"
            /\ delivered' = [delivered EXCEPT ![c] = Append(@, Head(clients[k].out))]
            /\ port' = Append(port, Packet("socket", k, "written", NoLine))
         \/ /\ status[c] = "closed"
            /\ port' = Append(port, Packet("socket", k, "unwritten", NoLine))
            /\ UNCHANGED delivered
  /\ clients' = [clients EXCEPT ![k].write = "posted"]
  /\ UNCHANGED <<parallel, gen_key, server_key, processes, queue, pc, pipe, peer, children,
                 status, asked, cancelled>>

\* A prover ends.  A process that meets its time limit is ended by the system.
Exit(k) ==
  /\ Up
  /\ children[k] \in Alive
  /\ \E cause \in setup.exitCauses \cup (IF children[k] = "doomed" THEN {"kill"} ELSE {}) :
       /\ children' = [children EXCEPT ![k] = cause]
       /\ port' = port
            \o (IF cause = "limit" THEN <<Packet("process", k, "limit", NoLine)>> ELSE << >>)
            \o <<Packet("process", k, "exit", NoLine), Packet("process", k, "zero", NoLine)>>
  /\ UNCHANGED <<server, pipe, peer, clientSide>>

\* An allocation beyond the memory limit fails; the process goes on.
MemoryLimit(k) ==
  /\ Up
  /\ setup.memoryEvents
  /\ children[k] = "running"
  /\ children' = [children EXCEPT ![k] = "full"]
  /\ port' = Append(port, Packet("process", k, "memory", NoLine))
  /\ UNCHANGED <<server, pipe, peer, clientSide>>

\* A client opens the pipe: it needs an instance that listens.
Connect(c) ==
  /\ Up
  /\ c \in setup.conns /\ status[c] = "new"
  /\ \E i \in Slot :
       /\ peer[server_key[i]] = None
       /\ peer' = [peer EXCEPT ![server_key[i]] = c]
       /\ port' = Append(port, Packet("socket", server_key[i], "connect", NoLine))
  /\ status' = [status EXCEPT ![c] = "open"]
  /\ UNCHANGED <<server, pipe, children, asked, delivered, cancelled>>

Send(c, cmd, arg) ==
  /\ Up
  /\ status[c] = "open"
  /\ \E long \in {FALSE, setup.longLines} :
       pipe' = [pipe EXCEPT ![c] = Append(@, [cmd |-> cmd, arg |-> arg, long |-> long])]
  /\ UNCHANGED <<server, port, peer, children, status, delivered, cancelled>>

SendRun(c) ==
  /\ asked[c].run < setup.maxRun
  /\ asked' = [asked EXCEPT ![c].run = @ + 1]
  /\ Send(c, "run", asked[c].run + 1)

SendInterrupt(c) ==
  /\ Cardinality(asked[c].interrupt) < setup.maxInterrupt
  /\ \E id \in 1 .. asked[c].run :
       /\ id \notin asked[c].interrupt
       /\ asked' = [asked EXCEPT ![c].interrupt = @ \cup {id}]
       /\ Send(c, "interrupt", id)

SendParallel(c) ==
  /\ asked[c].parallel = 0
  /\ asked' = [asked EXCEPT ![c].parallel = @ + 1]
  /\ \E n \in setup.parallelArgs : Send(c, "parallel", n)

Disconnect(c) ==
  /\ Up
  /\ c \in setup.mayClose
  /\ status[c] = "open"
  /\ status' = [status EXCEPT ![c] = "closed"]
  /\ UNCHANGED <<server, system, asked, delivered, cancelled>>

SystemStep ==
  \E k \in Key : ReadDone(k) \/ WriteDone(k) \/ Exit(k) \/ MemoryLimit(k)

ClientStep ==
  \E c \in Conn : \/ Connect(c) \/ SendRun(c) \/ SendInterrupt(c)
                  \/ SendParallel(c) \/ Disconnect(c)

Next == (ServerStep \/ SystemStep \/ ClientStep) /\ UNCHANGED setup

Spec == Init /\ [][Next]_vars

\* The server is scheduled, an operation on a pipe whose client reads and writes
\* completes, a terminated prover ends.  That every prover ends (the client sets
\* a time limit) is an assumption of EveryRunAnswered only.
FairSpec ==
  /\ Spec
  /\ WF_vars(ServerStep)
  /\ \A k \in Key : /\ WF_vars(ReadDone(k))
                    /\ WF_vars(WriteDone(k))
                    /\ WF_vars(children[k] = "doomed" /\ Exit(k))

ProversEnd == \A k \in Key : WF_vars(Exit(k))

-----------------------------------------------------------------------------
(***************************************************************************)
(* Properties.                                                             *)
(***************************************************************************)
\* Type correctness; keys that were not generated yet name nothing.
TypeOK ==
  /\ parallel \in Nat \ {0}
  /\ gen_key \in Nat
  /\ server_key \in [Slot -> Key]
  /\ clients \in [Key -> Client \cup {None}]
  /\ processes \in [Key -> Process \cup {None}]
  /\ queue \in Seq(Request)
  /\ pc \in {"schedule", "wait", "down", "undefined"}
  /\ pipe \in [Conn -> Seq(Line)]
  /\ peer \in [Key -> Conn \cup {None}]
  /\ children \in [Key -> {"none", "exit", "limit", "kill"} \cup Alive]
  /\ status \in [Conn -> {"new", "open", "closed"}]
  /\ delivered \in [Conn -> Seq(Answer)]
  /\ \A k \in Key : k >= gen_key => k \notin Connected \cup Running

\* README.server: S and F go to the client who sent the request.  Keys are never
\* used twice, so no answer reaches a client that came later.
AnswersToSender ==
  \A c \in Conn : \A i \in DOMAIN delivered[c] : delivered[c][i].owner = c

Posted(k, evs) == {i \in DOMAIN port : port[i].kind = "socket" /\ port[i].key = k
                                        /\ port[i].ev \in evs}

\* Every client has one read under way, and one write exactly when there is
\* something to write; a completed one has one packet.  So have_written finds
\* is_writing set (its assert), and the buffers are never used by two operations.
IoInFlight ==
  Up => \A k \in Connected :
    LET c == clients[k]
    IN  /\ c.read # "none"
        /\ (c.out # << >>) <=> (c.write # "none")
        /\ Cardinality(Posted(k, {"read", "more", "broken"})) = IF c.read = "posted" THEN 1 ELSE 0
        /\ Cardinality(Posted(k, {"written", "unwritten"})) = IF c.write = "posted" THEN 1 ELSE 0

\* The answers of a connection that were written, then those that wait; the first
\* of these may be written already, its packet not yet handled.
Answers(c) ==
  LET ks == {k \in Connected : clients[k].conn = c}
      waiting(k) == IF clients[k].write = "posted" /\ Posted(k, {"written"}) # {}
                      THEN Tail(clients[k].out) ELSE clients[k].out
  IN  IF ks = {} THEN delivered[c] ELSE delivered[c] \o waiting(CHOOSE k \in ks : TRUE)

AnswerTo(c, id, kind, i) ==
  LET a == Answers(c)[i] IN a.owner = c /\ a.id = id /\ a.kind = kind

\* A run is answered by one S and then one F, although its job object reports the
\* end several times; only a process that could not be created has no S.
StartedThenFinished ==
  \A c \in Conn : \A i \in DOMAIN Answers(c) :
    LET a == Answers(c)[i]
    IN  a.owner = c =>
          /\ \A j \in DOMAIN Answers(c) : AnswerTo(c, a.id, a.kind, j) => j = i
          /\ a.kind = "F" => \/ a.cause = "nospawn"
                             \/ \E j \in 1 .. i - 1 : AnswerTo(c, a.id, "S", j)

\* Where the run request id of connection c is.
Places(c, id) ==
  LET IsRun(l) == l.cmd = "run" /\ l.arg = id
  IN  {<<"sent", i>> : i \in {j \in DOMAIN pipe[c] : IsRun(pipe[c][j])}}
      \cup {<<"posted", i>> : i \in {j \in DOMAIN port : /\ port[j].ev = "read"
                                                         /\ clients[port[j].key] # None
                                                         /\ clients[port[j].key].conn = c
                                                         /\ IsRun(port[j].line)}}
      \cup {<<"queued", i>> : i \in {j \in DOMAIN queue :
                                      queue[j].owner = c /\ queue[j].id = id}}
      \cup {<<"active", k>> : k \in {j \in Running :
                                      processes[j].owner = c /\ processes[j].task_id = id}}
      \cup {<<"answered", i>> : i \in {j \in DOMAIN Answers(c) : AnswerTo(c, id, "F", j)}}
      \cup (IF <<c, id>> \in cancelled THEN {<<"cancelled", 0>>} ELSE {})

\* No request of a connected client is lost or done twice.
RequestsConserved ==
  Up => \A c \in Conn : status[c] = "open" =>
          \A id \in 1 .. asked[c].run :
            \E p \in Places(c, id) : Places(c, id) = {p}

\* Every run is finally answered, unless an interrupt removed it from the queue, the
\* server is down, or a client left: handle_child_event keeps the process of a client it no longer
\* finds in the list, and its slot is never free again.
EveryRunAnswered ==
  ProversEnd => \A c \in Conn : \A id \in 1 .. MaxRun :
    (asked[c].run >= id) ~>
      \/ \E i \in DOMAIN delivered[c] :
           delivered[c][i].owner = c /\ delivered[c][i].id = id /\ delivered[c][i].kind = "F"
      \/ <<c, id>> \in cancelled
      \/ \E d \in Conn : status[d] = "closed"
      \/ ~ Up

(***************************************************************************)
(* What comments say and the code does not do.                             *)
(***************************************************************************)
\* server-win.c 462-464: the list of processes is cleaned up "when we get notified
\* of the end of the child process".
CleanedUpAfterExit ==
  pc = "wait" => \A k \in Running :
    children[k] \notin Alive =>
      \E i \in DOMAIN port : port[i].kind = "process" /\ port[i].key = k
=============================================================================
