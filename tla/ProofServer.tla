----------------------------- MODULE ProofServer ----------------------------
(***************************************************************************)
(* The proof server of src/src/server/server-unix.c: a single-threaded     *)
(* event loop that accepts clients on a socket, reads their requests,      *)
(* spawns at most `parallel' prover processes, queues the other requests,  *)
(* reaps terminated provers through the self-pipe trick and writes the     *)
(* answers back.                                                           *)
(*                                                                         *)
(* One action is one iteration of a loop of the code or one handler call;  *)
(* between two of them clients connect, send and disconnect, provers       *)
(* terminate and SIGCHLD is delivered.  Requests and answers are whole     *)
(* lines here: LineBuffer.tla shows how readbuf.c and handle_msg cut the   *)
(* byte stream into lines, WriteBuffer.tla how writebuf.c writes them, and *)
(* Queue.tla that the circular array of queue.c is the sequence `queue'.   *)
(***************************************************************************)
EXTENDS Integers, Sequences, FiniteSets

CONSTANTS
  Conn,           \* client connections, each made once
  MayClose,       \* the connections whose client may disconnect
  MaxRun,         \* run requests per connection, with ids 1 .. MaxRun
  MaxInterrupt,   \* interrupt requests per connection
  ParallelArgs,   \* arguments of `parallel' requests; 0 stands for a bad one
  MaxParallel,    \* `parallel' requests per connection
  Fd,             \* file descriptors the kernel may return from accept
  ListenFd,       \* server_sock
  PipeFd,         \* cpipe[0]
  NoFd,           \* -1, the fd of a removed entry of poll_list
  Pid,            \* process ids the kernel may return from fork
  ExitCauses,     \* how a prover may end by itself: "exit", "limit", "crash"
  PipeCap,        \* bytes the self-pipe holds before write returns EAGAIN
  InitParallel,   \* -j
  SingleClient,   \* --single-client
  None            \* no client in a slot of clients, no process under a pid

ASSUME ServerAssumption ==
  /\ MaxRun \in Nat /\ MaxInterrupt \in Nat /\ MaxParallel \in Nat
  /\ ParallelArgs \subseteq Nat
  /\ InitParallel \in Nat \ {0}
  /\ PipeCap \in Nat \ {0}
  /\ MayClose \subseteq Conn
  /\ IsFiniteSet(Pid)
  /\ ExitCauses \subseteq {"exit", "limit", "crash"}
  /\ SingleClient \in BOOLEAN
  /\ {ListenFd, PipeFd, NoFd} \cap Fd = {}
  /\ ListenFd # PipeFd /\ ListenFd # NoFd /\ PipeFd # NoFd

VARIABLES
  \* memory of the server
  parallel,       \* the global of options.c
  clients,        \* fd -> [conn, out]: the list `clients' and its write buffers
  poll_list,      \* sequence of [fd, pollout, revents]
  processes,      \* pid -> [task_id, client_key, owner]: the list `processes'
  queue,          \* requests [key, id, owner] waiting for a slot
  pc,             \* where the event loop is
  cur,            \* the client fd whose lines are being handled
  lines,          \* complete lines read from cur and not handled yet
  \* kernel
  backlog,        \* connections waiting for accept
  socket,         \* conn -> lines sent by the client and not read yet
  children,       \* pid -> state of the child process
  sigchld,        \* SIGCHLD is pending
  cpipe,          \* bytes in the self-pipe
  \* clients
  status,         \* conn -> "new", "open", "closed" or "reset"
  asked,          \* conn -> runs sent, ids interrupted, `parallel' lines sent
  delivered,      \* conn -> answers the server has written to the connection
  cancelled       \* <<conn, id>> taken out of the queue by an interrupt

server == <<parallel, clients, poll_list, processes, queue, pc, cur, lines>>
kernel == <<backlog, socket, children, sigchld, cpipe>>
clientSide == <<status, asked, delivered, cancelled>>
vars == <<server, kernel, clientSide>>

(***************************************************************************)
(* A request and a process carry, besides the fields of the code, the      *)
(* connection that sent them (owner).  No action reads it.                 *)
(***************************************************************************)
Line == [cmd : {"run", "interrupt", "parallel"}, arg : Nat]
Request == [key : Fd, id : Nat, owner : Conn]
Process == [task_id : Nat, client_key : Fd, owner : Conn]
Signals == {"limit", "crash", "kill"}
Answer == [kind : {"S", "F"}, id : Nat, timeout : BOOLEAN, cause : {"none", "exit"} \cup Signals,
           owner : Conn]
Events == SUBSET {"IN", "OUT", "ERR"}
Client == [conn : Conn, out : Seq(Answer)]
PollEntry == [fd : Fd \cup {ListenFd, PipeFd, NoFd}, pollout : BOOLEAN, revents : Events]

ASSUME NoneAssumption == None \notin Client /\ None \notin Process

Alive == {"running", "doomed"}     \* doomed: SIGKILL was sent
Zombie == {"exit"} \cup Signals    \* terminated, not reaped

Running == {p \in Pid : processes[p] # None}       \* the list `processes'
Connected == {fd \in Fd : clients[fd] # None}      \* the list `clients'
list_length_processes == Cardinality(Running)

Entry(fd, pollout, revents) == [fd |-> fd, pollout |-> pollout, revents |-> revents]

Init ==
  /\ parallel = InitParallel
  /\ clients = [fd \in Fd |-> None]
  /\ poll_list = <<Entry(ListenFd, FALSE, {}), Entry(PipeFd, FALSE, {})>>
  /\ processes = [p \in Pid |-> None]
  /\ queue = << >>
  /\ pc = "schedule"
  /\ cur = NoFd
  /\ lines = << >>
  /\ backlog = << >>
  /\ socket = [c \in Conn |-> << >>]
  /\ children = [p \in Pid |-> "none"]
  /\ sigchld = FALSE
  /\ cpipe = 0
  /\ status = [c \in Conn |-> "new"]
  /\ asked = [c \in Conn |-> [run |-> 0, interrupt |-> {}, parallel |-> 0]]
  /\ delivered = [c \in Conn |-> << >>]
  /\ cancelled = {}

-----------------------------------------------------------------------------
(***************************************************************************)
(* Helpers of the handlers.                                                *)
(***************************************************************************)
Started(id, owner) ==
  [kind |-> "S", id |-> id, timeout |-> FALSE, cause |-> "none", owner |-> owner]

\* handle_child_events 447-452: any death by a signal is reported as a timeout.
Finished(proc, cause) ==
  [kind |-> "F", id |-> proc.task_id, timeout |-> cause \in Signals,
   cause |-> cause, owner |-> proc.owner]

\* Faulty variant: the newest answer is written first.
PushWriteFront(fd, msg) == [clients EXCEPT ![fd].out = <<msg>> \o @]

\* queue_write: append to the write buffer and ask poll for POLLOUT.
PushWrite(fd, msg) == [clients EXCEPT ![fd].out = Append(@, msg)]

\* Faulty variant: queue_write does not ask for POLLOUT.
WantNothing(pl, fd, b) == pl

WantOut(pl, fd, b) ==
  [k \in DOMAIN pl |-> IF pl[k].fd = fd THEN [pl[k] EXCEPT !.pollout = b] ELSE pl[k]]

queue_write(pl, fd, msg) ==
  /\ clients' = PushWrite(fd, msg)
  /\ poll_list' = WantOut(pl, fd, TRUE)

\* The loop of main goes over the entries in order; an entry it has handled is
\* marked by empty revents (poll overwrites revents in the next round).
Ready == {k \in DOMAIN poll_list : poll_list[k].revents # {}}

IsNext(k) == k \in Ready /\ \A j \in Ready : k <= j

Handled(k) == [poll_list EXCEPT ![k].revents = {}]

FreePid == {p \in Pid : children[p] = "none"}

\* run_request: nothing for a request whose client is gone; otherwise fork (which
\* shuts the server down when it fails), record the process, announce it.
run_request(r) ==
  \/ /\ clients[r.key] = None
     /\ UNCHANGED <<processes, children, clients, poll_list, pc>>
  \/ /\ clients[r.key] # None
     /\ FreePid = {}
     /\ pc' = "down"
     /\ UNCHANGED <<processes, children, clients, poll_list>>
  \/ /\ clients[r.key] # None
     /\ \E pid \in FreePid :
          /\ children' = [children EXCEPT ![pid] = "running"]
          /\ processes' = [processes EXCEPT ![pid] =
               [task_id |-> r.id, client_key |-> r.key, owner |-> r.owner]]
     /\ queue_write(poll_list, r.key, Started(r.id, r.owner))
     /\ UNCHANGED pc

-----------------------------------------------------------------------------
(***************************************************************************)
(* The event loop of main.                                                 *)
(***************************************************************************)

\* One iteration of schedule_new_jobs, or its exit.
schedule_new_jobs ==
  /\ pc = "schedule"
  /\ IF list_length_processes < parallel /\ queue # << >>
       THEN /\ queue' = Tail(queue)
            /\ run_request(Head(queue))
            /\ UNCHANGED <<parallel, cur, lines, backlog, socket, sigchld, cpipe, clientSide>>
       ELSE /\ pc' = "clean"
            /\ UNCHANGED <<parallel, clients, poll_list, processes, queue, cur, lines,
                           kernel, clientSide>>

\* One iteration of poll_list_clean that removes an entry, or its exit.
poll_list_clean ==
  /\ pc = "clean"
  /\ LET Removed == {k \in DOMAIN poll_list : poll_list[k].fd = NoFd}
         last == Len(poll_list)
     IN  \/ /\ Removed = {}
            /\ pc' = "poll"
            /\ UNCHANGED poll_list
         \/ \E k \in Removed :
              /\ \A j \in Removed : k <= j
              /\ poll_list' = [j \in 1 .. last - 1 |->
                                 IF j = k THEN poll_list[last] ELSE poll_list[j]]
              /\ UNCHANGED pc
  /\ UNCHANGED <<parallel, clients, processes, queue, cur, lines, kernel, clientSide>>

\* What poll reports for an entry.  A client whose peer is gone is readable
\* (end of file); it is in error when the peer left answers unread.
ClientEvents(e) ==
  LET c == clients[e.fd].conn
  IN  (IF socket[c] # << >> \/ status[c] # "open" THEN {"IN"} ELSE {})
      \cup (IF e.pollout THEN {"OUT"} ELSE {})
      \cup (IF status[c] = "reset" THEN {"ERR"} ELSE {})

PollEvents(e) ==
  CASE e.fd = ListenFd -> IF backlog # << >> THEN {"IN"} ELSE {}
    [] e.fd = PipeFd   -> IF cpipe > 0 THEN {"IN"} ELSE {}
    [] OTHER           -> ClientEvents(e)

\* poll returns when some entry has an event, and is retried on EINTR.
poll ==
  /\ pc = "poll"
  /\ \E k \in DOMAIN poll_list : PollEvents(poll_list[k]) # {}
  /\ poll_list' = [k \in DOMAIN poll_list |->
                     [poll_list[k] EXCEPT !.revents = PollEvents(poll_list[k])]]
  /\ pc' = "dispatch"
  /\ UNCHANGED <<parallel, clients, processes, queue, cur, lines, kernel, clientSide>>

\* Faulty variant: new jobs are not scheduled in every round.
EndWithoutSchedule ==
  /\ pc = "dispatch"
  /\ Ready = {}
  /\ pc' = "clean"
  /\ UNCHANGED <<parallel, clients, poll_list, processes, queue, cur, lines,
                 kernel, clientSide>>

\* The for loop of main is over.
EndOfRound ==
  /\ pc = "dispatch"
  /\ Ready = {}
  /\ pc' = "schedule"
  /\ UNCHANGED <<parallel, clients, poll_list, processes, queue, cur, lines,
                 kernel, clientSide>>

server_accept_client ==
  /\ pc = "dispatch"
  /\ \E k \in Ready :
       /\ IsNext(k)
       /\ poll_list[k].fd = ListenFd
       /\ \/ \E fd \in Fd \ Connected :
               /\ clients' = [clients EXCEPT ![fd] = [conn |-> Head(backlog), out |-> << >>]]
               /\ poll_list' = Append(Handled(k), Entry(fd, FALSE, {}))
               /\ backlog' = Tail(backlog)
               /\ UNCHANGED pc
          \/ /\ Connected = Fd             \* accept fails: no descriptor is left
             /\ pc' = "down"
             /\ UNCHANGED <<clients, poll_list, backlog>>
  /\ UNCHANGED <<parallel, processes, queue, cur, lines,
                 socket, children, sigchld, cpipe, clientSide>>

\* A byte is read from the self-pipe and handle_child_events is entered.
child_event ==
  /\ pc = "dispatch"
  /\ \E k \in Ready :
       /\ IsNext(k)
       /\ poll_list[k].fd = PipeFd
       /\ poll_list' = Handled(k)
  /\ cpipe' = cpipe - 1
  /\ pc' = "reap"
  /\ UNCHANGED <<parallel, clients, processes, queue, cur, lines,
                 backlog, socket, children, sigchld, clientSide>>

\* One iteration of the wait3 loop: reap one terminated child, answer its client.
Reap(pid) ==
  LET proc == processes[pid]
      fd == proc.client_key
  IN  /\ pc = "reap"
      /\ children[pid] \in Zombie
      /\ children' = [children EXCEPT ![pid] = "none"]
      /\ processes' = [processes EXCEPT ![pid] = None]
      /\ IF clients[fd] # None
           THEN queue_write(poll_list, fd, Finished(proc, children[pid]))
           ELSE UNCHANGED <<clients, poll_list>>
      /\ UNCHANGED <<parallel, queue, pc, cur, lines, backlog, socket, sigchld, cpipe,
                     clientSide>>

\* Faulty variant: one byte of the pipe is taken for one terminated child.
ReapEnough ==
  /\ pc = "reap"
  /\ pc' = "dispatch"
  /\ UNCHANGED <<parallel, clients, poll_list, processes, queue, cur, lines,
                 kernel, clientSide>>

\* wait3 finds no terminated child.
ReapDone ==
  /\ pc = "reap"
  /\ \A p \in Pid : children[p] \notin Zombie
  /\ pc' = "dispatch"
  /\ UNCHANGED <<parallel, clients, poll_list, processes, queue, cur, lines,
                 kernel, clientSide>>

handle_child_events ==
  (\E pid \in Pid : Reap(pid)) \/ ReapDone

\* Faulty variant: poll_list_remove leaves the events of the entry.
CloseKeepsEvents(k, fd) ==
  /\ clients' = [clients EXCEPT ![fd] = None]
  /\ poll_list' = [poll_list EXCEPT ![k] = Entry(NoFd, @.pollout, @.revents)]
  /\ pc' = IF SingleClient /\ Connected = {fd} THEN "down" ELSE pc

\* close_client; the last client of a --single-client server shuts it down.
close_client(k, fd) ==
  /\ clients' = [clients EXCEPT ![fd] = None]
  /\ poll_list' = [poll_list EXCEPT ![k] = Entry(NoFd, @.pollout, {})]
  /\ pc' = IF SingleClient /\ Connected = {fd} THEN "down" ELSE pc

\* POLLERR: close_client.
client_error ==
  /\ pc = "dispatch"
  /\ \E k \in Ready :
       /\ IsNext(k)
       /\ poll_list[k].fd \in Connected
       /\ "ERR" \in poll_list[k].revents
       /\ close_client(k, poll_list[k].fd)
  /\ UNCHANGED <<parallel, processes, queue, cur, lines, kernel, clientSide>>

\* Faulty variant: POLLOUT is cleared after every write.
NothingLeft(out) == TRUE

\* write_to_client clears POLLOUT when have_written finds the queue empty.
AllWritten(out) == Tail(out) = << >>

\* POLLOUT without POLLERR: write the oldest answer.  SIGPIPE is not handled: a
\* write to a client that has gone meanwhile ends the server.
write_to_client ==
  /\ pc = "dispatch"
  /\ \E k \in Ready :
       LET fd == poll_list[k].fd
           c == clients[fd].conn
           out == clients[fd].out
       IN  /\ IsNext(k)
           /\ fd \in Connected
           /\ "ERR" \notin poll_list[k].revents
           /\ "OUT" \in poll_list[k].revents
           /\ \/ /\ status[c] = "open"
                 /\ delivered' = [delivered EXCEPT ![c] = Append(@, Head(out))]
                 /\ clients' = [clients EXCEPT ![fd].out = Tail(@)]
                 /\ poll_list' = [Handled(k) EXCEPT ![k].pollout = ~ AllWritten(out)]
                 /\ UNCHANGED pc
              \/ /\ status[c] # "open"
                 /\ pc' = "killed"
                 /\ UNCHANGED <<delivered, clients, poll_list>>
  /\ UNCHANGED <<parallel, processes, queue, cur, lines, kernel, status, asked, cancelled>>

\* POLLIN alone: read_on_client reads some of the lines sent, or sees the end of
\* the stream.  The first read after a reset only reports (and clears) the error.
read_on_client ==
  /\ pc = "dispatch"
  /\ \E k \in Ready :
       LET fd == poll_list[k].fd
           c == clients[fd].conn
       IN  /\ IsNext(k)
           /\ fd \in Connected
           /\ poll_list[k].revents = {"IN"}
           /\ \/ \E n \in 1 .. Len(socket[c]) :
                   /\ lines' = SubSeq(socket[c], 1, n)
                   /\ socket' = [socket EXCEPT ![c] = SubSeq(@, n + 1, Len(@))]
                   /\ cur' = fd
                   /\ poll_list' = Handled(k)
                   /\ pc' = "lines"
                   /\ UNCHANGED <<clients, status>>
              \/ /\ socket[c] = << >>
                 /\ status[c] = "closed"
                 /\ close_client(k, fd)
                 /\ UNCHANGED <<lines, socket, cur, status>>
              \/ /\ socket[c] = << >>
                 /\ status[c] = "reset"
                 /\ status' = [status EXCEPT ![c] = "closed"]
                 /\ poll_list' = Handled(k)
                 /\ UNCHANGED <<lines, socket, cur, clients, pc>>
  /\ UNCHANGED <<parallel, processes, queue, backlog, children, sigchld, cpipe,
                 asked, delivered, cancelled>>

\* parse_request: a `parallel' line with an argument of at least 1.
set_parallel(n) ==
  /\ parallel' = IF n >= 1 THEN n ELSE parallel
  /\ UNCHANGED <<processes, children, clients, poll_list, queue, cancelled, pc>>

\* Faulty variant: the request is queued also when it was run.
RunAndQueue(r) ==
  /\ queue' = Append(queue, r)
  /\ IF list_length_processes < parallel
       THEN run_request(r)
       ELSE UNCHANGED <<processes, children, clients, poll_list, pc>>
  /\ UNCHANGED <<parallel, cancelled>>

\* REQ_RUN of handle_msg.
handle_run(r) ==
  /\ IF list_length_processes < parallel
       THEN run_request(r) /\ UNCHANGED queue
       ELSE /\ queue' = Append(queue, r)
            /\ UNCHANGED <<processes, children, clients, poll_list, pc>>
  /\ UNCHANGED <<parallel, cancelled>>

\* Faulty variant: the queue is not refilled.
RemoveEverything(id) == queue' = << >>

\* remove_from_queue empties the queue into a second one and refills it: the
\* requests with another id stay, in the order they had.
remove_from_queue(id) ==
  LET kept == {k \in DOMAIN queue : queue[k].id # id}
  IN  \E n \in 0 .. Len(queue) : \E from \in [1 .. n -> kept] :
        /\ \A i, j \in 1 .. n : i < j => from[i] < from[j]
        /\ \A k \in kept : \E i \in 1 .. n : from[i] = k
        /\ queue' = [i \in 1 .. n |-> queue[from[i]]]

\* Faulty variant: an interrupt only concerns the queue.
KillNothing(id) == children

\* kill_processes: SIGKILL to every process of the list with that id.
kill_processes(id) ==
  [p \in Pid |-> IF /\ processes[p] # None
                    /\ processes[p].task_id = id
                    /\ children[p] = "running"
                   THEN "doomed" ELSE children[p]]

\* REQ_INTERRUPT of handle_msg.
handle_interrupt(id) ==
  /\ remove_from_queue(id)
  /\ children' = kill_processes(id)
  /\ cancelled' = cancelled \cup
       {<<queue[i].owner, id>> : i \in {j \in DOMAIN queue : queue[j].id = id}}
  /\ UNCHANGED <<parallel, processes, clients, poll_list, pc>>

\* One iteration of handle_msg: parse a line and carry out its request.
handle_msg ==
  /\ pc = "lines"
  /\ lines # << >>
  /\ LET l == Head(lines)
         r == [key |-> cur, id |-> l.arg, owner |-> clients[cur].conn]
     IN  \/ l.cmd = "parallel" /\ set_parallel(l.arg)
         \/ l.cmd = "run" /\ handle_run(r)
         \/ l.cmd = "interrupt" /\ handle_interrupt(l.arg)
  /\ lines' = Tail(lines)
  /\ UNCHANGED <<cur, backlog, socket, sigchld, cpipe, status, asked, delivered>>

\* handle_msg has reached the end of the buffer.
EndOfLines ==
  /\ pc = "lines"
  /\ lines = << >>
  /\ pc' = "dispatch"
  /\ cur' = NoFd
  /\ UNCHANGED <<parallel, clients, poll_list, processes, queue, lines, kernel, clientSide>>

ServerStep ==
  \/ schedule_new_jobs
  \/ poll_list_clean
  \/ poll
  \/ EndOfRound
  \/ server_accept_client
  \/ child_event
  \/ handle_child_events
  \/ client_error
  \/ write_to_client
  \/ read_on_client
  \/ handle_msg
  \/ EndOfLines

-----------------------------------------------------------------------------
(***************************************************************************)
(* The kernel and the clients.  The model ends with the server process.    *)
(***************************************************************************)
Up == pc \notin {"down", "killed"}

\* A prover terminates: by itself, or because it was killed.
Exit(pid) ==
  /\ Up
  /\ children[pid] \in Alive
  /\ \E cause \in ExitCauses \cup (IF children[pid] = "doomed" THEN {"kill"} ELSE {}) :
       children' = [children EXCEPT ![pid] = cause]
  /\ sigchld' = TRUE
  /\ UNCHANGED <<server, backlog, socket, cpipe, clientSide>>

\* The handler runs at any point of the loop.  Pending signals have merged into
\* one, and a byte that does not fit into the pipe is dropped (EAGAIN).
sigchld_handle ==
  /\ Up
  /\ sigchld
  /\ sigchld' = FALSE
  /\ cpipe' = IF cpipe < PipeCap THEN cpipe + 1 ELSE cpipe
  /\ UNCHANGED <<server, backlog, socket, children, clientSide>>

Connect(c) ==
  /\ Up
  /\ status[c] = "new"
  /\ status' = [status EXCEPT ![c] = "open"]
  /\ backlog' = Append(backlog, c)
  /\ UNCHANGED <<server, socket, children, sigchld, cpipe, asked, delivered, cancelled>>

Send(c, cmd, arg) ==
  /\ Up
  /\ status[c] = "open"
  /\ socket' = [socket EXCEPT ![c] = Append(@, [cmd |-> cmd, arg |-> arg])]
  /\ UNCHANGED <<server, backlog, children, sigchld, cpipe, status, delivered, cancelled>>

\* A client numbers its requests from 1 (gen_id of call_provers.ml counts too).
SendRun(c) ==
  /\ asked[c].run < MaxRun
  /\ asked' = [asked EXCEPT ![c].run = @ + 1]
  /\ Send(c, "run", asked[c].run + 1)

SendInterrupt(c) ==
  /\ Cardinality(asked[c].interrupt) < MaxInterrupt
  /\ \E id \in 1 .. asked[c].run :
       /\ id \notin asked[c].interrupt
       /\ asked' = [asked EXCEPT ![c].interrupt = @ \cup {id}]
       /\ Send(c, "interrupt", id)

SendParallel(c) ==
  /\ asked[c].parallel < MaxParallel
  /\ asked' = [asked EXCEPT ![c].parallel = @ + 1]
  /\ \E n \in ParallelArgs : Send(c, "parallel", n)

\* The client closes its end, having read every answer or not.
Disconnect(c) ==
  /\ Up
  /\ c \in MayClose
  /\ status[c] = "open"
  /\ \/ status' = [status EXCEPT ![c] = "closed"]
     \/ /\ delivered[c] # << >>
        /\ status' = [status EXCEPT ![c] = "reset"]
  /\ UNCHANGED <<server, kernel, asked, delivered, cancelled>>

ClientStep ==
  \E c \in Conn : \/ Connect(c)
                  \/ SendRun(c)
                  \/ SendInterrupt(c)
                  \/ SendParallel(c)
                  \/ Disconnect(c)

Next ==
  \/ ServerStep
  \/ \E pid \in Pid : Exit(pid)
  \/ sigchld_handle
  \/ ClientStep

Spec == Init /\ [][Next]_vars

(***************************************************************************)
(* The server process and signal delivery are scheduled, and a killed      *)
(* prover ends.  Every prover ends when the client sets a time limit       *)
(* (RLIMIT_CPU, lines 323-329): an assumption of EveryRunAnswered only.    *)
(***************************************************************************)
ServerFairness ==
  /\ WF_vars(ServerStep)
  /\ WF_vars(sigchld_handle)
  /\ \A pid \in Pid : WF_vars(children[pid] = "doomed" /\ Exit(pid))

FairSpec == Spec /\ ServerFairness

ProversEnd == \A pid \in Pid : WF_vars(Exit(pid))

-----------------------------------------------------------------------------
(***************************************************************************)
(* Properties.                                                             *)
(***************************************************************************)
\* Type correctness of the state of the loop, the kernel and the clients.
TypeOK ==
  /\ parallel \in Nat \ {0}
  /\ clients \in [Fd -> Client \cup {None}]
  /\ poll_list \in Seq(PollEntry)
  /\ processes \in [Pid -> Process \cup {None}]
  /\ queue \in Seq(Request)
  /\ pc \in {"schedule", "clean", "poll", "dispatch", "reap", "lines", "down", "killed"}
  /\ cur \in Fd \cup {NoFd}
  /\ lines \in Seq(Line)
  /\ backlog \in Seq(Conn)
  /\ socket \in [Conn -> Seq(Line)]
  /\ children \in [Pid -> {"none"} \cup Alive \cup Zombie]
  /\ sigchld \in BOOLEAN
  /\ cpipe \in 0 .. PipeCap
  /\ status \in [Conn -> {"new", "open", "closed", "reset"}]
  /\ asked \in [Conn -> [run : Nat, interrupt : SUBSET Nat, parallel : Nat]]
  /\ delivered \in [Conn -> Seq(Answer)]
  /\ cancelled \subseteq Conn \X Nat

\* The list `processes' holds exactly the children not reaped yet: the lookup of
\* handle_child_events (lines 453-455) never dereferences NULL.
ProcessesAreChildren ==
  \A p \in Pid : (processes[p] # None) <=> (children[p] # "none")

\* A terminated prover is never forgotten, although signals merge and bytes are
\* dropped: SIGCHLD is pending, or the pipe has a byte, or the wait3 loop runs.
NoLostChild ==
  (\E p \in Pid : children[p] \in Zombie) => sigchld \/ cpipe > 0 \/ pc = "reap"

\* Every connected client is polled through exactly one entry, which asks for
\* POLLOUT exactly when answers wait for the client, and no entry outlives one.
PollListOK ==
  /\ \A fd \in Connected : \E k \in DOMAIN poll_list :
       /\ poll_list[k].fd = fd
       /\ poll_list[k].pollout <=> (clients[fd].out # << >>)
  /\ \A j, k \in DOMAIN poll_list :
       poll_list[j].fd = poll_list[k].fd /\ poll_list[j].fd # NoFd => j = k
  /\ \A k \in DOMAIN poll_list : poll_list[k].fd \in Fd => poll_list[k].fd \in Connected

\* What the loop of main relies on while it goes over the events of a round: they
\* are still true of the entries not handled yet, whatever happened since poll.
EventsStillHold ==
  /\ \A k \in Ready :
       LET e == poll_list[k]
       IN  /\ pc \notin {"schedule", "clean", "poll"}
           /\ e.fd # NoFd
           /\ e.fd = PipeFd => cpipe > 0
           /\ e.fd = ListenFd => backlog # << >>
           /\ e.fd \in Fd /\ "OUT" \in e.revents => e.pollout
  /\ pc = "poll" => \A k \in DOMAIN poll_list : poll_list[k].fd # NoFd
  /\ pc = "lines" => cur \in Connected

\* The server never blocks in poll with a request waiting and a slot free.
NoIdleSlot ==
  pc = "poll" /\ queue # << >> => list_length_processes >= parallel

\* The answers of a connection: written to it, then waiting in its buffer.
Buffered(c) ==
  LET fds == {fd \in Connected : clients[fd].conn = c}
  IN  IF fds = {} THEN << >> ELSE clients[CHOOSE fd \in fds : TRUE].out

Answers(c) == delivered[c] \o Buffered(c)

AnswerTo(c, id, kind, k) ==
  LET a == Answers(c)[k] IN a.owner = c /\ a.id = id /\ a.kind = kind

\* The answers to a run are one S and then at most one F, whatever the order of
\* terminations, interrupts and rescheduling.
StartedThenFinished ==
  \A c \in Conn : \A k \in DOMAIN Answers(c) :
    LET a == Answers(c)[k]
    IN  a.owner = c =>
          /\ \A j \in DOMAIN Answers(c) : AnswerTo(c, a.id, a.kind, j) => j = k
          /\ a.kind = "F" => \E j \in 1 .. k - 1 : AnswerTo(c, a.id, "S", j)

\* Where the run request id of connection c is.
Places(c, id) ==
  LET run == [cmd |-> "run", arg |-> id]
  IN  {<<"sent", k>> : k \in {j \in DOMAIN socket[c] : socket[c][j] = run}}
      \cup {<<"read", k>> : k \in {j \in DOMAIN lines :
                                    clients[cur].conn = c /\ lines[j] = run}}
      \cup {<<"queued", k>> : k \in {j \in DOMAIN queue :
                                      queue[j].owner = c /\ queue[j].id = id}}
      \cup {<<"active", p>> : p \in {q \in Running :
                                      processes[q].owner = c /\ processes[q].task_id = id}}
      \cup {<<"answered", k>> : k \in {j \in DOMAIN Answers(c) : AnswerTo(c, id, "F", j)}}
      \cup (IF <<c, id>> \in cancelled THEN {<<"cancelled", 0>>} ELSE {})

\* No request of a connected client is lost or duplicated: it is on its way, in
\* the queue, running, answered, or an interrupt took it out of the queue.
RequestsConserved ==
  Up => \A c \in Conn : status[c] = "open" =>
          \A id \in 1 .. asked[c].run :
            \E p \in Places(c, id) : Places(c, id) = {p}

FinishedWritten(c, id) ==
  \E k \in DOMAIN delivered[c] :
    delivered[c][k].owner = c /\ delivered[c][k].id = id /\ delivered[c][k].kind = "F"

\* Every run of a client that stays connected is finally answered, provided provers
\* end, unless an interrupt removed it from the queue or the server was killed by
\* the SIGPIPE of a write to another client, one that left after poll.
EveryRunAnswered ==
  ProversEnd => \A c \in Conn \ MayClose : \A id \in 1 .. MaxRun :
    (asked[c].run >= id) ~>
      (FinishedWritten(c, id) \/ <<c, id>> \in cancelled \/ pc = "killed")

\* A run its client interrupts is finally neither queued nor running, for good,
\* even when provers never stop by themselves, unless the server ends
\* or the client leaves before (client_error drops what it has sent).
InterruptStops ==
  \A c \in Conn : \A id \in 1 .. MaxRun :
    (id \in asked[c].interrupt /\ status[c] = "open")
      ~> \/ ~ Up \/ status[c] # "open"
         \/ [](/\ \A k \in DOMAIN queue : ~ (queue[k].owner = c /\ queue[k].id = id)
               /\ \A p \in Running : ~ (processes[p].owner = c /\ processes[p].task_id = id))

(***************************************************************************)
(* What README.server says and the code does not do.                       *)
(***************************************************************************)
\* README.server: S and F go to the client who sent the `run' request.
AnswersToSender ==
  \A c \in Conn : \A k \in DOMAIN delivered[c] : delivered[c][k].owner = c
=============================================================================
