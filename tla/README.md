# A verification of the Why3 proof server, its clients and mini-gmp

Why3 discharges proof obligations by running external provers. It does not spawn them
itself: a small C program, `why3server` (`src/src/server/`), accepts requests on a
socket, runs at most `parallel` provers at a time and reports when each one starts and
ends. The OCaml side (`src/src/driver/`, `src/src/session/`) sends the requests, reads
the answers and updates the proof session. The repository also ships `mini-gmp`
(`src/examples/multiprecision/mini-gmp/`), a C library of integers of any size that its
verified multiprecision library is compared with. This directory holds TLA+ models of
the server with its data structures, of the wrappers that limit provers, of the client
library, of the controller with its session, and of `mini-gmp`, with TLC configurations
and TLAPS proofs.

## 1. The system

| part | source | role |
|---|---|---|
| proof server, Unix | `server-unix.c` | one thread around `poll`: accept, read requests, spawn, reap, answer |
| proof server, Windows | `server-win.c` | one thread around an I/O completion port, named pipes, job objects |
| request queue | `queue.c` | growing circular array of requests that wait for a slot |
| association lists | `arraylist.c` | clients by descriptor, processes by process id |
| write buffers | `writebuf.c` | per client, answers that are written piece by piece |
| read buffers | `readbuf.c`, `handle_msg` | per client, bytes cut into request lines |
| requests | `request.c` | parsing, `parallel`, removal of interrupted requests |
| processes | `proc.c` | killing by request id |
| `why3cpulimit` | `cpulimit-unix.c`, `cpulimit-win.c` | wrapper with CPU, memory and wall-clock limits |
| options, logging | `options.c`, `logging.c` | start parameters, diagnostics |
| prover calls | `prove_client.ml`, `call_provers.ml` | requests, answers, updates for callers |
| controller, schedulers | `controller_itp.ml`, `unix_scheduler.ml`, `strategy.ml` | proof attempts, editors, strategies, replay, bisection |
| session | `session_itp.ml` | tree of goals with proved flags, merging, saving |
| `mini-gmp` | `examples/multiprecision/mini-gmp/` | integers of any size: limbs (`mpn_`), signed integers (`mpz_`) |
| ITP server, front ends | `itp_server.ml`, `ide/` | requests and notifications of a user interface |
| logic | `core/`, `mlw/`, `parser/`, `transform/`, `printer/`, `extract/`, `infer/` | sequential functions on terms and programs |

How they interact: a caller of `call_provers.ml` allocates an id, remembers the
call in `saved_data` and sends `run;id;...`. The server reads the bytes into a read
buffer, cuts out the line and parses it, and either spawns the prover at once or
pushes the request on the queue. A spawned prover is announced by `S;id`; when it
ends, SIGCHLD writes a byte into a pipe the loop polls, the loop reaps all children
that have ended and queues `F;id;...` on the write buffer of the client, looked up
by the descriptor the request came from. The client collects the answers into
lines, then into updates, and hands these to whoever polls or waits. `interrupt;id`
removes requests from the queue and kills processes with that id; `parallel;n`
changes the number of slots. The controller keeps the attempts that wait in
`scheduled_proof_attempts` and those given to the client library in
`prover_tasks_in_progress`; an idle handler moves them from the first to the second, a
timeout handler fetches updates and calls the callback of the attempt, which changes the
session and recomputes the proved flags upwards. `mini-gmp` is a library of its own: the
`mpz_` functions manage memory, sizes and signs and call `mpn_` functions on blocks of
limbs.

## 2. Modules

| module | models | checked by |
|---|---|---|
| `Queue` | `queue.c` with unsigned arithmetic (modulus `UIntMod`) | `MCParts`; proofs in `QueueProofs` |
| `Fifo` | abstract first-in first-out queue | refined by `Queue` and `WriteBuffer` |
| `ArrayList` | `arraylist.c` | `MCParts` |
| `Table` | abstract finite map | refined by `ArrayList` |
| `WriteBuffer` | `writebuf.c` | through `Connection` |
| `LineBuffer` | `readbuf.c` with `read_on_client` and `handle_msg` of `server-unix.c` | through `Connection` |
| `Connection` | one client with both buffers: lines in, answers out | `MCConnection` |
| `Request` | `request.c` and the encoders of `prove_client.ml` | `MCParts` |
| `ProofServer` | `server-unix.c`, `proc.c`, `remove_from_queue` | `MCProofServer`; proofs in `ProofServerProofs` and the six modules it extends (section 5) |
| `ProofServerWin` | `server-win.c` | `MCProofServerWin` |
| `CpuLimit`, `CpuLimitWin` | `cpulimit-unix.c`, `cpulimit-win.c` | `MCParts` |
| `CallProvers` | `prove_client.ml`, `call_provers.ml` | `MCClient` |
| `Session` | the tree and its proved flags in `session_itp.ml` | through `Controller` |
| `Controller` | `controller_itp.ml` as `itp_server.ml` uses it | `MCClient`, `MCController` |
| `Limb` | the macros of `mini-gmp.c` on one or two limbs, reciprocals | through `MpnCalls` |
| `Mpn`, `MpnDiv`, `MpnStr` | the `mpn_` functions: linear, multiplication, shifts; division; digits | `MCMpn` (`MpnCalls`) |
| `Mpz`, `MpzDiv`, `MpzBits`, `MpzGcd`, `MpzPower` | the `mpz_` functions | `MCMpz` (`MpzCalls`) |
| `MpzStr`, `MpzPrime` | text, words; primality | `MCMpn` (`MpnCalls`) |
| `IntRegs` | abstract bank of integers | refined by `MpzCalls` |

Definitions that start with a comment `Faulty variant` are not part of a model. Each
is a plausible mistake in the definition after it; replacing that definition by the
variant makes TLC report a named property, which shows that the property depends on
the code.

**ProofServer.** `clients`, `poll_list`, `processes`, `queue`, `parallel` are the
variables of the program of the same names; write buffers are sequences of answers
(`WriteBuffer` justifies that), the queue is a sequence (`Queue`), requests are whole
lines (`LineBuffer`, `Request`). `pc` says where the loop is: `schedule` and `clean`
before `poll`, `dispatch` in the loop over the entries, `reap` in the loop of
`handle_child_events`, `lines` in the loop of `handle_msg`. One action is one turn of
a loop or one handler with everything it calls; between them clients and the kernel
act: connections arrive, requests are sent, sockets are closed, provers end, SIGCHLD
is delivered (pending signals merge) and writes into a full pipe are dropped.
`owner`, `asked`, `delivered` and `cancelled` are history that the properties use and
no guard of the server reads. Descriptors and process ids are reused as the kernel
does: any that is free.

**Connection.** Composes `LineBuffer` and an instance of `WriteBuffer`: handling a line
pushes its started message, and the finished message is pushed at any later moment
between two rounds, also in the middle of a partial write. `have_taken` moves the rest
of the read buffer with `memcpy` although the regions may overlap, which is undefined
behaviour; the constant `CopyOrders` says in which order the C library copies.

**ProofServerWin.** `port` is the sequence of completion packets. `read` and `write`
of a client say whether an operation is pending, posted or failed. Win32 is
environment: reads may deliver part of a long message, a job may send several
messages for one process.

**CpuLimit.** The wrapper and its child. The alarm is set to `2 * timelimit + 60`
seconds, so the model lets it ring only once the wrapper waits; the command may end,
or block without using CPU time, at any moment.

**CpuLimitWin.** `main` is one action per Win32 call, each of which may fail; the
console handler is a second thread, one action per call as well. The command is created
suspended, put into the job and resumed; handles that the handler has closed are invalid
for `main`. The exit code variable is undefined until it is written (`Garbage`).

**CallProvers.** A line travels as two pieces, so that a read may end inside it; each
read is one action, as the server may write between two reads. `program` says which
functions the caller uses (the schedulers poll, blocking or not; `why3 prove` waits) and
what may go wrong: answers to another client, or the death of the server. A garbled line
and an answer without saved data raise an exception, which throws away the whole batch.

**Session and Controller.** Everything runs in one thread and callbacks run inside the
handler that calls them, so the memory is one record `c` and each OCaml function is an
operator from records to records; an action is one request of the user or one turn of a
handler. The tree is given by constants (`On`, `Subs`: the goal of a transformation and
its sub-goals); which transformations are applied is state, and a transformation that is
applied again uses its names again, once no job refers to them (`Free`). `told` records
what the callback of each job heard. `controller_running_proof_attempts` counts bindings,
since `Hpan.add` hides an older one. Exceptions that leave a handler end the behaviour
(`raised`), because the scheduler then drops the handler. A situation (`Setups`) fixes
which requests the user makes and what was loaded.

**mini-gmp.** Memory `m` maps a block to its limbs, a pointer is a block with an offset,
and every C function is an operator from memory to memory and result, loop by loop, so
that overlapping operands and the direction of a loop matter. Limbs have `LimbBits` bits
and wrap around. An `mpz_t` has its block, allocation and signed size. Stale limbs above
the size stay, and reallocation keeps what the code keeps. A read outside a block, or of
a limb never written, stops TLC; a write outside is recorded (`overrun`), and the
properties exclude it. A sequence of C statements is a chain of `Then(state, LAMBDA ...)`,
each link the state after one of them. `MpnCalls` makes one
call on fresh memory and compares it with integer arithmetic; `MpzCalls` makes one call
on canonical objects that hold chosen values of either sign, with or without spare and
stale limbs, with results in place of operands and with null results, and is shown to
implement `IntRegs`, whose registers are plain integers. A call leaves canonical objects
(`MpzCanonical`), so that the next call of a sequence starts from a state of the same
kind; values other than those chosen are not checked. The
primality test uses 32-bit constants and is therefore written on integers, with the
control of the code.

**Abstraction.** Left out everywhere: the text of messages, times, exit codes and
output files (except that an exit cause decides the `timeout` field), logging, memory
release, and failures of system calls that the code answers by ending the server at
once, beyond the shutdown itself.

## 3. Runs

| run | asks | distinct states |
|---|---|---|
| `parts` | is the circular array a FIFO, also when resized with its content wrapped around; is the list a finite map; does parsing give the fields of a line and invert the client's encoding; do the two wrappers limit, wait for and report their command, and end | 247,000 |
| `connection` | are the handled lines those sent, however `read` cuts them; do answers reach the wire whole, in order, and for every line | 165,000 |
| `server_clients` | two clients, one of which may leave: poll entries, events, order of answers, no request lost, no child lost | 649,000 |
| `server_parallel` | a `--single-client` server whose client interrupts and changes `parallel`: no idle slot, no request lost | 443,000 |
| `server_live` | two clients with interrupts, one of which may leave: every run is answered, an interrupted run ends for good | 123,000 |
| `server_sender` | do answers only go to the sender (section 4) | violation |
| `windows` | answers go to the sender, one read outstanding per client, every run is answered; failing process creation, memory events, repeated end events, interrupts | 84,000 |
| `win_cleanup` | are ended processes removed from the list (section 4) | violation |
| `client` | prover calls: no update lost, repeated or out of order, lookups succeed, results are returned and waiting ends; controller: the story each callback hears, counters, proved flags, `clean`, replay reports, every attempt ends | 72,000 |
| `controller_results` | does a result find its node (section 4) | violation |
| `mpn` | do the `mpn_` functions, text, words, factorials, binomials and the primality test compute what they should | 161,000 |
| `mpz` | do `mpz_` calls with any aliasing implement integers and keep their objects normalised | 98,000 |

`parts` and `client` each hold components that share no state: a behaviour chooses one
(`used`) and the others stay in an initial state.

**Bounds.** The queue starts with capacity 1 and holds up to 5 elements, so it is
resized three times, with the pointer at every place; the capacity bound `UIntMod` is 20
so that doubling comes close to it. Two clients, two descriptors and two process ids are
enough for reuse of a descriptor and of a process id, for two children ending behind one
signal, and for requests of one client in front of those of another; two or three runs
per client are enough for a queue with more than one request. The pipe has room for one
byte, so bytes are dropped. Lines and answers of different lengths against a small
`READ_ONCE` give several lines in a read and lines over several reads. The list has four
keys and grows twice; request lines have up to four arbitrary characters, those that
start as a run have up to eight after `run`, enough for every field to be empty or not.
The session has a goal, a transformation to a sub-goal and on that one two more, so that
a flag changes through two levels and a goal has two reasons to be proved; two jobs,
three requests and one task in progress at a time give a second attempt on the same
node, a full table, a removal above or below a running attempt and an interrupt between
scheduling and start. Limbs of six bits in `mpn` have halves of three, so that the
reciprocals and the half-limb products are not degenerate; operands of up to three limbs
take their limbs from 0, 1, 31, 32 and 63, where carries, borrows and corrections happen
(the add-back of long division is reached). In `mpz` limbs have two bits and objects up
to four limbs, so that a call takes a number through several sizes; objects start with
or without spare limbs, and hold 0 to 4, 8, 15, 16, 31, 48 or 63, the values where a limb
is added, fills up or has zero limbs below it. The candidates of the primality test are the numbers around 0,
64 and 961, squares and products of the first bases and some pseudoprimes. File
descriptors and process ids are symmetric: no definition compares or orders them.

**Deadlock** is not checked: a server may shut down, a wrapper ends, the numbers of
requests, calls and operations are bounded. What must not stop is stated as liveness.

**Fairness.** The server is a single thread the operating system schedules, so its
next step, if there is one, is taken (`WF_vars(ServerStep)`); pending signals are
delivered; a process that was sent SIGKILL ends; on Windows pending operations
complete. That every prover ends, which is what `RLIMIT_CPU` or the job limits
guarantee for requests with a time limit, is `ProversEnd`, a hypothesis of
`EveryRunAnswered` alone: `InterruptStops` holds without it. Clients are under no
fairness: they may stop sending. In `Connection` the client reads what is written. In
`CpuLimit` time passes (the CPU limit and the alarm take effect). In `CallProvers` the
program goes on to poll, as the timeout handler of the scheduler does, and the server
answers. In `Controller` the scheduler calls the registered handlers again and again and
a prover given to the client library ends, because it has a time limit. Three of these
assumptions are written `[]<>~ Can \/ []<><<A>>_v`, with the enabling condition spelled
out: it is weak fairness, in a form TLC evaluates quickly.

**Exceptions the properties name.** `EveryRunAnswered` of the Unix server excepts a
server that was killed by SIGPIPE: the signal is not ignored, so a client that leaves
between `poll` and `write` takes the server, and the runs of all other clients, with it.
(Were it ignored, the result -1 would be left unhandled and the assertion of
`prepare_write` would end the server at the next write.) `EveryRunAnswered` of the
Windows server excepts runs after a client left, because of the slot that `win_cleanup`
shows to be lost. `WaitReturns` and `ResultReturned` of the client except a server that
has gone: end of file is not detected, and `wait_on_call` then reads for ever.
`LimitedAndWaitedFor` of the Windows wrapper says in every case that a running command
is in the job; that it has ended before the wrapper does it promises only without a
console event or after the handler killed it, since the handler may run before the
command exists. `EveryAttemptEnds` excepts a controller whose handler ended with an
exception (`controller_results`). `StreamsIntact` is checked for a C library whose
`memcpy` copies upwards; with `"descending"` in `CopyOrders` TLC shows corrupted lines.

## 4. Disagreements between code and documentation

Three runs check a statement of a document or a comment, and TLC finds a behaviour of
the model that contradicts it; the sources are quoted in `PROJECT.json`.

* `server_sender`: `README.server` says that answers go to the client who sent the
  request. A process remembers its client by descriptor; after reuse of the descriptor
  another client gets its answers.
* `win_cleanup`: a comment of `server-win.c` says that the list of processes is cleaned
  up when the end of the process is notified. The process of a client that left is
  never removed from it.
* `controller_results`: a comment of `controller_itp.ml` says that an attempt which did
  not finish yet cannot be removed. Editors are not entered in the table the guard reads,
  and bisection removes without the guard; the late answer finds no node, and the
  exception ends the timeout handler.

Others are visible in the models and are not the subject of a run:

* death by any signal is reported as timeout, a crash or an interrupt as well
  (`Finished` of `ProofServer`), although `README.server` reserves it for timeouts;
* a request that finds a free slot does not go through the queue (`handle_run`) and may
  overtake requests in it;
* an interrupt removes and kills whatever has its id, of any client;
* on Windows, after `parallel` was lowered, connections on the remaining pipes are not
  recognised (`ignore_event`), after it was raised the search may leave the arrays
  (`past_the_arrays`), and after a memory-limit message the server waits for the
  process without bound and handles no interrupt (`handle_child_event`);
* replay removes an attempt without updating its goal, which is right only because the
  replay of the user interface is for obsolete attempts (`replay_proof_attempt`);
* `bisect_end` asserts that the last prover call succeeds, which nothing ensures;
* `mpz_powm` with exponent 0 and modulus 1 returns 1, `mpz_gcd_ui(g, u, 0)` returns 0
  although it sets `g` to the absolute value of `u`; `IntRegs` follows the code;
* the comment in `mpz_gcdext`, `|s| < |u| / 2g`, names the wrong operand: the code makes
  `s` small relative to `v`.

## 5. Proofs

**`QueueProofs`** (for every set of elements, initial capacity and bound on the
length, under the assumptions named in `Queue`): `QueueTypeOK`,
`QueueLiveSlotsDefined`, `QueueNoWrap` and `QueueImplementsFifo`. The inductive
invariant adds to the types that the live slots hold elements and that the length
bound keeps the doubled capacity below the modulus: without the second, doubling could
give 0, and without the first the refinement mapping `Items` would not be a sequence
of elements. The heart is a lemma on resizing: the element at distance `i` from the
pointer is the same before and after, by cases on whether its slot was moved.

**`ProofServerProofs`** (for any sets of connections, descriptors and a finite set of
process ids, and any bounds on requests, under `ServerAssumption`). The theorems:
`ServerTypeOK`, `ServerProcesses`, `ServerNoLostChild`, `ServerPollList`,
`ServerEvents`, `ServerRequestsConserved`, `ServerStartedThenFinished` and
`ServerNoIdleSlot`. The invariant, in `ProofServerInvariant`, has three layers, and
each needs those before it:

* `IInv`, the lists of the server: the first five properties together. None of them but
  the types is inductive alone: that an event of the round is still true needs that
  `poll_list` has one entry for a descriptor and none for clients that have gone, which
  needs that entries are removed and POLLOUT is changed for the right entry; that
  reaping finds its process needs that list and children agree. `TypeOK` includes
  that `parallel` is positive, which the handling of `parallel;n` must keep.
* `ConnInv`, whose client a descriptor is: a connection is accepted once and has one
  client at most (`BacklogOK`, `Owners`); a request or a process names the descriptor
  of the client that sent it as long as that client is there, although descriptors are
  used again; POLLERR is only seen of a client that has left, so a client that waits for
  answers is not closed (`ErrorsOfGone`); lines that were read are those of a client
  (`LinesOfClient`). Without it an answer could be counted for another connection.
* `RunsInv`, where every run request is: `RunOK(c, id)` says that run `id` of connection
  `c` is in one of six places at most (lines sent, lines read, queue, process list, F
  answers, withdrawn by an interrupt), in one as long as the connection is open, and in
  none before it was sent; that S was answered if and only if the run was started, once;
  and that F comes after it. `RequestsConserved` alone is not inductive, because it says
  nothing of connections that closed, and a run of theirs in two places, or one that is
  not sent yet and already somewhere, would be counted twice later; that there is one S
  needs that a started run is not in the queue any more.

`RequestsConserved` then follows because exactly one of the six places is inhabited, by
one element (`RunsConserved`), and `StartedThenFinished` from the part of `RunOK` on
answers (`RunsAnswered`). `NoIdleSlot` has an invariant of its own, `SlotsFull`: from
the end of `schedule_new_jobs` to the end of `poll` nothing changes the queue, the
process list or `parallel`. There is one lemma per action and layer:

| module | shows |
|---|---|
| `ProofServerInvariant` | the invariant, lemmas about its parts, what it implies |
| `ProofServerPollProofs` | the loop, the kernel and the clients keep `IInv` |
| `ProofServerClientProofs` | reading, writing, closing, starting, ending and interrupting keep `IInv` |
| `ProofServerConnections` | every step keeps `ConnInv` |
| `ProofServerClientRuns` | lines sent and read, answers written, clients that come and go keep `RunsInv` |
| `ProofServerJobRuns` | starting, ending and interrupting a job keep `RunsInv` |
| `ProofServerProofs` | combines them; `SlotsFull`; the theorems |

**Only model-checked:** all liveness properties; the refinements of `ArrayList`,
`WriteBuffer` and `MpzCalls`; `StreamsIntact` and the parser, whose reference definitions
flatten sequences; the Windows server, the wrappers, `CallProvers`; `Session` and `Controller`, which recurse over the tree; `mini-gmp`, whose
loops are recursive. Liveness and inductions over data are outside what the proof system
can do here. `QueueTypeOK`, `QueueLiveSlotsDefined`, `QueueNoWrap`, `ServerTypeOK` and
`ServerProcesses` are proved and in no run.

## 6. Not modelled

* `options.c`, `logging.c`; connecting with retries and editor calls of the client;
  analysis of prover output. A write that blocks because a client does not read, and
  provers that outlive the server. That a `--single-client` server stops with its client
  is a step of the model (`close_client`) and stated by no run.
* Of the controller: strategies, copy and paste, reloading, the adaptation of limits,
  replay of attempts that are not obsolete. Of the session: files and several theories,
  detached nodes, loading, merging, saving. The scheduler's priorities and delays: any
  pending handler may be next. The ITP server's notifications and the front ends.
* Of `mini-gmp`: conversions from and to `double`, `mpz_out_str`, setting the memory
  functions, `mpn_div_qr_2` (compiled out), `mpn_perfect_square_p` and `mpn_sqrtrem`;
  running out of memory and the calls the library refuses by ending the program (division
  by zero, even roots of negative numbers).
* The other C code of the repository: the examples' random number generator and test
  drivers, and the C that extraction emits or links. They are sequential programs without
  state of their own between calls, or not part of Why3 itself.
* The logic, which works on unbounded terms.

## 7. Plan

1. *Strategies*: `exec_strategy` driven by callbacks, on top of `Controller`.
2. *Reloading*: the second tree, pairing of goals, detached nodes, and attempts that run
   across it.
3. *Compositions*: `CallProvers` with `ProofServer` through the two channels, and the
   wrappers under the server's kill.
4. *Proofs*: `ArrayList` implements `Table`, `WriteBuffer` implements `Fifo`, the
   invariants of the wrappers, of `CallProvers` (`DataUntilResult`) and of the counters
   of the controller, `IoInFlight` and `AnswersToSender` of the Windows server.
