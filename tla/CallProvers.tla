---------------------------- MODULE CallProvers ----------------------------
(***************************************************************************)
(* The client side of the proof server, src/src/driver/prove_client.ml and *)
(* src/src/driver/call_provers.ml: requests are sent and remembered in     *)
(* saved_data; answers are read from the socket in pieces, put together to *)
(* lines and kept in result_buffer until the caller asks for them.         *)
(*                                                                         *)
(* An answer line is <<kind, id>> with kind "S" (started) or "F"           *)
(* (finished).  On the socket it is two pieces, the second with the        *)
(* newline, so that a read may end inside a line.  The server is           *)
(* environment: it answers S then F, or drops a queued request when it is  *)
(* interrupted; it may deliver the F of another client's request, which    *)
(* ProofServer shows it can do, or die.                                    *)
(***************************************************************************)
EXTENDS Naturals, Sequences, SequencesExt, FiniteSets

CONSTANTS
  MaxCalls,       \* bound on the prover calls
  MaxRead,        \* pieces a read returns at most (the buffer of 1024 bytes)
  Programs        \* the programs that call: the functions they get results with
                  \* ("get", "query", "wait"), their S.blocking, and what may go
                  \* wrong: answers to other clients arrive, or the server dies

\* What the constants are; asserted where they are given values.
CallProversAssumption ==
  /\ MaxCalls \in Nat \ {0}
  /\ MaxRead \in Nat \ {0}
  /\ Programs \subseteq [modes : SUBSET {"get", "query", "wait"}, blocking : BOOLEAN,
                           fault : {"none", "foreign", "death"}]

Ids == 1 .. MaxCalls

VARIABLES
  program,         \* the program that runs
  x,               \* the counter of gen_id
  saved_data,      \* the ids saved_data has data (and a file) for
  recv_buf,        \* the received pieces of an unfinished line
  result_buffer,   \* per id its updates, the latest first, as Hashtbl.add stacks them
  call,            \* the function being executed
  returned,        \* per id the updates returned to the caller, in order
  raised,          \* an exception has ended reading
  socket,          \* "open", or "eof" once the server has gone
  wire,            \* pieces written by the server and not read
  asked,           \* ids of the interrupt requests sent
  server,          \* per id what the server did with the request
  foreign          \* an answer to another client was delivered

client == <<x, saved_data, recv_buf, result_buffer, call, returned, raised>>
vars == <<client, socket, wire, asked, server, foreign, program>>

Lines == {"S", "F"} \X Ids
Pieces == [line : Lines, last : BOOLEAN]
Idle == [op |-> "none"]
Calls ==
  {Idle} \cup [op : {"get"}] \cup [op : {"query", "wait"}, id : Ids]
         \cup [op : {"query result"}, id : Ids]

TypeOK ==
  /\ x \in 0 .. MaxCalls
  /\ saved_data \subseteq Ids
  /\ recv_buf \in {<<>>} \cup {<<[line |-> l, last |-> FALSE]>> : l \in Lines}
  /\ result_buffer \in [Ids -> Seq({"S", "F"})]
  /\ call \in Calls
  /\ returned \in [Ids -> Seq({"S", "F"})]
  /\ raised \in BOOLEAN
  /\ socket \in {"open", "eof"}
  /\ wire \in Seq(Pieces)
  /\ asked \subseteq Ids
  /\ server \in [Ids -> {"no", "queued", "running", "ended", "dropped"}]
  /\ foreign \in BOOLEAN
  /\ program \in Programs

Init ==
  /\ program \in Programs
  /\ x = 0
  /\ saved_data = {}
  /\ recv_buf = <<>>
  /\ result_buffer = [i \in Ids |-> <<>>]
  /\ call = Idle
  /\ returned = [i \in Ids |-> <<>>]
  /\ raised = FALSE
  /\ socket = "open"
  /\ wire = <<>>
  /\ asked = {}
  /\ server = [i \in Ids |-> "no"]
  /\ foreign = FALSE

Ready == call = Idle /\ ~ raised

-----------------------------------------------------------------------------
(* Requests *)

\* gen_id, the data of the call and the request; the first one starts the server.
\* A send to a server that has gone ends the program by SIGPIPE.
call_on_file ==
  /\ Ready
  /\ x < MaxCalls
  /\ socket = "open"
  /\ x' = x + 1
  /\ saved_data' = saved_data \cup {x'}
  /\ server' = [server EXCEPT ![x'] = "queued"]
  /\ UNCHANGED <<recv_buf, result_buffer, call, returned, raised, socket, wire, asked,
                 foreign, program>>

interrupt_call(i) ==
  /\ Ready
  /\ i <= x
  /\ i \notin asked
  /\ socket = "open"
  /\ asked' = asked \cup {i}
  /\ UNCHANGED <<client, socket, wire, server, foreign, program>>

-----------------------------------------------------------------------------
(* Reading answers *)

\* The lines of s that have their newline; one whose first piece is missing is garbled.
Complete(s) ==
  LET ends == SelectSeq([k \in 1 .. Len(s) |-> k], LAMBDA k : s[k].last)
      whole(k) == k > 1 /\ s[k - 1] = [s[k] EXCEPT !.last = FALSE]
  IN [j \in 1 .. Len(ends) |->
        IF whole(ends[j]) THEN s[ends[j]].line ELSE <<"?", s[ends[j]].line[2]>>]

\* Faulty variant: what follows the last newline is thrown away.
LeftoverLost(s) == <<>>

\* What follows the last newline: kept for the next read.
Leftover(s) == IF Last(s).last THEN <<>> ELSE <<Last(s)>>

\* read_answer accepts a line.
Valid(l) == l[1] \in {"S", "F"}

\* Faulty variant: the saved data of started calls is dropped.
HandledStarted(lines) ==
  [ids |-> {lines[k][2] : k \in 1 .. Len(lines)}, ok |-> TRUE]

\* read_answer on all lines, then handle_answer on them in order: the ids of the
\* finished calls handled, and whether there was no exception, InvalidAnswer for a
\* garbled line or Not_found for a call without saved data.
Handled(lines) ==
  LET finished == SelectSeq(lines, LAMBDA l : l[1] = "F")
      bad(k) == finished[k][2] \notin saved_data \ {finished[j][2] : j \in 1 .. k - 1}
      valid == \A l \in Range(lines) : Valid(l)
      good == {k \in 1 .. Len(finished) : valid /\ \A j \in 1 .. k : ~ bad(j)}
  IN [ids |-> {finished[k][2] : k \in good},
      ok |-> valid /\ Cardinality(good) = Len(finished)]

\* result_buffer after Hashtbl.add of the updates in order.
Added(lines) ==
  [i \in Ids |->
     LET own == SelectSeq(lines, LAMBDA l : l[2] = i)
     IN Reverse([k \in 1 .. Len(own) |-> own[k][1]]) \o result_buffer[i]]

\* query_result_buffer on the table buf: the latest update is taken out.
Found(buf, i) == IF buf[i] = <<>> THEN "none" ELSE Head(buf[i])
Removed(buf, i) == IF buf[i] = <<>> THEN buf ELSE [buf EXCEPT ![i] = Tail(@)]

\* Faulty variant: the table is not emptied into the list that is returned.
GetNothing(buf) ==
  /\ result_buffer' = buf
  /\ call' = Idle
  /\ UNCHANGED returned

\* get_new_results returns all updates, the blocking one without the started ones.
GetReturns(buf) ==
  /\ returned' = [i \in Ids |->
       returned[i] \o SelectSeq(Reverse(buf[i]), LAMBDA u : u = "F" \/ ~ program.blocking)]
  /\ result_buffer' = [i \in Ids |-> <<>>]
  /\ call' = Idle

QueryReturns(buf) ==
  /\ returned' = IF Found(buf, call.id) = "none" THEN returned
                 ELSE [returned EXCEPT ![call.id] = Append(@, Found(buf, call.id))]
  /\ result_buffer' = Removed(buf, call.id)
  /\ call' = Idle

\* Faulty variant: wait_on_call reads again without looking into the table.
WaitReads(buf) ==
  /\ result_buffer' = buf
  /\ UNCHANGED <<call, returned>>

\* wait_on_call looks into the table again.
WaitContinues(buf) ==
  /\ result_buffer' = buf
  /\ call' = [call EXCEPT !.op = "query result"]
  /\ UNCHANGED returned

\* The lines of one read_answers are handled; an exception abandons all of them, the
\* ones handled before it included.
Fetched(lines) ==
  /\ saved_data' = saved_data \ Handled(lines).ids
  /\ raised' = ~ Handled(lines).ok
  /\ \/ ~ Handled(lines).ok /\ call' = Idle /\ UNCHANGED <<result_buffer, returned>>
     \/ Handled(lines).ok /\ call.op = "get" /\ GetReturns(Added(lines))
     \/ Handled(lines).ok /\ call.op = "query" /\ QueryReturns(Added(lines))
     \/ Handled(lines).ok /\ call.op = "wait" /\ WaitContinues(Added(lines))

Reading == call.op \in {"get", "query", "wait"}
MayBlock == call.op = "wait" \/ (call.op = "get" /\ program.blocking)

\* One turn of read_lines that finds data: up to the end of a line, or beyond it, or
\* short of it, in which case it reads again.
read_lines ==
  /\ Reading
  /\ wire # <<>>
  /\ \E n \in 1 .. MaxRead :
       /\ n <= Len(wire)
       /\ wire' = SubSeq(wire, n + 1, Len(wire))
       /\ LET s == recv_buf \o SubSeq(wire, 1, n)
          IN \/ /\ \A k \in 1 .. n : ~ wire[k].last
                /\ recv_buf' = s
                /\ UNCHANGED <<saved_data, result_buffer, call, returned, raised>>
             \/ /\ \E k \in 1 .. n : wire[k].last
                /\ recv_buf' = Leftover(s)
                /\ Fetched(Complete(s))
  /\ UNCHANGED <<x, socket, asked, server, foreign, program>>

\* read_from_client returns "": the socket has no data and the read may not block, or
\* the server has gone.
read_nothing ==
  /\ Reading
  /\ wire = <<>>
  /\ ~ MayBlock \/ socket = "eof"
  /\ Fetched(<<>>)
  /\ UNCHANGED <<x, recv_buf, socket, wire, asked, server, foreign, program>>

\* get_new_results is only called while some call is in progress.
get_new_results ==
  /\ Ready /\ "get" \in program.modes
  /\ \E i \in (1 .. x) \ asked : "F" \notin Range(returned[i])
  /\ call' = [op |-> "get"]
  /\ UNCHANGED <<x, saved_data, recv_buf, result_buffer, returned, raised>>
  /\ UNCHANGED <<socket, wire, asked, server, foreign, program>>

query_call(i) ==
  /\ Ready /\ "query" \in program.modes
  /\ i <= x
  /\ call' = [op |-> "query", id |-> i]
  /\ UNCHANGED <<x, saved_data, recv_buf, result_buffer, returned, raised>>
  /\ UNCHANGED <<socket, wire, asked, server, foreign, program>>

\* wait_on_call is called once for a call, and for none that was interrupted.
wait_on_call(i) ==
  /\ Ready /\ "wait" \in program.modes
  /\ i <= x
  /\ returned[i] = <<>> /\ i \notin asked
  /\ call' = [op |-> "query result", id |-> i]
  /\ UNCHANGED <<x, saved_data, recv_buf, result_buffer, returned, raised>>
  /\ UNCHANGED <<socket, wire, asked, server, foreign, program>>

\* The test of wait_on_call: it returns a result, and forgets another update.
query_result_buffer ==
  /\ call.op = "query result"
  /\ result_buffer' = Removed(result_buffer, call.id)
  /\ \/ /\ Found(result_buffer, call.id) = "F"
        /\ returned' = [returned EXCEPT ![call.id] = <<"F">>]
        /\ call' = Idle
     \/ /\ Found(result_buffer, call.id) # "F"
        /\ call' = [call EXCEPT !.op = "wait"]
        /\ UNCHANGED returned
  /\ UNCHANGED <<x, saved_data, recv_buf, raised, socket, wire, asked, server, foreign, program>>

-----------------------------------------------------------------------------
(* The server *)

Written(kind, i) ==
  wire' = wire \o << [line |-> <<kind, i>>, last |-> FALSE],
                     [line |-> <<kind, i>>, last |-> TRUE] >>

ServerStarts(i) ==
  /\ socket = "open" /\ server[i] = "queued"
  /\ server' = [server EXCEPT ![i] = "running"]
  /\ Written("S", i)
  /\ UNCHANGED <<client, socket, asked, foreign, program>>

ServerFinishes(i) ==
  /\ socket = "open" /\ server[i] = "running"
  /\ server' = [server EXCEPT ![i] = "ended"]
  /\ Written("F", i)
  /\ UNCHANGED <<client, socket, asked, foreign, program>>

\* The interrupt finds the request in the queue; a running prover is killed and
\* finishes as another one does.
ServerDrops(i) ==
  /\ socket = "open" /\ server[i] = "queued" /\ i \in asked
  /\ server' = [server EXCEPT ![i] = "dropped"]
  /\ UNCHANGED <<client, socket, wire, asked, foreign, program>>

\* The answer to a request of another client, whose ids count from 1 as well.
ForeignAnswer(i) ==
  /\ program.fault = "foreign" /\ ~ foreign
  /\ socket = "open"
  /\ foreign' = TRUE
  /\ Written("F", i)
  /\ UNCHANGED <<client, socket, asked, server, program>>

\* The server ends with answers unsent or cut off.
ServerDies ==
  /\ program.fault = "death"
  /\ socket = "open"
  /\ socket' = "eof"
  /\ \E n \in 0 .. Len(wire) : wire' = SubSeq(wire, 1, n)
  /\ UNCHANGED <<client, asked, server, foreign, program>>

Server == \E i \in Ids : ServerStarts(i) \/ ServerFinishes(i)

Client ==
  \/ read_lines \/ read_nothing \/ query_result_buffer
  \/ get_new_results

\* When the program can go on by itself.
ClientMoves ==
  \/ Reading /\ (wire # <<>> \/ ~ MayBlock \/ socket = "eof")
  \/ call.op = "query result"
  \/ Ready /\ "get" \in program.modes /\ \E i \in (1 .. x) \ asked : "F" \notin Range(returned[i])

Next ==
  \/ call_on_file
  \/ \E i \in Ids : interrupt_call(i) \/ query_call(i) \/ wait_on_call(i)
  \/ Client
  \/ Server
  \/ \E i \in Ids : ServerDrops(i) \/ ForeignAnswer(i)
  \/ ServerDies

Spec == Init /\ [][Next]_vars

\* The server answers, and the program goes on: its function calls proceed and the
\* timeout handler polls for results again and again.  The second conjunct is
\* WF_vars(Client) with ENABLED written out, for TLC's sake.
FairSpec ==
  /\ Spec
  /\ []<>~ ClientMoves \/ []<><<Client>>_vars
  /\ \A i \in Ids : WF_vars(ServerStarts(i) \/ ServerFinishes(i))

-----------------------------------------------------------------------------
Count(s, u) == Cardinality({k \in 1 .. Len(s) : s[k] = u})
Unread(i) == SelectSeq(Complete(recv_buf \o wire), LAMBDA l : l[2] = i)
UnreadKinds(i) == [k \in 1 .. Len(Unread(i)) |-> Unread(i)[k][1]]

Sent(i) ==
  CASE server[i] \in {"no", "queued", "dropped"} -> <<>>
    [] server[i] = "running" -> <<"S">>
    [] server[i] = "ended" -> <<"S", "F">>

Intact == ~ foreign /\ socket = "open"

\* The result of a call is in one place, returned, in result_buffer or still to be
\* read, whether it is polled for, queried or waited for: a started update that is
\* forgotten never takes the result with it.  To a program that polls without
\* blocking every answer is returned in the order in which it was written: no line
\* is lost or repeated when a read ends inside it.
AnswersKept ==
  Intact => \A i \in Ids :
    LET answers == returned[i] \o Reverse(result_buffer[i]) \o UnreadKinds(i)
    IN  /\ Count(answers, "F") = Count(Sent(i), "F")
        /\ program.modes = {"get"} /\ ~ program.blocking => answers = Sent(i)

\* saved_data has an entry exactly for the calls whose result was not handled: the
\* lookup of handle_answer, which is not protected, never fails, also when the
\* server ends in the middle of a line.
DataUntilResult ==
  ~ foreign =>
    /\ ~ raised
    /\ saved_data = {i \in 1 .. x : Count(returned[i], "F") + Count(result_buffer[i], "F") = 0}

\* A result the server has sent is returned to a program that polls, as long as no
\* answer to another client arrives and the server lives.
ResultReturned ==
  \A i \in Ids :
    ("get" \in program.modes /\ server[i] = "ended" /\ i \notin asked)
      ~> ("F" \in Range(returned[i]) \/ i \in asked \/ ~ Intact)

\* wait_on_call returns once the prover has finished; when the server ends before,
\* it does not return (read_lines goes on reading "").
WaitReturns ==
  \A i \in Ids :
    (call.op \in {"wait", "query result"} /\ call.id = i /\ server[i] = "ended")
      ~> (call = Idle \/ ~ Intact)
=============================================================================
