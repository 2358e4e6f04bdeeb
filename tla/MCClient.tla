------------------------------ MODULE MCClient ------------------------------
(***************************************************************************)
(* TLC instance of the client of the proof server: a behaviour is one of   *)
(* Controller or one of CallProvers; what the other has stays as it was.   *)
(* There are two prover calls, of a program that polls, of one that blocks *)
(* in the poll, of one that queries and waits for single calls, and of one *)
(* that polls and waits while something goes wrong.                        *)
(***************************************************************************)
EXTENDS MCController

CONSTANTS MaxCalls, MaxRead

VARIABLES
  used,                                             \* the part this behaviour uses
  program, last_id, saved_data, recv_buf, result_buffer, call, returned, raised, socket, wire,
  asked, server, foreign                            \* those of CallProvers

pvars == <<program, last_id, saved_data, recv_buf, result_buffer, call, returned, raised,
           socket, wire, asked, server, foreign>>

Program(modes, blocking, fault) ==
  [modes |-> modes, blocking |-> blocking, fault |-> fault]

MCPrograms ==
  { Program({"get"}, FALSE, "none"),
    Program({"get"}, TRUE, "none"),
    Program({"query", "wait"}, FALSE, "none"),
    Program({"get", "wait"}, FALSE, "foreign"),
    Program({"get", "wait"}, FALSE, "death") }

P == INSTANCE CallProvers WITH Programs <- MCPrograms, x <- last_id

ASSUME CallsOK == P!CallProversAssumption

all == <<used, vars, pvars>>

ClientInit ==
  /\ used \in {"controller", "calls"}
  /\ Init /\ (used = "controller" \/ setup = CHOOSE s \in Setups : TRUE)
  /\ P!Init /\ (used = "calls" \/ program = CHOOSE p \in MCPrograms : TRUE)

ClientNext ==
  \/ used = "controller" /\ Next /\ UNCHANGED <<used, pvars>>
  \/ used = "calls" /\ P!Next /\ UNCHANGED <<used, vars>>

\* An action of one of the two, as a step of the whole.
InController(A) == used = "controller" /\ A /\ UNCHANGED <<used, pvars>>
InCalls(A) == used = "calls" /\ A /\ UNCHANGED <<used, vars>>

\* The fairness of Controller!FairSpec and of CallProvers!FairSpec.
ClientSpec ==
  /\ ClientInit /\ [][ClientNext]_all
  /\ WF_all(InController(idle_handler))
  /\ []<>~ (used = "controller" /\ CanTake) \/ []<><<InController(TakeResult)>>_all
  /\ \A j \in Job : WF_all(InController(ProverEnds(j)))
  /\ []<>~ (used = "calls" /\ P!ClientMoves) \/ []<><<InCalls(P!Client)>>_all
  /\ \A i \in 1 .. MaxCalls : WF_all(InCalls(P!ServerStarts(i) \/ P!ServerFinishes(i)))

\* No answer is lost, doubled or reordered between the socket and the caller.
AnswersKept == P!AnswersKept

\* handle_answer finds the data of the call an answer belongs to.
DataUntilResult == P!DataUntilResult

\* A result the server has sent is returned to a program that polls.
ResultReturned == P!ResultReturned

\* wait_on_call returns once the prover has finished.
WaitReturns == P!WaitReturns
=============================================================================
