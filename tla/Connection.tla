----------------------------- MODULE Connection -----------------------------
(***************************************************************************)
(* One client of the server with both of its buffers: the lines it sends   *)
(* are cut out of the read buffer (LineBuffer) and lead to answers that    *)
(* are pushed on the write buffer (WriteBuffer) and written in pieces.     *)
(* Every line is a run request here: handling it pushes S, and F is pushed *)
(* at any later moment, when the prover has ended.  The server has a slot  *)
(* for each of them; ProofServer models what happens when it has not.      *)
(***************************************************************************)
EXTENDS LineBuffer

CONSTANT AnswerLen     \* lengths of S and F

Answers == {"S", "F"} \X (1 .. MaxLines)

ASSUME ConnectionAssumption == AnswerLen \in [{"S", "F"} -> Nat \ {0}]

NoData == <<"none", 0>>

VARIABLES
  wdata, wlen, pointer, is_writing, writequeue,   \* the fields of t_writebuf
  wire, pushed, popped,
  running                                         \* requests whose prover runs

wvars == <<wdata, wlen, pointer, is_writing, writequeue, wire, pushed, popped>>
cvars == <<vars, wvars, running>>

W == INSTANCE WriteBuffer WITH
       Msg <- Answers, MsgLen <- [m \in Answers |-> AnswerLen[m[1]]],
       MaxPush <- 2 * MaxLines, data <- wdata, len <- wlen

ASSUME AnswersAssumption == W!WriteBufferAssumption

ConnInit == Init /\ W!Init /\ running = {}

\* read_on_client up to handle_msg, which changes no write buffer.
Receive ==
  /\ \/ \E n \in 1 .. READ_ONCE : read_on_client(n)
     \/ end_handle_msg
  /\ UNCHANGED <<wvars, running>>

\* A request is handled: run_request pushes the started message.
Start ==
  LET k == Len(handled) + 1
  IN  /\ handle_line
      /\ W!push_write_data(<<"S", k>>)
      /\ running' = running \cup {k}

\* handle_child_events, between two calls of handle_msg.
Finish(k) ==
  /\ pc = "poll"
  /\ k \in running
  /\ running' = running \ {k}
  /\ W!push_write_data(<<"F", k>>)
  /\ UNCHANGED vars

\* write_to_client on Unix, try_write on Windows, and the end of the write.
Write ==
  /\ pc = "poll"
  /\ W!prepare_write
  /\ UNCHANGED <<vars, running>>

Written ==
  /\ \E size \in 1 .. wlen - pointer : W!have_written(size)
  /\ UNCHANGED <<vars, running>>

ClientSends == (\E n \in LineLens : SendLine(n)) /\ UNCHANGED <<wvars, running>>

ConnNext ==
  \/ ClientSends \/ Receive \/ Start
  \/ \E k \in 1 .. MaxLines : Finish(k)
  \/ Write \/ Written

ConnSpec == ConnInit /\ [][ConnNext]_cvars

\* The server reads and writes when poll reports that it can, the client reads what
\* is written, and provers end.
FairConnSpec ==
  /\ ConnSpec
  /\ WF_cvars(Receive \/ Start)
  /\ WF_cvars(Write) /\ WF_cvars(Written)
  /\ \A k \in 1 .. MaxLines : WF_cvars(Finish(k))

-----------------------------------------------------------------------------
\* However read and write split the two streams, the lines handle_msg has taken are the
\* lines sent, and the bytes written and those still to be written are the answers
\* pushed, in order, each once and whole, also those pushed in the middle of a write.
StreamsIntact == LinesIntact /\ W!NothingLostOnTheWire

\* The write buffer is a first-in first-out queue of answers.
WriteBufferIsFifo == W!ImplementsFifo

OnTheWire(m) == {i \in DOMAIN wire : wire[i] = <<m, AnswerLen[m[1]]>>} # {}

\* Every line that is sent is finally answered on the wire, however its bytes and
\* those of the answers are split.
EveryLineAnswered ==
  \A k \in 1 .. MaxLines : (Len(sent) >= k) ~> OnTheWire(<<"F", k>>)
=============================================================================
