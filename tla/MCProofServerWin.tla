-------------------------- MODULE MCProofServerWin --------------------------
(***************************************************************************)
(* Situations of ProofServerWin for TLC: two clients whose messages may be *)
(* longer than a read; one client with two runs, an interrupt and provers  *)
(* that fail in every way; one client that changes `parallel'.             *)
(***************************************************************************)
EXTENDS ProofServerWin

CONSTANTS c1, c2

TwoClients ==
  [conns |-> {c1, c2}, mayClose |-> {c1}, maxRun |-> 1, maxInterrupt |-> 0,
   parallelArgs |-> {}, longLines |-> TRUE, exitCauses |-> {"exit"},
   memoryEvents |-> FALSE, spawnFails |-> {}, singleClient |-> FALSE]

Failures ==
  [conns |-> {c1}, mayClose |-> {c1}, maxRun |-> 2, maxInterrupt |-> 1,
   parallelArgs |-> {}, longLines |-> FALSE, exitCauses |-> {"limit"},
   memoryEvents |-> TRUE, spawnFails |-> {"CreateProcess", "job"}, singleClient |-> TRUE]

Parallel ==
  [conns |-> {c1}, mayClose |-> {}, maxRun |-> 2, maxInterrupt |-> 0,
   parallelArgs |-> {0, 2}, longLines |-> FALSE, exitCauses |-> {"exit"},
   memoryEvents |-> FALSE, spawnFails |-> {}, singleClient |-> FALSE]

AllSetups == {TwoClients, Failures, Parallel}

OneLeaves == {[TwoClients EXCEPT !.longLines = FALSE]}
=============================================================================
