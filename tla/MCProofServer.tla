--------------------------- MODULE MCProofServer ----------------------------
(* Instances of ProofServer for TLC. *)
EXTENDS ProofServer, TLC

CONSTANTS c1, c2, f1, f2, p1, p2

\* No action orders file descriptors or process ids.
Symmetry == Permutations(Fd) \cup Permutations(Pid)
=============================================================================
