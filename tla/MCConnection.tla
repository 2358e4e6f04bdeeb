---------------------------- MODULE MCConnection ----------------------------
(* Three lines, answered by messages of two and three bytes. *)
EXTENDS Connection

MCAnswerLen == [S |-> 2, F |-> 3]
=============================================================================
