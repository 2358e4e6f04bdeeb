---------------------------- MODULE MCController ----------------------------
(***************************************************************************)
(* TLC instances of Controller: a goal g0 with a transformation to g1, and *)
(* on g1 one to g2 and one that proves it at once; a prover that is        *)
(* installed and an old one that is not.                                   *)
(***************************************************************************)
EXTENDS Controller

MCOn == [t1 |-> "g0", t2 |-> "g1", t3 |-> "g1"]
MCSubs == [t1 |-> {"g1"}, t2 |-> {"g2"}, t3 |-> {}]

NoAttempt == [q \in Prover |-> Absent]
Proved(p, obsolete) == [NoAttempt EXCEPT ![p] = Attempt("valid", obsolete)]

Situation(r, ts, g, f, p) ==
  [requests |-> r, trans |-> ts, goal |-> g, attempts |-> f, policy |-> p]

\* A new session, with interrupts or editors; a loaded one below t1, with a proof to be
\* bisected, an obsolete proof to be cleaned, a proof that is made obsolete and
\* replayed, and the replay of an obsolete proof of the old prover, by policy.
MCSetups ==
  { Situation({"Prove", "Transform", "Remove", "Interrupt"}, {}, "g0", NoAttempt, "keep"),
    Situation({"Prove", "Transform", "Remove", "Edit"}, {}, "g0", NoAttempt, "keep"),
    Situation({"Bisect", "Remove", "Interrupt"}, {"t1"}, "g1", Proved("p", FALSE), "keep"),
    Situation({"Prove", "Clean"}, {"t1"}, "g1", Proved("old", TRUE), "keep"),
    Situation({"Replay", "MarkAsObsolete", "Clean", "ResetProofs", "Interrupt"},
              {"t1"}, "g1", Proved("p", FALSE), "keep") }
  \cup {Situation({"Prove", "Replay"}, {"t1"}, "g1", Proved("old", TRUE), policy) :
          policy \in {"keep", "remove", "upgrade", "duplicate"}}

ASSUME ConstantsOK == ControllerAssumption
=============================================================================
