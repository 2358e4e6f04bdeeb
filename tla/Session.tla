------------------------------- MODULE Session -------------------------------
(***************************************************************************)
(* The proof session of src/src/session/session_itp.ml: goals, the         *)
(* transformations applied to them with their sub-goals, proof attempts,   *)
(* and the cached "proved" status of goals, transformations and theory,    *)
(* which every change must keep up to date.  The operators take a session  *)
(* and return the session after the call.  One theory is considered; no    *)
(* node is detached.                                                       *)
(***************************************************************************)
EXTENDS Naturals, Sequences, SequencesExt

CONSTANTS
  Goal, Trans, Prover,
  On,           \* the goal a transformation applies to
  Subs          \* the sub-goals it makes; they have names of their own

\* The goals of the theory.
Roots == Goal \ UNION {Subs[t] : t \in Trans}

Key == Goal \X Prover                          \* an attempt is found by goal and prover
State == {"none", "valid", "unknown"}          \* proof_state, by its answer
Absent == [state |-> "absent", obsolete |-> FALSE]
Attempt(state, obsolete) == [state |-> state, obsolete |-> obsolete]

\* Nodes that can be removed.
Tn(t) == [kind |-> "tn", tn |-> t]
Pa(k) == [kind |-> "pa", pa |-> k]

\* The static tree below a transformation.
RECURSIVE GoalsBelow(_)
GoalsBelow(t) == Subs[t] \cup UNION {GoalsBelow(u) : u \in {v \in Trans : On[v] \in Subs[t]}}

TransBelow(t) == {t} \cup {u \in Trans : On[u] \in GoalsBelow(t)}

\* get_proofNode and the table of attempts find something.
HasGoal(s, g) == g \in Roots \/ \E t \in s.trans : g \in Subs[t]
HasAttempt(s, k) == s.att[k] # Absent
Exists(s, n) == IF n.kind = "tn" THEN n.tn \in s.trans ELSE HasAttempt(s, n.pa)

-----------------------------------------------------------------------------
(* The status of nodes.                                                      *)

pa_ok(a) == a.state = "valid" /\ ~ a.obsolete

\* What update_goal_node, update_trans_node and update_theory_node compute.
GoalProved(s, g) ==
  \/ \E t \in s.trans : On[t] = g /\ s.tn[t]
  \/ \E p \in Prover : pa_ok(s.att[<<g, p>>])
TransProved(s, t) == \A g \in Subs[t] : s.pn[g]
TheoryProved(s) == \A g \in Roots : s.pn[g]

update_theory_node(s) == [s EXCEPT !.th = TheoryProved(s)]

\* Faulty variant: the parents are not told.
UpdateGoalOnly(s, g) == [s EXCEPT !.pn[g] = GoalProved(s, g)]

\* The status of a goal, and when it changes that of what is above it.  For a
\* transformation without sub-goals update_trans_node updates the goal in any case.
RECURSIVE update_goal_node(_, _)
update_goal_node(s, g) ==
  LET s1 == [s EXCEPT !.pn[g] = ~ @]
      above == {t \in Trans : g \in Subs[t]}
  IN  IF GoalProved(s, g) = s.pn[g] THEN s
      ELSE IF above = {} THEN update_theory_node(s1)
      ELSE LET t == CHOOSE u \in above : TRUE
               s2 == [s1 EXCEPT !.tn[t] = ~ @]
           IN  IF TransProved(s1, t) = s1.tn[t] THEN s1 ELSE update_goal_node(s2, On[t])

\* update_trans_node as schedule_transformation calls it.
update_trans_node(s, t) ==
  LET proved == TransProved(s, t)
  IN  IF proved # s.tn[t] \/ Subs[t] = {}
        THEN update_goal_node([s EXCEPT !.tn[t] = proved], On[t])
        ELSE s

-----------------------------------------------------------------------------
(* Changes.                                                                  *)

\* A new attempt, or the old one without its result.
graft_proof_attempt(s, k) == [s EXCEPT !.att[k] = Attempt("none", FALSE)]

update_proof_attempt(s, k, state, obsolete) == [s EXCEPT !.att[k] = Attempt(state, obsolete)]

\* A transformation without sub-goals is proved from the start.
graft_transf(s, t) == [s EXCEPT !.trans = @ \cup {t}, !.tn[t] = Subs[t] = {}]

\* No update of the goal.
remove_proof_attempt(s, k) == [s EXCEPT !.att[k] = Absent]

change_prover(s, g, opr, npr) ==
  update_goal_node([s EXCEPT !.att[<<g, opr>>] = Absent,
                             !.att[<<g, npr>>] = Attempt(s.att[<<g, opr>>].state, TRUE)], g)

\* mark_obsolete and the update of the goal, as mark_as_obsolete does for each attempt.
mark_obsolete(s, k) ==
  IF HasAttempt(s, k) THEN update_goal_node([s EXCEPT !.att[k].obsolete = TRUE], k[1]) ELSE s

\* remove_subtree: everything below the node goes, then the parent is updated.
RemoveTrans(s, t) ==
  LET gs == GoalsBelow(t)
      ts == TransBelow(t)
  IN  [s EXCEPT !.trans = @ \ ts,
                !.att = [k \in Key |-> IF k[1] \in gs THEN Absent ELSE @[k]],
                !.pn = [g \in Goal |-> @[g] /\ g \notin gs],
                !.tn = [u \in Trans |-> @[u] /\ u \notin ts]]

remove_subtree(s, n) ==
  IF n.kind = "tn" THEN update_goal_node(RemoveTrans(s, n.tn), On[n.tn])
  ELSE update_goal_node(remove_proof_attempt(s, n.pa), n.pa[1])

\* The attempts fold_all_any meets below a node.
AttemptsBelow(n) ==
  IF n.kind = "pa" THEN {n.pa} ELSE {k \in Key : k[1] \in GoalsBelow(n.tn)}

\* The order of fold_all_session: what is below a node before the node, and the
\* transformations of a goal before its attempts.
RECURSIVE LeafsFirst(_)
LeafsFirst(g) ==
  LET ofTrans(t) == FlattenSeq([i \in DOMAIN SetToSeq(Subs[t]) |-> LeafsFirst(SetToSeq(Subs[t])[i])])
                      \o <<Tn(t)>>
      ts == SetToSeq({t \in Trans : On[t] = g})
      ps == SetToSeq(Prover)
  IN  FlattenSeq([i \in DOMAIN ts |-> ofTrans(ts[i])])
        \o [i \in DOMAIN ps |-> Pa(<<g, ps[i]>>)]

AllNodes == FlattenSeq([i \in DOMAIN SetToSeq(Roots) |-> LeafsFirst(SetToSeq(Roots)[i])])

-----------------------------------------------------------------------------
\* Every cached status is what its update function would compute.
StatusUpToDate(s) ==
  /\ \A g \in Goal : HasGoal(s, g) => s.pn[g] = GoalProved(s, g)
  /\ \A t \in s.trans : s.tn[t] = TransProved(s, t)
  /\ s.th = TheoryProved(s)
=============================================================================
