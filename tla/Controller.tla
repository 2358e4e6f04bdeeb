----------------------------- MODULE Controller -----------------------------
(***************************************************************************)
(* The controller of src/src/session/controller_itp.ml as itp_server.ml    *)
(* uses it: it schedules proof attempts, transformations, editors, a       *)
(* replay and a bisection on a session, and applies what the provers       *)
(* answer.  Requests and the handlers of the scheduler run one after the   *)
(* other, each to its end; a callback runs inside the handler that calls   *)
(* it.  So the memory of the program is one record, and a call is an       *)
(* operator from records to records.                                       *)
(*                                                                         *)
(* A job is one call of schedule_proof_attempt or schedule_edition.  The   *)
(* results of Call_provers are taken one by one: a handler that takes      *)
(* several does the same with nothing in between.                          *)
(***************************************************************************)
EXTENDS Session, FiniteSets

CONSTANTS
  Installed,      \* the provers of controller_provers
  NewProver,      \* the prover that replaces one which is not installed
  MaxJobs,        \* bound on the jobs
  Setups,         \* the situations considered, one for each behaviour
  MaxRequests,    \* bound on the requests of the user
  Limit           \* S.multiplier * session_max_tasks

Job == 1 .. MaxJobs

\* What a situation consists of: the kinds of requests the user makes, the loaded
\* session, and what to do with provers that are not installed.
Setup ==
  [requests : SUBSET {"Prove", "Edit", "Transform", "Remove", "Clean", "ResetProofs",
                      "MarkAsObsolete", "Interrupt", "Replay", "Bisect"},
   trans : SUBSET {t \in Trans : Subs[t] # {}}, goal : Goal,
   attempts : [Prover -> {Absent} \cup {Attempt(s, o) : s \in State, o \in BOOLEAN}],
   policy : {"keep", "remove", "upgrade", "duplicate"}]

\* What the constants are; asserted where they are given values.
ControllerAssumption ==
  /\ On \in [Trans -> Goal] /\ Subs \in [Trans -> SUBSET Goal]
  /\ \A t, u \in Trans : t # u => Subs[t] \cap Subs[u] = {}
  /\ Cardinality(Roots) = 1
  /\ Installed \subseteq Prover /\ NewProver \in Installed
  /\ \A s \in Setups : s \in Setup /\ HasGoal(s, s.goal)

VARIABLES
  c,              \* the controller and its session
  calls,          \* per job the updates its prover has produced
  sent,           \* updates Call_provers has and the controller has not taken
  setup,          \* the situation this behaviour is about
  requests        \* how many were made

vars == <<c, calls, sent, setup, requests>>

\* A session that was loaded: the transformations ts, and the attempts f, by prover, on g.
Loaded(ts, g, f) ==
  update_goal_node(
    [trans |-> ts, pn |-> [h \in Goal |-> FALSE], tn |-> [t \in Trans |-> FALSE], th |-> FALSE,
     att |-> [k \in Key |-> IF k[1] = g THEN f[k[2]] ELSE Absent]], g)

Init ==
  /\ setup \in Setups
  /\ c = [ses |-> Loaded(setup.trans, setup.goal, setup.attempts),
          running_attempts |-> [k \in Key |-> 0],   \* bindings in the table
          jobs |-> << >>,                           \* what each job is
          told |-> << >>,                           \* the statuses its callback got
          scheduled |-> << >>,                      \* scheduled_proof_attempts
          progress |-> << >>,                       \* prover_tasks_in_progress: job -> tp_started
          edited |-> {},                            \* prover_tasks_edited
          todo |-> {},                              \* transformations to apply on idle
          running |-> 0,                            \* number_of_running_provers
          idle |-> FALSE, timeout |-> FALSE,        \* the handlers are registered
          count |-> 0, reports |-> 0, replayed |-> FALSE,
          bisected |-> FALSE,
          raised |-> "no"]                          \* the exception a handler ended with
  /\ calls = [j \in Job |-> {}]
  /\ sent = {}
  /\ requests = 0

\* The jobs that have not had their last callback.
Pending(x) == ToSet(x.scheduled) \cup DOMAIN x.progress

KeyOf(x, j) == x.jobs[j].key
Raise(x, e) == [x EXCEPT !.raised = IF @ = "no" THEN e ELSE @]

-----------------------------------------------------------------------------
(***************************************************************************)
(* Scheduling.                                                             *)
(***************************************************************************)
\* Faulty variant: one test for both handlers.
RunBothOnce(x) == IF x.timeout THEN x ELSE [x EXCEPT !.idle = TRUE, !.timeout = TRUE]

\* run_idle_handler: a handler that has ended is registered again.
run_idle_handler(x) == [x EXCEPT !.idle = TRUE, !.timeout = TRUE]

\* schedule_transformation: it is applied when the program is idle.
schedule_transformation(x, t, by, prover) ==
  [x EXCEPT !.todo = @ \cup {[tn |-> t, by |-> by, prover |-> prover]}]

\* Faulty variant: no mark for an attempt that is scheduled again.
MarkOnce(x, k) == [x EXCEPT !.running_attempts[k] = 1]

\* Hpan.add, which hides an older binding.
Mark(x, k) == [x EXCEPT !.running_attempts[k] = @ + 1]

\* Hpan.remove, which uncovers it.
Unmark(x, k) == [x EXCEPT !.running_attempts[k] = IF @ = 0 THEN 0 ELSE @ - 1]

\* The part of the callback that belongs to the controller.  A goal that was removed
\* raises BadID, which is an assertion failure in update_proof_attempt, and an attempt
\* that was removed raises Not_found.
OnSession(x, j, st, answer) ==
  LET k == KeyOf(x, j)
      edit == x.jobs[j].by = "edit"
      x1 == CASE st = "Scheduled" -> Mark(x, k)
              [] st \in {"Done", "Interrupted", "InternalFailure"} /\ ~ edit -> Unmark(x, k)
              [] OTHER -> x
      s == IF st = "Done" THEN update_proof_attempt(x.ses, k, answer, edit) ELSE x.ses
  IN  IF edit /\ st = "Running" THEN x
      ELSE IF ~ HasGoal(x.ses, k[1]) THEN Raise(x1, "BadID")
      ELSE IF st = "Done" /\ ~ HasAttempt(x.ses, k) THEN Raise(x1, "Not_found")
      ELSE [x1 EXCEPT !.ses = update_goal_node(s, k[1])]


\* The callback of replay: craft_report, and final_callback when nothing is left.
OnReplay(x, st) ==
  LET n == x.count - (IF st \in {"Scheduled", "Running", "UpgradeProver"} THEN 0 ELSE 1)
  IN  [x EXCEPT !.count = n, !.reports = IF n = 0 THEN @ + 1 ELSE @]

\* The callback of a prover on the sub-goal of a bisection.  When it is done the
\* transformation is removed, without check_removable, and applied again with other
\* definitions (next), or for the last time ("bisect end"), or not at all.
OnBisect(x, j, st, answer, next) ==
  LET b == x.jobs[j]
      t == b.tn
  IN  CASE st = "Done" /\ b.by = "bisect" ->
             LET x1 == [x EXCEPT !.ses = remove_subtree(@, Tn(t))]
             IN  IF next = "nothing" THEN [x1 EXCEPT !.bisected = FALSE]
                 ELSE schedule_transformation(x1, t, next, b.key[2])
        [] st = "Done" /\ b.by = "bisect end" ->
             IF answer = "valid" THEN [x EXCEPT !.bisected = FALSE]
             ELSE Raise(x, "assert")
        [] st \in {"Interrupted", "InternalFailure"} -> [x EXCEPT !.bisected = FALSE]
        [] OTHER -> x

\* The whole callback of job j; an exception ends it.
callback(x, j, st, answer, next) ==
  LET x1 == OnSession(x, j, st, answer)
      x2 == [x1 EXCEPT !.told[j] = Append(@, st)]
  IN  IF x1.raised # "no" THEN x1
      ELSE CASE x.jobs[j].by = "replay" -> OnReplay(x2, st)
             [] x.jobs[j].by \in {"bisect", "bisect end"} -> OnBisect(x2, j, st, answer, next)
             [] OTHER -> x2

\* schedule_proof_attempt: the old result is dropped, the job queued, its callback told.
schedule_proof_attempt(x, k, by, t) ==
  LET j == Len(x.jobs) + 1
      x1 == [x EXCEPT !.ses = graft_proof_attempt(@, k),
                      !.jobs = Append(@, [key |-> k, by |-> by, tn |-> t, old |-> "none"]),
                      !.told = Append(@, << >>),
                      !.scheduled = Append(@, j)]
  IN  run_idle_handler(callback(x1, j, "Scheduled", "none", "nothing"))

\* schedule_edition: the attempt is made if needed, its result kept for the end.
schedule_edition(x, k) ==
  LET j == Len(x.jobs) + 1
      s == IF HasAttempt(x.ses, k) THEN x.ses ELSE graft_proof_attempt(x.ses, k)
      x1 == [x EXCEPT !.ses = update_goal_node(s, k[1]),
                      !.jobs = Append(@, [key |-> k, by |-> "edit", tn |-> "none", old |-> s.att[k].state]),
                      !.told = Append(@, << >>),
                      !.edited = @ \cup {j}]
  IN  run_idle_handler(callback(x1, j, "Running", "none", "nothing"))

-----------------------------------------------------------------------------
(***************************************************************************)
(* Handlers.                                                               *)
(***************************************************************************)
Up == c.raised = "no"
Env == UNCHANGED <<calls, sent, setup, requests>>

Nexts == {"bisect", "bisect end", "nothing"}      \* how a bisection may go on

\* idle_handler: one scheduled attempt is given to its prover, if there is room; a
\* prover that is not installed, or a call that fails, is an InternalFailure.
idle_handler ==
  /\ Up /\ c.idle /\ Env
  /\ Cardinality(DOMAIN c.progress) < Limit
  /\ \/ c.scheduled = << >> /\ c' = [c EXCEPT !.idle = FALSE]
     \/ /\ c.scheduled # << >>
        /\ LET j == Head(c.scheduled)
               x == [c EXCEPT !.scheduled = Tail(@)]
           IN  \/ /\ KeyOf(c, j)[2] \in Installed
                  /\ c' = [x EXCEPT !.progress = @ @@ (j :> FALSE)]
               \/ c' = callback(x, j, "InternalFailure", "none", "nothing")

\* A task leaves the table; only one that was started is subtracted.
Leave(x, j) ==
  [x EXCEPT !.progress = Restrict(@, DOMAIN @ \ {j}),
            !.running = IF x.progress[j] THEN @ - 1 ELSE @]

\* timeout_handler, one result.  Results of calls that are not in the table are dropped.
timeout_handler(u) ==
  /\ Up /\ c.timeout /\ DOMAIN c.progress # {}
  /\ u \in sent
  /\ sent' = sent \ {u} /\ UNCHANGED <<calls, setup, requests>>
  /\ \/ u.job \notin DOMAIN c.progress /\ UNCHANGED c
     \/ /\ u.job \in DOMAIN c.progress /\ u.update = "ProverStarted"
        /\ LET x == callback(c, u.job, "Running", "none", "nothing")
           IN  c' = IF x.raised # "no" THEN x
                    ELSE [x EXCEPT !.running = @ + 1, !.progress[u.job] = TRUE]
     \/ /\ u.job \in DOMAIN c.progress /\ u.update = "ProverFinished"
        /\ \E next \in Nexts : c' = callback(Leave(c, u.job), u.job, "Done", u.answer, next)
     \/ /\ u.job \in DOMAIN c.progress /\ u.update = "InternalFailure"
        /\ c' = callback(Leave(c, u.job), u.job, "InternalFailure", "none", "nothing")

\* timeout_handler, an editor that has been closed: its old result, now obsolete.
edition_done(j) ==
  /\ Up /\ c.timeout
  /\ j \in c.edited
  /\ LET old == c.jobs[j].old
         x == [c EXCEPT !.edited = @ \ {j}]
     IN  c' = callback(x, j, "Done", IF old = "none" THEN "unknown" ELSE old, "nothing")
  /\ Env

\* The names below t are not in use by a job: a transformation that is applied again
\* makes new nodes.
Free(t) ==
  /\ t \notin c.ses.trans
  /\ \A j \in Pending(c) \cup c.edited : KeyOf(c, j)[1] \notin GoalsBelow(t)

\* apply_trans on idle.  It fails on a goal that has been removed.
apply_trans(a) ==
  LET x == [c EXCEPT !.todo = @ \ {a}]
      t == a.tn
      present == HasGoal(c.ses, On[t])
      done == [x EXCEPT !.ses = update_trans_node(graft_transf(@, t), t)]
      sub == CHOOSE g \in Subs[t] : TRUE
  IN  /\ Up
      /\ a \in c.todo
      /\ Free(t)
      /\ \/ present /\ a.by = "user" /\ c' = done
         \/ /\ present /\ a.by # "user" /\ Len(c.jobs) < MaxJobs
            /\ c' = schedule_proof_attempt(done, <<sub, a.prover>>, a.by, t)
         \/ a.by = "user" /\ c' = x                                 \* TSfailed
         \/ /\ present /\ a.by = "bisect"
            /\ \E next \in Nexts :
                 c' = IF next = "nothing" THEN [x EXCEPT !.bisected = FALSE]
                      ELSE schedule_transformation(x, t, next, a.prover)
         \/ ~ present /\ a.by # "user" /\ c' = Raise(x, "BadID")
      /\ Env
-----------------------------------------------------------------------------
(***************************************************************************)
(* Requests of the user, as itp_server.ml passes them on.                  *)
(***************************************************************************)
Request(kind) ==
  /\ Up
  /\ kind \in setup.requests
  /\ requests < MaxRequests
  /\ requests' = requests + 1
  /\ UNCHANGED <<calls, sent, setup>>

\* A prover on a selected goal.  Selecting a transformation or a theory is the same for
\* each unproved goal below it, one after the other.
Prove(k) ==
  /\ Request("Prove")
  /\ k[2] \in Installed /\ HasGoal(c.ses, k[1]) /\ Len(c.jobs) < MaxJobs
  /\ c' = schedule_proof_attempt(c, k, "user", "none")

Edit(k) ==
  /\ Request("Edit")
  /\ k[2] \in Installed /\ HasGoal(c.ses, k[1]) /\ Len(c.jobs) < MaxJobs
  /\ c' = schedule_edition(c, k)

Transform(t) ==
  /\ Request("Transform")
  /\ HasGoal(c.ses, On[t]) /\ Free(t) /\ \A a \in c.todo : a.tn # t
  /\ c' = schedule_transformation(c, t, "user", "none")

\* check_removable
check_removable(x, n) == \A k \in AttemptsBelow(n) : x.running_attempts[k] = 0

RemoveNode(n) ==
  /\ Request("Remove")
  /\ Exists(c.ses, n) /\ check_removable(c, n)
  /\ c' = [c EXCEPT !.ses = remove_subtree(@, n)]

\* Faulty variant: a proof that is obsolete is taken for complete.
CleanableLoose(s, n) ==
  IF n.kind = "pa" THEN s.pn[n.pa[1]] /\ s.att[n.pa].state # "unknown"
  ELSE s.pn[On[n.tn]] /\ ~ s.tn[n.tn]

\* Below a proved goal, what does not prove it.
Cleanable(s, n) ==
  IF n.kind = "pa" THEN s.pn[n.pa[1]] /\ ~ pa_ok(s.att[n.pa])
  ELSE s.pn[On[n.tn]] /\ ~ s.tn[n.tn]

\* The removals of clean, and of reset_proofs, which takes all, node by node, leafs first.
RemoveWhere(x, all) ==
  FoldLeft(LAMBDA y, n : IF Exists(y.ses, n) /\ (all \/ Cleanable(y.ses, n)) /\ check_removable(y, n)
                           THEN [y EXCEPT !.ses = remove_subtree(@, n)] ELSE y,
           x, AllNodes)

Clean == Request("Clean") /\ c' = RemoveWhere(c, FALSE)

ResetProofs == Request("ResetProofs") /\ c' = RemoveWhere(c, TRUE)

MarkAsObsolete ==
  /\ Request("MarkAsObsolete")
  /\ c' = [c EXCEPT !.ses = FoldSet(LAMBDA k, s : mark_obsolete(s, k), @, Key)]

\* Faulty variant: the tasks in progress stay in the table.
InterruptQueue ==
  /\ Request("Interrupt")
  /\ LET hear(x, j) == IF x.raised # "no" THEN x
                       ELSE callback(x, j, "Interrupted", "none", "nothing")
         x1 == FoldSet(LAMBDA j, x : hear(x, j), c, DOMAIN c.progress)
         x2 == FoldLeft(hear, x1, c.scheduled)
     IN  c' = [x2 EXCEPT !.scheduled = << >>]

\* interrupt: every task, then every scheduled attempt, hears Interrupted.
Interrupt ==
  /\ Request("Interrupt")
  /\ LET hear(x, j) == IF x.raised # "no" THEN x
                       ELSE callback(x, j, "Interrupted", "none", "nothing")
         x1 == FoldSet(LAMBDA j, x : hear(x, j), c, DOMAIN c.progress)
         x2 == FoldLeft(hear, [x1 EXCEPT !.progress = << >>, !.running = 0], c.scheduled)
     IN  c' = IF x1.raised # "no" THEN x1 ELSE [x2 EXCEPT !.scheduled = << >>]

-----------------------------------------------------------------------------
(* Replay, of the obsolete attempts (obsolete_only).                         *)

need_replay(s) == {k \in Key : HasAttempt(s, k) /\ s.att[k].obsolete}

\* find_prover: what becomes of an attempt whose prover may not be installed.
find_prover(s, k) ==
  LET taken == HasAttempt(s, <<k[1], NewProver>>)
  IN  CASE k[2] \in Installed -> "found"
        [] k[2] \notin Installed /\ setup.policy = "upgrade" -> IF taken THEN "remove" ELSE "upgrade"
        [] k[2] \notin Installed /\ setup.policy = "duplicate" -> IF taken THEN "keep" ELSE "duplicate"
        [] OTHER -> setup.policy

\* replay_proof_attempt.  Removing does not update the goal: the attempt is obsolete.
replay_proof_attempt(x, k) ==
  LET what == find_prover(x.ses, k)
      new == <<k[1], NewProver>>
  IN  CASE what = "keep" -> OnReplay(x, "Uninstalled")
        [] what = "remove" -> OnReplay([x EXCEPT !.ses = remove_proof_attempt(@, k)], "Removed")
        [] what = "found" -> schedule_proof_attempt(x, k, "replay", "none")
        [] what = "upgrade" ->
             schedule_proof_attempt(
               OnReplay([x EXCEPT !.ses = change_prover(@, k[1], k[2], NewProver)], "UpgradeProver"),
               new, "replay", "none")
        [] what = "duplicate" ->
             schedule_proof_attempt(OnReplay(x, "UpgradeProver"), new, "replay", "none")

\* replay: the attempts are counted, then replayed one after the other.
Replay ==
  LET ks == need_replay(c.ses)
      x == [c EXCEPT !.replayed = TRUE, !.count = Cardinality(ks)]
  IN  /\ Request("Replay")
      /\ ~ c.replayed
      /\ Len(c.jobs) + Cardinality(ks) <= MaxJobs
      /\ c' = IF ks = {} THEN [x EXCEPT !.reports = 1]
              ELSE FoldSet(LAMBDA k, y : replay_proof_attempt(y, k), x, ks)

\* bisect_proof_attempt, of a complete proof; one at a time.
Bisect(k, t) ==
  /\ Request("Bisect")
  /\ ~ c.bisected
  /\ pa_ok(c.ses.att[k])
  /\ On[t] = k[1] /\ Cardinality(Subs[t]) = 1 /\ Free(t) /\ \A a \in c.todo : a.tn # t
  /\ c' = schedule_transformation([c EXCEPT !.bisected = TRUE], t, "bisect", k[2])

UserStep ==
  \/ \E k \in Key : Prove(k) \/ Edit(k) \/ RemoveNode(Pa(k))
  \/ \E t \in Trans : Transform(t) \/ RemoveNode(Tn(t))
  \/ \E k \in Key, t \in Trans : Bisect(k, t)
  \/ Clean \/ ResetProofs \/ MarkAsObsolete \/ Interrupt \/ Replay

-----------------------------------------------------------------------------
(* Call_provers: external.  A call that was interrupted may still answer.    *)

Says(j, u, kind) ==
  /\ Up
  /\ kind \notin calls[j]
  /\ calls' = [calls EXCEPT ![j] = @ \cup {kind}]
  /\ sent' = sent \cup {u}
  /\ UNCHANGED <<c, setup, requests>>

ProverStarts(j) ==
  j \in DOMAIN c.progress /\ Says(j, [job |-> j, update |-> "ProverStarted", answer |-> "none"], "start")

ProverEnds(j) ==
  /\ j \in DOMAIN c.progress
  /\ \/ \E a \in {"valid", "unknown"} :
          Says(j, [job |-> j, update |-> "ProverFinished", answer |-> a], "end")
     \/ Says(j, [job |-> j, update |-> "InternalFailure", answer |-> "none"], "end")

Next ==
  \/ idle_handler
  \/ \E u \in sent : timeout_handler(u)
  \/ \E j \in c.edited : edition_done(j)
  \/ \E a \in c.todo : apply_trans(a)
  \/ UserStep
  \/ \E j \in Job : ProverStarts(j) \/ ProverEnds(j)

Spec == Init /\ [][Next]_vars

TakeResult == \E u \in sent : timeout_handler(u)
CanTake == Up /\ c.timeout /\ DOMAIN c.progress # {} /\ sent # {}

\* The scheduler runs its handlers, and a prover ends: it has a time limit.  The second
\* conjunct is WF_vars(TakeResult) with ENABLED written out, for TLC's sake.
FairSpec ==
  /\ Spec
  /\ WF_vars(idle_handler)
  /\ []<>~ CanTake \/ []<><<TakeResult>>_vars
  /\ \A j \in Job : WF_vars(ProverEnds(j))

-----------------------------------------------------------------------------
(***************************************************************************)
(* Properties, of the states before an exception has ended a handler.      *)
(***************************************************************************)
Final == {"Done", "Interrupted", "InternalFailure"}
IsProof(j) == c.jobs[j].by # "edit"
JobsOf(k) == {j \in Pending(c) : KeyOf(c, j) = k}

\* controller_itp.mli: the callback is called "at Scheduled, then Running, then Done".
\* Whatever interrupts, late results and other jobs do, a job hears its last status
\* once, when it leaves the queue or the table, and nothing after it.
CallbackProtocol ==
  Up => \A j \in DOMAIN c.jobs : IsProof(j) =>
    LET s == c.told[j]
    IN  /\ s[1] = "Scheduled"
        /\ \A i \in 2 .. Len(s) : s[i] = "Running" => i = 2
        /\ \A i \in DOMAIN s : s[i] \in Final => i = Len(s)
        /\ (j \in Pending(c)) <=> (s[Len(s)] \notin Final)

\* An attempt is marked as running as often as jobs work on it, so that it is not
\* removed under one of them, and number_of_running_provers counts the tasks that
\* were reported started.
CountersExact ==
  Up => /\ \A k \in Key : c.running_attempts[k] = Cardinality(JobsOf(k))
        /\ c.running = Cardinality({j \in DOMAIN c.progress : c.progress[j]})

\* After every request and handler the cached status of every node of the session is
\* what its attempts and sub-goals give.
ProvedUpToDate == Up => StatusUpToDate(c.ses)

\* "clean should not change proved status" (controller_itp.ml, clean).
CleanKeepsStatus ==
  [][Clean => /\ c'.ses.th = c.ses.th
              /\ \A g \in Goal : HasGoal(c'.ses, g) => c'.ses.pn[g] = c.ses.pn[g]]_vars


\* Every scheduled attempt hears a last status, although the idle handler stops when
\* the queue is empty and waits when the table is full.
EveryAttemptEnds ==
  \A j \in Job : (j \in DOMAIN c.jobs /\ IsProof(j)) ~>
    (~ Up \/ (j \in DOMAIN c.jobs /\ c.told[j][Len(c.told[j])] \in Final))

=============================================================================
