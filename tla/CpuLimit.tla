------------------------------ MODULE CpuLimit ------------------------------
(***************************************************************************)
(* why3cpulimit, src/src/server/cpulimit-unix.c: a wrapper that forks,     *)
(* lets the child set its resource limits and execute a command, and       *)
(* waits for it, with an alarm as last resort.  The alarm is set to        *)
(* 2 * timelimit + 60 seconds of wall-clock time, so it expires long after *)
(* the wrapper has reached waitpid; the command may end at any moment.     *)
(***************************************************************************)
EXTENDS Naturals

CONSTANTS
  Codes,         \* exit codes of commands
  Signals,       \* signals that end commands; they include SIGXCPU and SIGKILL
  TimeLimits,    \* values of the first argument; 0 is no limit
  Patient        \* the command may block without using CPU time

SIGKILL == "SIGKILL"
SIGXCPU == "SIGXCPU"       \* RLIMIT_CPU reached
EXIT_FAILURE == 1

\* What the constants are; asserted where they are given values.
CpuLimitAssumption ==
  /\ {SIGKILL, SIGXCPU} \subseteq Signals
  /\ EXIT_FAILURE \in Codes
  /\ TimeLimits \subseteq Nat
  /\ Patient \in BOOLEAN

VARIABLES
  timelimit, showtime,    \* arguments
  pc,                     \* the wrapper: where it is, "exec" once it is the command
  status,                 \* what waitpid stored
  limited,                \* the command runs under RLIMIT_CPU
  alarm,                  \* "off", "set" or "rung"
  child,                  \* "none", "running", "blocked" or an outcome
  reaped,                 \* the child was waited for
  ended                   \* how the wrapper ended, or "no"

vars == <<timelimit, showtime, pc, status, limited, alarm, child, reaped, ended>>

Exited(c) == [kind |-> "exit", code |-> c]
Signaled(s) == [kind |-> "signal", signal |-> s]
Outcomes == {Exited(c) : c \in Codes} \cup {Signaled(s) : s \in Signals}
NotEnded == [kind |-> "no"]
Alive == {[kind |-> "running"], [kind |-> "blocked"]}

Init ==
  /\ timelimit \in TimeLimits
  /\ showtime \in BOOLEAN
  /\ pc = "start"
  /\ status = NotEnded
  /\ limited = FALSE
  /\ alarm = "off"
  /\ child = [kind |-> "none"]
  /\ reaped = FALSE
  /\ ended = NotEnded

Die(how) ==
  /\ pc' = "ended"
  /\ ended' = how

\* Fork, or no fork when there is nothing to wait for or to show: the wrapper then
\* becomes the command, as its child does, after the limits have been set.
start ==
  /\ pc = "start"
  /\ limited' = (timelimit > 0)
  /\ \/ /\ showtime \/ timelimit > 0
        /\ child' = [kind |-> "running"]
        /\ pc' = "alarm"
        /\ UNCHANGED ended
     \/ /\ showtime \/ timelimit > 0                \* fork fails
        /\ Die(Exited(EXIT_FAILURE))
        /\ UNCHANGED child
     \/ /\ ~ (showtime \/ timelimit > 0)
        /\ pc' = "exec"
        /\ UNCHANGED <<child, ended>>
  /\ UNCHANGED <<timelimit, showtime, status, alarm, reaped>>

set_alarm ==
  /\ pc = "alarm"
  /\ alarm' = IF timelimit > 0 THEN "set" ELSE "off"
  /\ pc' = "wait"
  /\ UNCHANGED <<timelimit, showtime, status, limited, child, reaped, ended>>


\* Faulty variant: the child is not killed.
InterruptedNoKill ==
  /\ pc = "wait"
  /\ alarm = "rung"
  /\ pc' = "wait again"
  /\ UNCHANGED <<timelimit, showtime, status, limited, alarm, child, reaped, ended>>

\* waitpid was interrupted by SIGALRM: kill the child, which may have ended by
\* itself in the meantime, and wait again.
waitpid_interrupted ==
  /\ pc = "wait"
  /\ alarm = "rung"
  /\ child' = IF child \in Alive THEN Signaled(SIGKILL) ELSE child
  /\ pc' = "wait again"
  /\ UNCHANGED <<timelimit, showtime, status, limited, alarm, reaped, ended>>

\* waitpid returns the child; the first call also when it ended before the alarm.
waitpid ==
  /\ pc \in {"wait", "wait again"}
  /\ child \in Outcomes
  /\ status' = child
  /\ reaped' = TRUE
  /\ pc' = "report"
  /\ UNCHANGED <<timelimit, showtime, limited, alarm, child, ended>>

\* The wrapper returns the exit status, or kills itself with the same signal.
Reported(s) == s

report ==
  /\ pc = "report"
  /\ Die(Reported(status))
  /\ UNCHANGED <<timelimit, showtime, status, limited, alarm, child, reaped>>

\* The wrapper has become the command, or execvp has failed.
command_ends ==
  /\ pc = "exec"
  /\ \E how \in Outcomes : Die(how)
  /\ UNCHANGED <<timelimit, showtime, status, limited, alarm, child, reaped>>

Wrapper == start \/ set_alarm \/ waitpid_interrupted \/ waitpid \/ report

-----------------------------------------------------------------------------
\* The command ends by itself; the CPU limit ends one that runs.
ChildEnds ==
  /\ child.kind = "running"
  /\ child' \in Outcomes
  /\ UNCHANGED <<timelimit, showtime, pc, status, limited, alarm, reaped, ended>>

CpuLimitReached == limited /\ ChildEnds /\ child' = Signaled(SIGXCPU)

\* The command waits for something that never comes: no CPU time is used.
ChildBlocks ==
  /\ Patient
  /\ child.kind = "running"
  /\ child' = [kind |-> "blocked"]
  /\ UNCHANGED <<timelimit, showtime, pc, status, limited, alarm, reaped, ended>>

AlarmRings ==
  /\ alarm = "set"
  /\ pc = "wait"
  /\ alarm' = "rung"
  /\ UNCHANGED <<timelimit, showtime, pc, status, limited, child, reaped, ended>>

Next == Wrapper \/ command_ends \/ ChildEnds \/ ChildBlocks \/ AlarmRings

Spec == Init /\ [][Next]_vars

\* The processes are scheduled and time passes: a command that keeps running meets
\* its CPU limit, and the alarm rings while the wrapper waits.
FairSpec ==
  Spec /\ WF_vars(Wrapper) /\ WF_vars(CpuLimitReached) /\ WF_vars(AlarmRings)

-----------------------------------------------------------------------------
Forked == child.kind # "none"

\* When the wrapper has ended its command has ended and was reaped: no prover runs
\* on unnoticed, even if the alarm rang while it was ending.
NoOrphan == pc = "ended" /\ Forked => child \in Outcomes /\ reaped

\* The wrapper ends as its command did, by exit code or by signal: this is what the
\* server reports to the client.
SameOutcome == pc = "ended" /\ Forked => ended = child

\* Under a time limit the wrapper ends, even if the command blocks for ever.
WrapperEnds == (timelimit > 0) ~> (pc = "ended")
=============================================================================
