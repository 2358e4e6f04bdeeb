----------------------------- MODULE CpuLimitWin -----------------------------
(***************************************************************************)
(* why3cpulimit, src/src/server/cpulimit-win.c: a wrapper that creates a   *)
(* suspended process, puts it into a job object with the limits, resumes   *)
(* it and waits for it.  Windows calls ConsoleHandler in a thread of its   *)
(* own for a console event: its calls come between any two calls of main,  *)
(* and it closes the handles that main goes on using.  A call with a       *)
(* handle that is not open fails.                                          *)
(***************************************************************************)
EXTENDS Naturals

CONSTANTS
  Codes,        \* exit codes of commands
  Garbage       \* what an unsigned that was never written may hold

EXIT_FAILURE == 1
Terminated == 10        \* the exit code terminates gives
OverLimit == 1816       \* the exit code of a process that has met a limit of its job
NotWritten == 99        \* a value that was not stored yet

VARIABLES
  limits,       \* a limit is given on the command line
  pc,           \* main: the next call
  handler,      \* ConsoleHandler: its next call; at most one event comes
  ex,           \* the exit code read
  child,        \* "none", "suspended", "running" or "ended"
  code,         \* the exit code of a command that has ended
  jobOpen, processOpen,   \* the handles
  inJob,        \* the process was assigned to the job
  killed,       \* the handler ended the process
  failed,       \* a call of main failed although its handles were open
  ended         \* what main returned

vars == <<limits, pc, handler, ex, child, code, jobOpen, processOpen, inJob, killed, failed, ended>>

Init ==
  /\ limits \in BOOLEAN
  /\ pc = "CreateJobObject" /\ handler = "idle"
  /\ ex = NotWritten
  /\ child = "none" /\ code = 0
  /\ jobOpen = FALSE /\ processOpen = FALSE /\ inJob = FALSE
  /\ killed = FALSE /\ failed = FALSE
  /\ ended = NotWritten

Return(x) == pc' = "ended" /\ ended' = x

\* Main returns because a call failed, with its handles open or not.
Fail(open) == Return(EXIT_FAILURE) /\ failed' = (failed \/ open)

Go(next) == pc' = next /\ UNCHANGED <<failed, ended>>

\* A job that cannot be created is reported and main goes on.
CreateJobObject ==
  /\ pc = "CreateJobObject"
  /\ jobOpen' \in BOOLEAN
  /\ failed' = ~jobOpen'
  /\ pc' = "arguments"
  /\ UNCHANGED <<limits, handler, ex, child, code, processOpen, inJob, killed, ended>>

\* Bad arguments, or a command line that is too long or cannot be allocated.
arguments ==
  /\ pc = "arguments"
  /\ \/ Go(IF limits THEN "SetInformationJobObject" ELSE "CreateProcess")
     \/ Fail(TRUE)
  /\ UNCHANGED <<limits, handler, ex, child, code, jobOpen, processOpen, inJob, killed>>

SetInformationJobObject ==
  /\ pc = "SetInformationJobObject"
  /\ \/ jobOpen /\ Go("CreateProcess")
     \/ Fail(jobOpen)
  /\ UNCHANGED <<limits, handler, ex, child, code, jobOpen, processOpen, inJob, killed>>

\* Faulty variant: the process is not created suspended.
CreateRunning ==
  /\ pc = "CreateProcess"
  /\ \/ /\ child' = "running" /\ processOpen' = TRUE
        /\ Go("AssignProcessToJobObject")
     \/ Fail(TRUE) /\ UNCHANGED <<child, processOpen>>
  /\ UNCHANGED <<limits, handler, ex, code, jobOpen, inJob, killed>>

CreateProcess ==
  /\ pc = "CreateProcess"
  /\ \/ /\ child' = "suspended" /\ processOpen' = TRUE
        /\ Go("AssignProcessToJobObject")
     \/ Fail(TRUE) /\ UNCHANGED <<child, processOpen>>
  /\ UNCHANGED <<limits, handler, ex, code, jobOpen, inJob, killed>>

\* On failure main returns and leaves the suspended process behind.
AssignProcessToJobObject ==
  /\ pc = "AssignProcessToJobObject"
  /\ \/ jobOpen /\ processOpen /\ inJob' = TRUE /\ Go("ResumeThread")
     \/ Fail(jobOpen /\ processOpen) /\ UNCHANGED inJob
  /\ UNCHANGED <<limits, handler, ex, child, code, jobOpen, processOpen, killed>>

ResumeThread ==
  /\ pc = "ResumeThread"
  /\ child' = IF processOpen /\ child = "suspended" THEN "running" ELSE child
  /\ Go("WaitForSingleObject")
  /\ UNCHANGED <<limits, handler, ex, code, jobOpen, processOpen, inJob, killed>>

\* The wait ends with the process, or fails because the handle was closed.
WaitForSingleObject ==
  /\ pc = "WaitForSingleObject"
  /\ child = "ended" \/ ~processOpen
  /\ Go("GetExitCodeProcess")
  /\ UNCHANGED <<limits, handler, ex, child, code, jobOpen, processOpen, inJob, killed>>

\* With a closed handle ex keeps what it held.
GetExitCodeProcess ==
  /\ pc = "GetExitCodeProcess"
  /\ ex' = IF processOpen THEN code ELSE ex
  /\ Go("CloseHandle")
  /\ UNCHANGED <<limits, handler, child, code, jobOpen, processOpen, inJob, killed>>

\* The handles are closed and ex is returned, whatever it holds.
CloseHandle ==
  /\ pc = "CloseHandle"
  /\ jobOpen' = FALSE /\ processOpen' = FALSE
  /\ \E g \in Garbage : Return(IF ex = NotWritten THEN g ELSE ex)
  /\ UNCHANGED <<limits, handler, ex, child, code, inJob, killed, failed>>

Main ==
  \/ CreateJobObject \/ arguments \/ SetInformationJobObject \/ CreateProcess
  \/ AssignProcessToJobObject \/ ResumeThread \/ WaitForSingleObject
  \/ GetExitCodeProcess \/ CloseHandle

-----------------------------------------------------------------------------
\* ConsoleHandler calls terminates once main has registered it.
TerminateProcess ==
  /\ handler = "idle" /\ pc \notin {"CreateJobObject", "ended"}
  /\ handler' = "CloseHandle(hProcess)"
  /\ killed' = (processOpen /\ child # "ended")
  /\ child' = IF killed' THEN "ended" ELSE child
  /\ code' = IF killed' THEN Terminated ELSE code
  /\ UNCHANGED <<limits, pc, ex, jobOpen, processOpen, inJob, failed, ended>>

CloseProcess ==
  /\ handler = "CloseHandle(hProcess)" /\ pc # "ended"
  /\ handler' = "CloseHandle(ghJob)"
  /\ processOpen' = FALSE
  /\ UNCHANGED <<limits, pc, ex, child, code, jobOpen, inJob, killed, failed, ended>>

CloseJob ==
  /\ handler = "CloseHandle(ghJob)" /\ pc # "ended"
  /\ handler' = "done"
  /\ jobOpen' = FALSE
  /\ UNCHANGED <<limits, pc, ex, child, code, processOpen, inJob, killed, failed, ended>>

ConsoleHandler == TerminateProcess \/ CloseProcess \/ CloseJob

\* The command ends by itself or because of a limit of the job.
ChildEnds ==
  /\ child = "running"
  /\ child' = "ended"
  /\ code' \in Codes \cup (IF limits /\ inJob THEN {OverLimit} ELSE {})
  /\ UNCHANGED <<limits, pc, handler, ex, jobOpen, processOpen, inJob, killed, failed, ended>>

Next == Main \/ ConsoleHandler \/ ChildEnds

Spec == Init /\ [][Next]_vars

-----------------------------------------------------------------------------
\* A command only runs inside the job that limits it.  It has ended when the wrapper
\* ends, unless a console event came before it was created, when TerminateProcess had
\* nothing to end and the handles are closed under the wait.  Without a console event
\* or a failed call the wrapper returns the exit code of the command.
LimitedAndWaitedFor ==
  /\ child = "running" => inJob
  /\ pc = "ended" /\ (handler = "idle" \/ killed) => child # "running"
  /\ pc = "ended" /\ handler = "idle" /\ ~failed => child = "ended" /\ ended = code
=============================================================================
