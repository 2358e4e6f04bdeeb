------------------------------- MODULE MCParts -------------------------------
(***************************************************************************)
(* TLC instance of the parts of the server that share no state: the queue  *)
(* of Queue.tla, the list of ArrayList.tla, the lines of Request.tla and   *)
(* the two wrappers of CpuLimit.tla and CpuLimitWin.tla.  A behaviour uses *)
(* one of them; the others stay in an initial state.  The queue grows      *)
(* three times and the list twice; lines have up to four characters, those *)
(* that start as a run up to nine.                                         *)
(***************************************************************************)
EXTENDS Queue

CONSTANTS Key, NoDatum, MaxListLen, Semi, NameChar, MaxLine, MaxRunLine, Codes, Signals, TimeLimits

MCDigits == [d \in {"d0", "d2"} |-> IF d = "d2" THEN 2 ELSE 0]

VARIABLES
  used,                                             \* the part this behaviour uses
  lkey, ldata, llen, lcapacity, found,              \* the list
  line, origin, parsed,                             \* a line
  timelimit, showtime, pc, status, limited, alarm, child, reaped, ended,    \* cpulimit-unix
  limits, wpc, handler, ex, wchild, code, jobOpen, processOpen, inJob, killed, failed, wended

lvars == <<lkey, ldata, llen, lcapacity, found>>
rvars == <<line, origin, parsed>>
cvars == <<timelimit, showtime, pc, status, limited, alarm, child, reaped, ended>>
wvars == <<limits, wpc, handler, ex, wchild, code, jobOpen, processOpen, inJob, killed, failed, wended>>

L == INSTANCE ArrayList WITH
       MaxLen <- MaxListLen, key <- lkey, data <- ldata, len <- llen, capacity <- lcapacity
R == INSTANCE Request WITH Digits <- MCDigits
C == INSTANCE CpuLimit WITH Patient <- TRUE
W == INSTANCE CpuLimitWin WITH Garbage <- {0, 152}, pc <- wpc, child <- wchild, ended <- wended

ASSUME ListAssumption == L!ArrayListAssumption
ASSUME LineAssumption == R!RequestAssumption
ASSUME WrapperAssumption == C!CpuLimitAssumption

PartsInit ==
  /\ used \in {"queue", "list", "line", "wrapper", "windows wrapper"}
  /\ Init
  /\ L!Init
  /\ IF used = "line" THEN R!Init
     ELSE line = << >> /\ origin = R!None /\ parsed = R!None
  /\ C!Init /\ (used = "wrapper" \/ (timelimit = 0 /\ showtime = FALSE))
  /\ W!Init /\ (used = "windows wrapper" \/ limits = FALSE)

PartsNext ==
  \/ used = "queue" /\ Next /\ UNCHANGED <<used, lvars, rvars, cvars, wvars>>
  \/ used = "list" /\ L!Next /\ UNCHANGED <<used, vars, rvars, cvars, wvars>>
  \/ used = "line" /\ R!Next /\ UNCHANGED <<used, vars, lvars, cvars, wvars>>
  \/ used = "wrapper" /\ C!Next /\ UNCHANGED <<used, vars, lvars, rvars, wvars>>
  \/ used = "windows wrapper" /\ W!Next /\ UNCHANGED <<used, vars, lvars, rvars, cvars>>

all == <<used, vars, lvars, rvars, cvars, wvars>>

\* An action of the Unix wrapper, as a step of the whole.
InWrapper(A) == used = "wrapper" /\ A /\ UNCHANGED <<used, vars, lvars, rvars, wvars>>

\* The fairness of CpuLimit!FairSpec: processes are scheduled and time passes.
PartsSpec ==
  /\ PartsInit /\ [][PartsNext]_all
  /\ WF_all(InWrapper(C!Wrapper))
  /\ WF_all(InWrapper(C!CpuLimitReached))
  /\ WF_all(InWrapper(C!AlarmRings))

\* The list is a map: a removal loses no other element, wherever the hole is.
ListImplementsTable == L!ImplementsTable

\* A line is a request exactly when its fields are as the protocol says, and the
\* request parse_request makes of it has these fields.
ParsesTheFields == R!ParsesTheFields

\* The request parse_request reads is the one prove_client.ml wrote.
RoundTrip == R!RoundTrip


\* Under a time limit the Unix wrapper ends, even if the command blocks for ever.
WrapperEnds == C!WrapperEnds

\* The Windows wrapper only lets a command run inside its job, has it ended when it
\* ends itself, and returns its exit code, as far as console events allow.
LimitedAndWaitedFor == W!LimitedAndWaitedFor
=============================================================================
