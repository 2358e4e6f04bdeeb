SPECIFICATION Spec
CONSTANTS
  c1 = c1
  c2 = c2
  f1 = f1
  f2 = f2
  p1 = p1
  p2 = p2
  Conn = {c1, c2}
  MayClose = {c1}
  MaxRun = 2
  MaxInterrupt = 0
  ParallelArgs = {0, 2}
  MaxParallel = 0
  Fd = {f1, f2}
  ListenFd = ListenFd
  PipeFd = PipeFd
  NoFd = NoFd
  Pid = {p1, p2}
  ExitCauses = {"exit"}
  PipeCap = 1
  InitParallel = 2
  SingleClient = FALSE
  None = None
INVARIANTS PollListOK EventsStillHold StartedThenFinished RequestsConserved NoLostChild
SYMMETRY Symmetry
CHECK_DEADLOCK FALSE
