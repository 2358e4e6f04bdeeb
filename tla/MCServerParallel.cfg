SPECIFICATION Spec
CONSTANTS
  c1 = c1
  c2 = c2
  f1 = f1
  f2 = f2
  p1 = p1
  p2 = p2
  Conn = {c1}
  MayClose = {c1}
  MaxRun = 3
  MaxInterrupt = 1
  ParallelArgs = {0, 2}
  MaxParallel = 1
  Fd = {f1, f2}
  ListenFd = ListenFd
  PipeFd = PipeFd
  NoFd = NoFd
  Pid = {p1, p2}
  ExitCauses = {"exit"}
  PipeCap = 1
  InitParallel = 1
  SingleClient = TRUE
  None = None
INVARIANTS NoIdleSlot RequestsConserved
SYMMETRY Symmetry
CHECK_DEADLOCK FALSE
