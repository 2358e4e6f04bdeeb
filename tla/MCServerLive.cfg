SPECIFICATION FairSpec
CONSTANTS
  c1 = c1
  c2 = c2
  f1 = f1
  f2 = f2
  p1 = p1
  p2 = p2
  Conn = {c1, c2}
  MayClose = {c1}
  MaxRun = 1
  MaxInterrupt = 1
  ParallelArgs = {0, 2}
  MaxParallel = 0
  Fd = {f1, f2}
  ListenFd = ListenFd
  PipeFd = PipeFd
  NoFd = NoFd
  Pid = {p1}
  ExitCauses = {"exit"}
  PipeCap = 1
  InitParallel = 1
  SingleClient = FALSE
  None = None
PROPERTIES EveryRunAnswered InterruptStops
CHECK_DEADLOCK FALSE
