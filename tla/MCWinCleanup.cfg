SPECIFICATION Spec
CONSTANTS
  c1 = c1
  c2 = c2
  Conn = {c1, c2}
  InitParallel = 1
  Setups <- OneLeaves
  None = None
INVARIANTS CleanedUpAfterExit
CHECK_DEADLOCK FALSE
