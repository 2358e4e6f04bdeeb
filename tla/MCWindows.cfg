SPECIFICATION FairSpec
CONSTANTS
  c1 = c1
  c2 = c2
  Conn = {c1, c2}
  InitParallel = 1
  Setups <- AllSetups
  None = None
INVARIANTS AnswersToSender IoInFlight StartedThenFinished RequestsConserved
 
CHECK_DEADLOCK FALSE
