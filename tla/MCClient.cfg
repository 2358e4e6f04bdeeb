SPECIFICATION ClientSpec
CONSTANTS
  Goal = {"g0", "g1", "g2"}
  Trans = {"t1", "t2", "t3"}
  Prover = {"p", "old"}
  On <- MCOn
  Subs <- MCSubs
  Installed = {"p"}
  NewProver = "p"
  Setups <- MCSetups
  MaxJobs = 2
  MaxRequests = 3
  Limit = 1
  MaxCalls = 2
  MaxRead = 3
INVARIANTS
  AnswersKept DataUntilResult
  CallbackProtocol CountersExact ProvedUpToDate 
PROPERTIES ResultReturned WaitReturns CleanKeepsStatus EveryAttemptEnds
CHECK_DEADLOCK FALSE
