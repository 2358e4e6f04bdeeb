SPECIFICATION FairConnSpec
CONSTANTS
  LineLens = {0, 1, 5}
  MaxLines = 3
  READ_ONCE = 3
  CopyOrders = {"ascending"}
  NL = NL
  Junk = Junk
  AnswerLen <- MCAnswerLen
INVARIANT StreamsIntact
PROPERTIES WriteBufferIsFifo EveryLineAnswered
CHECK_DEADLOCK FALSE
