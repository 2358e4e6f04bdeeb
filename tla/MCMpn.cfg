SPECIFICATION Spec
CONSTANTS
  LimbBits = 6
  CharBits = 2
  Edges <- MCEdges
  DivEdges <- MCDivEdges
  Counts <- MCCounts
  Bases <- MCBases
  Chars <- MCChars
  MaxChars = 4
  MaxN = 12
  Candidates <- MCCandidates
  Reps = 10
PROPERTIES LinearExact DivisionExact ConversionsExact NumbersExact
CHECK_DEADLOCK FALSE
