SPECIFICATION Spec
CONSTANTS
  LimbBits = 2
  CharBits = 1
  Magnitudes <- MCMagnitudes
  Slack <- MCSlack
  MaxLimbs = 4
  MaxBits = 9
  Exponents <- MCExponents
  Width = 14
INVARIANT MpzCanonical
PROPERTY ImplementsIntegers
CHECK_DEADLOCK FALSE
