SPECIFICATION PartsSpec
CONSTANTS
  Elt = {e1, e2}
  Junk = Junk
  InitCap = 1
  MaxLen = 5
  UIntMod = 20
  Key = {k1, k2, k3, k4}
  NoDatum = NoDatum
  MaxListLen = 4
  Semi = Semi
  NameChar = {"a"}
  MaxLine = 4
  MaxRunLine = 8
  Codes = {0, 1, 2, 127}
  Signals = {"SIGKILL", "SIGXCPU", "SIGSEGV"}
  TimeLimits = {0, 5}
INVARIANTS ParsesTheFields RoundTrip  LimitedAndWaitedFor
PROPERTIES ImplementsFifo ListImplementsTable WrapperEnds
CHECK_DEADLOCK FALSE
