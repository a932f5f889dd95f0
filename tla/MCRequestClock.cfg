SPECIFICATION PartsSpec
CONSTANTS
  Goroutines = {p1, p2}
  Ids = {i1, i2}
  None = None
  Tries = 3
  Ticks = 2
  MaxCalls = 2
  MaxSecond = 0
  MaxWaited = 12
  MaxBacks = 1
CHECK_DEADLOCK FALSE

PROPERTY NeverTwice
INVARIANT MaskedAndReadAsWritten
