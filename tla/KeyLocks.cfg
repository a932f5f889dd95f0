SPECIFICATION LocksSpec
CONSTANTS
  Runs = {r1, r2}
  Commands = {k1}
  Ids = {i1, i2}
  None = None
  MaxStarts = 4
CHECK_DEADLOCK FALSE
INVARIANTS UnwalledNeverBesideKey LiveRunsListed
PROPERTY EveryWaitEnds
