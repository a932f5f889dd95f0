SPECIFICATION PartsSpec
CONSTANTS
  Places <- ThreePlaces
  Within <- Nested
  Runs = {r1, r2}
  Checks = {g1}
  None = None
  MaxStarts = 3
  Keys = {"dir"}
  MaxWrites = 1
  MaxEdits = 1
CHECK_DEADLOCK FALSE
INVARIANTS GitBesideNoRun ActsOnTheirs
SYMMETRY AnyRun
