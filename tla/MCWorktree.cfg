SPECIFICATION WorktreeSpec
CONSTANTS
  Branches = {"f", "g"}
  Patches = {a, b}
  Requests <- MCRequests
  Nil = Nil
  MaxCommands = 3
  MaxMoves = 1
SYMMETRY MCSymmetry
CHECK_DEADLOCK FALSE
INVARIANT NothingLost
