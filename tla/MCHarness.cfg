SPECIFICATION Spec
CONSTANTS
  w1 = w1
  w2 = w2
  None = None
  Worktrees = {w1, w2}
  Requests <- MCRequests
  Tracked <- MCTracked
  Edited <- MCEdited
  Recorded <- MCRecorded
  MaxCommands = 3
  MaxUpsets = 1
CHECK_DEADLOCK FALSE
INVARIANTS LinksResolve LinesFollowLinks RemoveUndoesAll
