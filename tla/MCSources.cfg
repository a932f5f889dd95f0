SPECIFICATION MCSpec
CONSTANTS
  Composes = {p1, p2}
  Commits = {c1, c2}
  None = None
  Forms = {"hex", "commit"}
  MaxStarts = 2
  MaxMoves = 1
  Jobs <- FetchJobs
  Heads = {"branch", "none"}
  Trees = {"none", "dir", "file", "repositories"}
  Folders <- WorkFolders
  MaxWrites = 2
  Places <- MCPlaces
  notCopied = {".git", ".qory"}
  Cases <- Setups
  MaxLines = 2
SYMMETRY Symmetric
CHECK_DEADLOCK FALSE
INVARIANTS NoHalfClone FollowsTheRemote
  FetchesAsListed StartsOnTheCommit
PROPERTY MemoHolds
