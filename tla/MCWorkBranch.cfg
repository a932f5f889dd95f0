SPECIFICATION PartsSpec
CONSTANTS
  r1 = r1
  r2 = r2
  c1 = c1
  c2 = c2
  Runs = {r1, r2}
  Repositories <- MCRepositories
  Stage <- MCStage
  Contents <- MCContents
  None = None
  MaxBranchTries = 2
  MaxPersonMoves = 1
  Procs = {c1, c2}
  Types <- MCTypes
  CheckedTypes = {"a"}
  Role <- MCRole
  Names <- MCNames
  Texts = {"x", "bad"}
  Good = {"x"}
  Lists <- MCLists
  Bodies <- MCBodies
  Folds = TRUE
  MaxVersions = 2
  MaxCommands = 3
  MaxEdits = 1
CHECK_DEADLOCK FALSE
INVARIANTS VersionsArePushed VersionsGoOn StoredOnce StoredAsDone
SYMMETRY Commands
