SPECIFICATION Spec
CONSTANTS
  Dispatches = {d1, d2}
  Runs = 1
  MaxRateLimited = 1
  MaxCrashes = 1
  RateLimited = {d1}
  JournalFaults = {d1}
INVARIANTS NoLeaseForgotten SlotsExact
PROPERTIES ImplementsLife StoppedPoolEnds
