SPECIFICATION Spec
CONSTANTS
  Jobs <- MCJobs
  None = None
CHECK_DEADLOCK FALSE
INVARIANTS KeyKeptWhileOwed EndsAsRecorded WritesAlone
PROPERTY StoppedRunsEnd
