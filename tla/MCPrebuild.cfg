SPECIFICATION Spec
CONSTANTS
  Jobs <- MCJobs
  None = None
CHECK_DEADLOCK FALSE
INVARIANTS ReportedIsChecked SharedFitsAll EndsClean
