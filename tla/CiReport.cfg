SPECIFICATION Spec
CONSTANTS
  Invocations <- MCInvocations
  PerPage = 1
  MaxRuns = 2
  MaxOthers = 2
  MaxDeletes = 1
  MaxFailures = 1
INVARIANTS
  ExitIsTheVerdict
  EverySurfaceIsAnsweredFor
  OneCurrentSticky
PROPERTIES
  RunsEnd
CHECK_DEADLOCK FALSE
