SPECIFICATION Spec
CONSTANTS
  f1 = f1
  f2 = f2
  Files <- MCFiles
  Admitted <- MCAdmitted
  NLines = 2
  Matches <- MCMatches
  ScopeCases <- MCScopeCases
  MaxEdits = 0
  MaxFailures = 1
  Top = 1
  ConfigCases <- MCConfigCases
  MaxChanges = 0
  TraceCases <- MCTraceCases
  Requests <- MCRequests
INVARIANTS
  FailureIsNeverSilent
CHECK_DEADLOCK FALSE
