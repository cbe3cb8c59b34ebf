SPECIFICATION Spec
CONSTANTS
  f1 = f1
  f2 = f2
  Files <- MCFiles
  Admitted <- MCAdmitted
  NLines = 2
  Matches <- MCMatches
  ScopeCases <- MCScopeCases
  MaxEdits = 0
  MaxFailures = 0
  Top = 1
  ConfigCases <- MCConfigCases
  MaxChanges = 0
  TraceCases <- MCTraceCases
  Requests <- MCRequests
INVARIANTS
  OnlyItsOwnHunks
CHECK_DEADLOCK FALSE
