SPECIFICATION Spec
CONSTANTS
  f1 = f1
  f2 = f2
  Files <- MCFiles
  Admitted <- MCAdmitted
  NLines = 2
  Matches <- MCMatches
  ScopeCases <- MCScopeCases
  MaxEdits = 2
  MaxFailures = 1
  Top = 1
  ConfigCases <- MCConfigCases
  MaxChanges = 1
  TraceCases <- MCTraceCases
  Requests <- MCRequests
INVARIANTS
  BadInputsAreAnswered
  ConfigIsNearest
  ScopeIsTrue
CHECK_DEADLOCK FALSE
