SPECIFICATION Spec
CONSTANTS
  Requests <- MCRequests
  StdoutMayBreak = TRUE
INVARIANT
  VerdictKept
