SPECIFICATION FairSpec
CONSTANTS
  Requests <- MCRequests
  StdoutMayBreak = FALSE
INVARIANTS
  TerminalRestored
  ReportReachesUser
  VerdictKept
PROPERTIES
  CommandEnds
  ImplementsContract
