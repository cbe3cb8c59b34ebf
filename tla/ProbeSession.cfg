SPECIFICATION FairSpec
CONSTANTS
  c = c
  d = d
  Child <- c
  Descendants = {}
  AppCodes <- MCAppCodes
  Durations <- MCDurations
  ESCALATION_STEP_MS = 1
  TIMEOUT_MAX = 3
  Permissions = {TRUE}
  Faults <- MCHandledFaults
  MaxSignals = 2
  MaxEvents = 3
INVARIANTS
  FinalizedOnEveryPath
  NothingLeftOver
PROPERTIES
  ImplementsContract
  SessionsEnd
