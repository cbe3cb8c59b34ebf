SPECIFICATION Spec
CONSTANTS
  c = c
  d = d
  Child <- c
  Descendants <- MCDescendants
  AppCodes <- MCAppCodes
  Durations <- MCDurations
  ESCALATION_STEP_MS = 1
  TIMEOUT_MAX = 3
  Permissions = {TRUE, FALSE}
  Faults <- MCHandledFaults
  MaxSignals = 2
  MaxEvents = 3
INVARIANT
  FinalizedOnEveryPath
