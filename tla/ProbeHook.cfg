SPECIFICATION Spec
CONSTANTS
  r1 = r1
  r2 = r2
  q1 = q1
  q2 = q2
  NoRequest = NoRequest
  Requests <- MCRequests
  Queries <- MCQueries
  blockThresholdMs = 1
  Settings = {"absent", "malformed", "valid"}
  Filters = {"malformed", "valid"}
  Faults = {"append", "install", "collector"}
  MaxWork = 3
  MaxFaults = 1
  MaxTicks = 3
INVARIANTS
  RecordsAreComplete
  QueriesStayWithTheirRequest
  WindowsAddUp
  LifecycleOrder
SYMMETRY MCSymmetry
CHECK_DEADLOCK FALSE
