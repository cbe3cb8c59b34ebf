SPECIFICATION EventsSpec
CONSTANTS
  Topics <- MCTopics
  Pids <- MCPids
  n1Threshold = 2
  CALLS_CAP = 2
  ENDPOINTS_CAP = 1
  MODELS_CAP = 1
  MaxLines = 5
INVARIANTS
  PercentilesAreNearestRank
  CapsDropTheLightest
  NoN1IsHidden
  EachProcessCountsOnce
CHECK_DEADLOCK FALSE
