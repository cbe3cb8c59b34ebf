SPECIFICATION Spec
CONSTANTS
  Reports <- MCReports
  MaxScroll = 1
  MaxCopies = 2
  MaxGroups = 2
INVARIANT
  EscapeLeadsHome
CHECK_DEADLOCK FALSE
