SPECIFICATION FairCopySpec
CONSTANTS
  Reports <- MCReports
  MaxScroll = 0
  MaxCopies = 2
  MaxGroups = 1
  Tools = 2
INVARIANTS
  LineIsTrue
PROPERTIES
  ImplementsView
CHECK_DEADLOCK FALSE
