SPECIFICATION FairSpec
CONSTANTS
  Reports <- MCReports
  MaxScroll = 1
  MaxCopies = 2
  MaxGroups = 2
INVARIANTS
  SelectionIsValid
  OneCopyAtATime
PROPERTIES
  CopyIsAnswered
CHECK_DEADLOCK FALSE
