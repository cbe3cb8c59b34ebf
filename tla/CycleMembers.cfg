SPECIFICATION RulesSpec
CONSTANTS
  NFiles = 3
  NProviders = 0
  Graphs <- ImportGraphs
  a = a
  b = b
  g = g
  library = library
  controller = controller
  p = p
  alias = alias
  Applications <- MCApplications
INVARIANT
  EveryMemberIsReported
CHECK_DEADLOCK FALSE
