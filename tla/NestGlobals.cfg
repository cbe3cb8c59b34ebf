SPECIFICATION RulesSpec
CONSTANTS
  NFiles = 1
  NProviders = 2
  Graphs <- MCGraphs
  a = a
  b = b
  g = g
  library = library
  controller = controller
  p = p
  alias = alias
  Applications <- MCApplications
INVARIANT
  UnreadGlobalsAreNotReported
CHECK_DEADLOCK FALSE
