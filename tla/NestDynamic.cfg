SPECIFICATION RulesSpec
CONSTANTS
  NFiles = 1
  NProviders = 1
  Graphs <- ImportGraphs
  a = a
  b = b
  g = g
  library = library
  controller = controller
  p = p
  alias = alias
  Applications <- MCDynamicApplications
INVARIANT
  OnlyBrokenWiringIsReported
CHECK_DEADLOCK FALSE
