SPECIFICATION RulesSpec
CONSTANTS
  NFiles = 4
  NProviders = 3
  Graphs <- MCGraphs
  a = a
  b = b
  g = g
  library = library
  controller = controller
  p = p
  alias = alias
  Applications <- MCApplications
INVARIANTS
  ComponentsAreRight
  ChainsAreRight
  BootFailureIsReal
  WiringReportsAreReal
CHECK_DEADLOCK FALSE
