SPECIFICATION Spec
CONSTANTS
  p1 = p1
  dflt = dflt
  h1 = h1
  h2 = h2
  Projects = {p1, dflt}
  DefaultProject = dflt
  SpecNames = {"orders"}
  Plugins <- MCPlugins
  Texts = {"t"}
  Usages <- MCUsages
  Handlers = {h1, h2}
  QueueCap = 1
  MaxCalls = 3
  MaxRestarts = 1
  MaxErrors = 1
SYMMETRY Symmetry
CHECK_DEADLOCK FALSE
INVARIANTS RevisionsAreTold StuckOnlyByFault PluginsResolve
