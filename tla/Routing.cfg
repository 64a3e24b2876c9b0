SPECIFICATION Spec
CONSTANTS
  Templates <- MCTemplates
  Methods <- MCMethods
  Paths <- MCPaths
  MaxOps = 3
INVARIANTS RouterAgrees
