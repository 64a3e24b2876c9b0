SPECIFICATION FairSpec
CONSTANTS
  c1 = c1
  c2 = c2
  c3 = c3
  Conns <- MCConns
  max_connections = 2
INVARIANTS CountIsExact CleanDrain
PROPERTIES ShutdownCompletes
