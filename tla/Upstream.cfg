SPECIFICATION HostSpec
CONSTANTS
  r1 = r1
  r2 = r2
  t1 = t1
  t2 = t2
  k1 = k1
  k2 = k2
  burst = burst
  slow = slow
  Requests <- MCRequests
  Scenarios <- MCScenarios
  Setup <- MCSetup
  Threads <- MCThreads
  Keys <- MCKeys
  Policies <- MCPolicies
  Key <- MCKey
  Quota <- MCQuota
  Window <- MCWindow
  Second = 2
  cleanup_threshold = 4
  MAX_PARTITIONS = 1
  MaxTime = 6
  MAX_CACHE_ENTRIES = 1
  MAX_CONNECTIONS = 1
  cache_interval = 2
  max_execution_ms = 1
SYMMETRY MCSymmetry
INVARIANTS EgressConfined CacheServesFresh SentAsPromised HostCallsAreSound QuotaHolds RetryIsHonest
PROPERTIES BreakerOpensJustly
