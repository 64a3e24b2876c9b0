CONSTANTS
    Escapes <- MCEscapes
    JsonTypes = {"application/json"}
    Limits <- MCLimits
    Operations <- MCOperations
    MaxSessions = 2
    SessionTtl = 2
    Forbidden = {"?"}
    MaxTime = 3
    Address <- MCAddress
    Tokens <- MCTokens
    Issuer = "idp"
    Wrap = 8
    MinRefreshOnMiss = 1
    Conns = {c1, c2}
    Requests <- MCRequests
    Alone <- MCAlone
    Routes <- MCRoutes
    McpEnabled = TRUE
    SpecFiles = {"specs"}
    Upgrade <- MCUpgrade
    BodyAccess = {"cel", "request-size-limit"}
    KeySets <- MCKeySets
    Statuses = {200, 500}
    MaxRequests = 3
    MaxRotations = 1
SPECIFICATION Spec
SYMMETRY SymConns
INVARIANTS AdmittedConforms AccessIsProven ToolCallsAreValid SessionContract
