CONSTANTS
    Globs <- MCGlobs
    Config <- MCConfig
    Conns = {c1, c2}
    Requests <- MCRequests
    Alone <- MCAlone
    Chain <- MCChain
    Regexes <- MCRegexes
    Answers <- MCAnswers
    LimiterAnswers <- MCLimiterAnswers
    ListedModels <- MCListedModels
    MaxRequests = 2
    MaxTime = 2
SPECIFICATION AiSpec
SYMMETRY SymConns
INVARIANTS GuardHolds BudgetsAgree SentIsJustified
