SPECIFICATION MCSpec
CONSTANTS
    N = 1
    MaxParallel = 2
    Gated = {}
    RetryProducer = TRUE
    GateMaxRetries = 0
    Ids = {a}
    NoId = NoId
    Branches = {b1, b2}
    Verifiers = {v1, v2}
    K = 2
    Slots = 2
    ValueCalls = TRUE
    Agent <- MCAgent
    Program <- MCProgram
    Edits <- MCEdits
    Texts <- MCTexts
    MaxSessions <- MCMaxSessions
    MaxTokens <- MCMaxTokens
    Drafts <- MCDrafts
    Variants <- MCVariants
    MaxSteps = 0
INVARIANT SignedAsShown
CHECK_DEADLOCK FALSE
