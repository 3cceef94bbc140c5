SPECIFICATION MCSpec
CONSTANTS
    N = 3
    MaxParallel = 2
    Gated = {2}
    RetryProducer = TRUE
    GateMaxRetries = 0
    Ids = {a, b, c}
    NoId = NoId
    Branches = {b1, b2}
    Verifiers = {v1, v2}
    K = 2
    Slots = 2
    ValueCalls = TRUE
    Agent <- MCAgent
    Program <- MCProgram
    Edits <- MCEdits
    Texts <- MCTexts
    MaxSessions <- MCMaxSessions
    MaxTokens <- MCMaxTokens
    Drafts <- MCDrafts
    Variants <- MCVariants
    MaxSteps = 3
INVARIANTS
    ReturnIsTrue
    AcceptsExactlyRunnable
    RefinementEarned
    
    JudgedAsDeclared
    AnswersHold
    TextIsServed
PROPERTIES
    ImplementsBoard
    EventuallyConcludes
    BudgetTold
    WalkEnds
CHECK_DEADLOCK FALSE
