SPECIFICATION MCSpec
CONSTANTS
    MaxTokens = 5
    MaxUSDCents = 0
    PerCallMaxTokens = 2
    RunCalls = {r1, r2}
    VisionCalls = {v}
    BareCalls = {}
    DailyTokens = 2
    MonthlyTokens = 3
    Usages <- MCUsages
    MaxUse = 2
    MaxRetries = 1
    LastDay = 1
    MonthOf <- MCMonthOf
    MaxRounds = 1
    KeepRecent = 3
    MaxCalls = 2
    MaxTurns = 2
    Subtasks = {a, b}
    MaxSessions = 2
    Width = 9
    Texts <- MCTexts
    Chars = {"a", "b", "t", "_", "."}
    Servers <- MCServers
    ToolsOf <- MCTools
    Declared <- MCDeclared
    DotConfigs <- MCDots
    BridgeTurns = {t1, t2}
    Writers = {m, n}
    Embedders <- MCEmbedders
    NoEmbedder <- MCNoEmbedder
    FactInputs <- MCFactInputs
    Goals <- MCGoals
    StopWords = {"z"}
    TopK = 1
    MaxOps = 3
INVARIANTS
    SpendBounded
    TurnIsSound
    OneVoice
    RoutedHome
    MemoryIsWhole
SYMMETRY Interchangeable
CHECK_DEADLOCK FALSE
