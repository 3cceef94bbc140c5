SPECIFICATION MCSpec
CONSTANTS
    NumIdeas = 2
    p1 = p1
    p2 = p2
    Loops = {p1, p2}
    Gathers = TRUE
    MaxIterations <- MCMaxIterations
    MaxAccepts = 1
    MaxMishaps = 1
    Severities <- MCSeverities
    Critics = {c1, c2}
    Tools = {t1}
    Label <- MCLabel
    Order <- MCOrder
    AuditAnswers <- MCAnswers
    StopWhen = "no_high"
    HasReviser = TRUE
    AuditIterations = 2
    AuditSlots = 2
    c1 = c1
    c2 = c2
    t1 = t1
    None = None
    MaxTokens = 5
    MaxUSDCents = 0
    PerCallMaxTokens = 2
    Flags <- MCFlags
    Installed <- MCInstalled
    RoundsAsked = {0, 1, 3}
    DefaultRounds = 2
    RoundLimit = 2
    Usages <- MCUsages
    MaxRetries = 1
    Buffer = 2
    claude = claude
    gemini = gemini
    agy = agy
INVARIANTS
    AttemptsAgree
    CleanIsClean
    DebateIsTrue
PROPERTIES
    ImproveEnds
CHECK_DEADLOCK FALSE
