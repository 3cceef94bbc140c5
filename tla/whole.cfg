SPECIFICATION MCSpec
CONSTANTS
    Procs = {p}
    Runners = {p}
    Plans <- MCPlans
    Modes <- MCModes
    NoMode = NoMode
    Threads <- MCThreads
    NoThread = NoThread
    Unsaveable = {"b"}
    MaxDepth = 1
    MaxSessions = 3
    Emitters = {e1, e2}
    Sentinel = Sentinel
    MaxEvents = 0
    Buffer = 1
    ErrorWindow = 2
    ErrorMax = 2
    DenyWindow = 3
    DenyAt = 2
    RepeatAt = 2
    Workers = {"", "gone"}
    Registered = {"w"}
    MaxHistory = 0
    MaxReplayed = 2
    Threshold = 2
    Context = 1
INVARIANTS
    WholePlan
CHECK_DEADLOCK FALSE
