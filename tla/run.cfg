SPECIFICATION FairSpec
CONSTANTS
    MaxTokens = 2
    MaxUSDCents = 0
    PerCallMaxTokens = 0
    Subtasks = {s1, s2}
    NoSubtask = NoSubtask
    Planner = Planner
    Synth = Synth
    Requests <- AllRequests
    MaxRetries = 1
    MaxCompactions = 1
    Usages <- MCUsages
    MaxUse = 1
    ToolTriggers = TRUE
    ApproverErrs = TRUE
    TokenThreshold = 50
    CallTokens = 1
INVARIANTS
    OvershootBounded
    StatusIsTrue
PROPERTIES
    EverySessionEnds
CHECK_DEADLOCK FALSE
