SPECIFICATION Spec
CONSTANTS
    MaxTokens = 2
    MaxUSDCents = 0
    PerCallMaxTokens = 0
    Subtasks = {s1, s2}
    NoSubtask = NoSubtask
    Planner = Planner
    Synth = Synth
    Requests <- SynthRequests
    MaxRetries = 1
    MaxCompactions = 0
    Usages <- MCUsages
    MaxUse = 1
    ToolTriggers = TRUE
    ApproverErrs = FALSE
    TokenThreshold = 0
    CallTokens = 1
INVARIANT DenialIsTerminal
CHECK_DEADLOCK FALSE
