SPECIFICATION MCSpec
CONSTANTS
    Calls = {c1, c2}
    NoCall = NoCall
    Ids = {k1, k2, k3}
    MaxCalls = 3
    Kinds = {"claude", "gemini", "agy", "yaml"}
    Lines = {"init", "text", "echo", "call", "denied", "risky", "result", "bare", "noise", "long"}
    MaxLines = 2
    PipeSize = 1
    BufferSize = 1
    Outlives = TRUE
    Sessions = {s}
    Contents = {"secret", "plain"}
    Importers = {i, j}
    Absent = Absent
    MaxTasks = 1
    MaxFiles = 1
INVARIANTS
    NoCallLost
    CancelFindsItsCall
    TurnIsTold
    SharedIsClean
PROPERTIES
    CloseEndsCalls
    ServeReturns
    CancelReturns
    NotClobbered
CHECK_DEADLOCK FALSE
