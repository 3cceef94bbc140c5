SPECIFICATION Spec
CONSTANTS
    Kinds = {"claude", "gemini", "agy", "yaml"}
    Lines = {"text", "noise"}
    MaxLines = 2
    PipeSize = 1
    BufferSize = 1
    Outlives = FALSE
INVARIANTS
    PayloadKept
CHECK_DEADLOCK FALSE
