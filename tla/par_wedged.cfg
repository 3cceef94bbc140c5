SPECIFICATION ParFairSpec
CONSTANTS
    Branches = {b1, b2}
    Verifiers = {v1, v2}
    K = 2
    Slots = 2
    ValueCalls = TRUE
PROPERTY ParReturns
CHECK_DEADLOCK FALSE
