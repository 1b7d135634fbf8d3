SPECIFICATION FairSpec
CONSTANTS
    o1 = o1 o2 = o2 a1 = a1 a2 = a2 None = None
    Operators = {o1, o2}
    Actions = {a1, a2}
    MaxCallCost = 2
    MaxBlocks = 2
    MAX_COST_USD_PER_RUN = 3
    MAX_INVESTIGATE_TOOL_CALLS = 4
    MAX_VERIFY_TOOL_CALLS = 2
    RETRY_MAX = 2
INVARIANTS
    TypeOK
    CostBounded
    HonestRecord
    DecidedOnce
PROPERTIES
    RunEnds
CHECK_DEADLOCK FALSE
