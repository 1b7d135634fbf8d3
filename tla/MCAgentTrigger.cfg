SPECIFICATION FairSpec
CONSTANTS
    l1 = l1 l2 = l2 e1 = e1 e2 = e2 None = None
    Listeners = {l1, l2}
    Endpoints = {e1, e2}
    HOUR = 2
    DAY = 3
    PER_HOUR = 1
    PER_DAY = 1
    VerdictMax = 1
    MaxTime = 3
    MaxEvents = 3
    MaxFaults = 1
INVARIANTS
    TypeOK
    DailyCap
    GivenBack
PROPERTIES
    SpacedRuns
    AlwaysDrains
CHECK_DEADLOCK FALSE
