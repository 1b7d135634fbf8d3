SPECIFICATION GatesSpec
CONSTANTS
    c1 = c1 c2 = c2 c3 = c3 t1 = t1 t2 = t2 t3 = t3 None = None
    Callers = {c1, c2, c3}
    RATE = 2
    KeyTTL = 3
    MaxLag = 1
    MaxTime = 7
    Tokens = {t1, t2, t3}
    MaxInflight = 2
    SLOT_TTL_SECONDS = 3
    HandlerMax = 2
    MaxFaults = 2
SYMMETRY Symm
INVARIANTS
    TypeOK
    RateUpToRewinds
    GatesTypeOK
    CapRespected
PROPERTIES
    MeetsContract
    RefusedAtCap
CHECK_DEADLOCK FALSE
