SPECIFICATION Spec
CONSTANTS
    c1 = c1 c2 = c2 c3 = c3 None = None
    Callers = {c1, c2}
    CONSECUTIVE_FAILURE_THRESHOLD = 4
    CONSECUTIVE_FAILURE_TRIGGER = 2
    WINDOW_SECONDS = 2
    WINDOW_MIN_ATTEMPTS = 4
    HALF_OPEN_PROBE_INTERVAL_SECONDS = 2
    AUTO_DISABLE_AFTER_SECONDS = 4
    HandlerMax = 1
    MaxTime = 5
    MaxWindow = 4
    MaxFaults = 1
    MaxResets = 1
    MaxPatches = 1
SYMMETRY Symm
INVARIANTS
    TypeOK
    ProbeAlone
    TriggerOnce
PROPERTIES
    NoInstantRetrip
    DisableDecision
CHECK_DEADLOCK FALSE
