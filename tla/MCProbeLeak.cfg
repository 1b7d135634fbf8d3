SPECIFICATION Spec
CONSTANTS
    c1 = c1 c2 = c2 c3 = c3 None = None
    Callers = {c1, c2}
    CONSECUTIVE_FAILURE_THRESHOLD = 3
    CONSECUTIVE_FAILURE_TRIGGER = 2
    WINDOW_SECONDS = 2
    WINDOW_MIN_ATTEMPTS = 4
    HALF_OPEN_PROBE_INTERVAL_SECONDS = 2
    AUTO_DISABLE_AFTER_SECONDS = 5
    HandlerMax = 1
    MaxTime = 7
    MaxWindow = 4
    MaxFaults = 0
    MaxResets = 0
    MaxPatches = 0
SYMMETRY Symm
INVARIANTS
    HalfOpenHasProbe
CHECK_DEADLOCK FALSE
