SPECIFICATION Spec
CONSTANTS
    w1 = w1 w2 = w2 r1 = r1 r2 = r2 s1 = s1 s2 = s2 s3 = s3
    d1 = d1 d2 = d2 e1 = e1 e2 = e2 ev1 = ev1 ev2 = ev2
    None = None Orphan = Orphan
    TERMINAL_4XX_MAX_ATTEMPTS = 1
    RETRY_AFTER_CAP_SECONDS = 3600
    Workers = {w1, w2}
    Requests = {r1}
    Events = {ev1, ev2}
    Deliveries = {d1, d2}
    Endpoints = {e1}
    EventOf <- TwoEvents
    EndpointOf <- OrderedPair
    OrderedEndpoints = {e1}
    Slots = {s1, s2}
    Results <- PassOrRetry
    MAX_ATTEMPTS = 1
    MaxFaults = 1
    MaxExpiries = 1
    MaxSteals = 1
    MaxLost = 0
    MaxReplays = 0
    MaxPatches = 0
SYMMETRY Symm
INVARIANTS
    TypeOK
    NoLostDelivery
    OrderedFIFO
    OneInFlight
    HeadAnsweredFor
CHECK_DEADLOCK FALSE
