SPECIFICATION Spec
CONSTANTS
    t1 = t1  t2 = t2  t3 = t3  e1 = e1  e2 = e2  e3 = e3
    ann = ann  bob = bob
    Turns = {t1, t2}
    Messages <- OverlapTalk
    Customers = {ann, bob}
    None = None
    Earlier = {e1, e2, e3}
    Starts <- AllStarts
    ModelConfigured = FALSE
    ModelTools = {}
    MaxIterations = 2
    MaxCalls = 1
    FailureThreshold = 2
    MayEnd = TRUE
    MaxInFlight = 2
    MaxFaults = 0
    MaxOutages = 0
SYMMETRY Symmetry
INVARIANTS ClaimsAreTrue TopicsSound
CHECK_DEADLOCK FALSE
