SPECIFICATION Spec
CONSTANTS
    t1 = t1  t2 = t2  t3 = t3  e1 = e1  e2 = e2  e3 = e3
    ann = ann  bob = bob
    Turns = {t1, t2, t3}
    Messages <- Everything
    Customers = {ann, bob}
    None = None
    Earlier = {e1, e2, e3}
    Starts <- AllStarts
    ModelConfigured = TRUE
    ModelTools = {"read", "lookup", "create", "escalate"}
    MaxIterations = 2
    MaxCalls = 1
    FailureThreshold = 2
    MayEnd = FALSE
    MaxInFlight = 1
    MaxFaults = 0
    MaxOutages = 2
SYMMETRY Symmetry
INVARIANTS TypeOK MemoryIsCurrent PersonOnRequest
           OncePerApproval YesMeansLastAsk PerformsLastAsk
PROPERTIES HandoffEndsChat ApprovalsConserved
CHECK_DEADLOCK FALSE
