SPECIFICATION Spec
CONSTANTS
    t1 = t1  t2 = t2  t3 = t3  e1 = e1  e2 = e2  e3 = e3
    ann = ann  bob = bob
    Turns = {t1}
    Messages <- Everything
    Customers = {ann, bob}
    None = None
    Earlier = {e1, e2, e3}
    Starts <- GuestOnly
    ModelConfigured = TRUE
    ModelTools = {}
    MaxIterations = 2
    MaxCalls = 1
    FailureThreshold = 2
    MayEnd = FALSE
    MaxInFlight = 1
    MaxFaults = 1
    MaxOutages = 0
INVARIANT ClaimsAreTrue
CHECK_DEADLOCK FALSE
