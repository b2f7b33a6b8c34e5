SPECIFICATION FairSpec
CONSTANTS
    t1 = t1  t2 = t2  t3 = t3  e1 = e1  e2 = e2  e3 = e3
    ann = ann  bob = bob
    Turns = {t1, t2}
    Messages <- FaultTalk
    Customers = {ann, bob}
    None = None
    Earlier = {e1, e2, e3}
    Starts <- OneCustomer
    ModelConfigured = TRUE
    ModelTools = {"create"}
    MaxIterations = 1
    MaxCalls = 1
    FailureThreshold = 1
    MayEnd = FALSE
    MaxInFlight = 2
    MaxFaults = 1
    MaxOutages = 1
INVARIANTS ReplyFollowsQuestion ActsOnTranscript
PROPERTIES TurnsAreBounded TailIsBestEffort
CHECK_DEADLOCK FALSE
