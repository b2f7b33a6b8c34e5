SPECIFICATION FairSpec
CONSTANTS
    Sessions = {s1}
    Requests = {r1, r2}
    Sweepers = {w1}
    Customers = {c1}
    None = None
    Background = w1
    IdleTTL = 2
    AbsoluteTTL = 4
    MaxTime = 5
    MaxSweepFaults = 1
INVARIANT TypeOK
PROPERTIES AdmittedIsLive SweepExpiresOnlyStale ActiveEnds
CHECK_DEADLOCK FALSE
