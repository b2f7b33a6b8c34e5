SPECIFICATION Spec
CONSTANTS
    Sessions = {s1,s2}
    Requests = {r1}
    Sweepers = {w1}
    Customers = {c1, c2}
    None = None
    Background = w1
    IdleTTL = 1
    AbsoluteTTL = 1
    MaxTime = 1
    MaxSweepFaults = 0
SYMMETRY Symmetry
INVARIANT AtMostOneSole
PROPERTY NeverRevived
CHECK_DEADLOCK FALSE
