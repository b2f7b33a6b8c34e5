SPECIFICATION FairSpec
CONSTANTS
    Sessions = {o1, s1, s2}
    First = o1
    Superseding = {s1}
    Inherited = {a1}
    Approvals = {a1}
    Topics = {b1}
    MaxTurns = 2
    MaxFaults = 1
INVARIANTS TypeOK WorkSurvives HeldOnce AnsweredOnce
PROPERTY CreationEnds
CHECK_DEADLOCK FALSE
