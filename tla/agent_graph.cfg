SPECIFICATION FairSpec
CONSTANTS
    MaxIterations = 3
    FailureThreshold = 2
    MaxCalls = 2
    MaxTurns = 2
INVARIANTS TypeOK AnswerIsThisTurns CallsAnswered OpenCallsEndTurn EscalationIsEarned
PROPERTY ImplementsBoundedAgent
CHECK_DEADLOCK FALSE
