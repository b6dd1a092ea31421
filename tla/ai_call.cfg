\* Two retries, a budget of four half seconds, a loop up to two ticks late.
SPECIFICATION AiSpec
CONSTANTS
    MaxRetries = 2
    Budget = 4
    Limit = 2
    Pause = 1
    MaxTime = 6
INVARIANTS
    AiTypeOK
    OutcomeExplained
PROPERTIES
    ImplementsOutcome
CHECK_DEADLOCK FALSE
