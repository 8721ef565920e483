CONSTANTS
    EnvelopeLifetime = 3
    SigningPolls = 6
    SubmitPolls = 2
    WaitsForExpiry = TRUE
    MaxCalls = 3
    MaxClock = 13
SPECIFICATION Spec
CHECK_DEADLOCK FALSE
INVARIANTS
    TypeOK
    OutcomeIsTrue
    EarlyErrorsAreFinal
    EffectAtMostOnce
PROPERTIES
    EveryCallEnds
    ImplementsAttempts
