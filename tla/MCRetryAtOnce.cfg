CONSTANTS
    EnvelopeLifetime = 3
    SigningPolls = 6
    SubmitPolls = 2
    WaitsForExpiry = FALSE
    MaxCalls = 2
    MaxClock = 13
SPECIFICATION Spec
CHECK_DEADLOCK FALSE
INVARIANT
    RepeatAfterUnconfirmedIsSafe
