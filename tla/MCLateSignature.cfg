CONSTANTS
    EnvelopeLifetime = 3
    SigningPolls = 6
    SubmitPolls = 2
    WaitsForExpiry = TRUE
    MaxCalls = 2
    MaxClock = 13
SPECIFICATION Spec
CHECK_DEADLOCK FALSE
INVARIANT
    ReturnedSignatureIsUsable
