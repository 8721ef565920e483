CONSTANTS
    alice = alice
    bob = bob
    op = op
    issuer = issuer
    gateway = gateway
    outside = outside
    MaxI128 = 1000000
    IndexScale = 100
    RateScale = 100
    SecondsPerYear = 1
    BpsDenominator = 100
    MaxRateBps = 50
    DeployTime = 2
    MaxTime = 4
    Holders <- MCHolders
    Issuer <- issuer
    Gateway <- gateway
    OutsideAdmins = {}
    IssuerLive = FALSE
    TrustlineLimit = 6
    MaxOutside = 0
    Operators <- MCOperators
    Recipients <- MCRecipients
    Amounts <- MCAmounts
    Rates <- MCRates
    MaxBatchSize = 1
    MaxMinted = 2
SPECIFICATION Spec
INVARIANT
    BurnedAtMostMinted
