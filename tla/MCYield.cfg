CONSTANTS
    op = op
    issuer = issuer
    gateway = gateway
    MaxI128 = 40000
    IndexScale = 100
    RateScale = 100
    SecondsPerYear = 1
    BpsDenominator = 100
    MaxRateBps = 50
    DeployTime = 2
    MaxTime = 5
    Holders = {}
    Issuer <- issuer
    Gateway <- gateway
    OutsideAdmins = {}
    IssuerLive = FALSE
    TrustlineLimit = 0
    MaxOutside = 0
    Operators <- MCOperators
    Recipients <- MCRecipients
    Amounts <- MCAmounts
    Rates <- MCRates
    MaxBatchSize = 0
    MaxMinted = 4
SPECIFICATION Spec
INVARIANTS
    ClaimedWithinEarned
    RoundingLossBounded
    SupplyCanBeRetired
PROPERTIES
    IndexNeverFalls
    NoInstantYield
    ImplementsYieldLedger
