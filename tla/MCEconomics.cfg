CONSTANTS
    alice = alice
    bob = bob
    op = op
    issuer = issuer
    gateway = gateway
    outside = outside
    MaxI128 = 1000000
    IndexScale = 100
    RateScale = 100
    SecondsPerYear = 1
    BpsDenominator = 100
    MaxRateBps = 50
    DeployTime = 2
    MaxTime = 3
    Holders <- MCHolders
    Issuer <- issuer
    Gateway <- gateway
    OutsideAdmins <- MCOutsideAdmins
    IssuerLive = FALSE
    TrustlineLimit = 3
    MaxOutside = 1
    Operators <- MCOperators
    Recipients <- MCRecipients
    Amounts <- MCAmounts
    Rates <- MCRates
    MaxBatchSize = 2
    MaxMinted = 2
SYMMETRY HolderSymmetry
SPECIFICATION Spec
INVARIANTS
    TypeOK
    SupplyBookkeeping
    EventsGiveSupply
PROPERTIES
    PauseFreezesSupply
