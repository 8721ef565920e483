CONSTANTS
    alice = alice
    op1 = op1
    outside = outside
    op2 = op2
    issuer = issuer
    gateway = gateway
    MaxI128 = 100000
    IndexScale = 100
    RateScale = 100
    SecondsPerYear = 1
    BpsDenominator = 100
    MaxRateBps = 100
    DeployTime = 1
    MaxTime = 2
    Holders <- MCHolders
    Issuer <- issuer
    Gateway <- gateway
    OutsideAdmins <- MCOutsideAdmins
    IssuerLive = FALSE
    TrustlineLimit = 1
    MaxOutside = 0
    Operators <- MCOperators
    Recipients <- MCRecipients
    Amounts = {1}
    Rates = {100}
    MaxBatchSize = 2
    MaxMinted = 1
SYMMETRY OperatorSymmetry
SPECIFICATION Spec
PROPERTIES
    EffectsNeedRoles
