CONSTANTS
    alice = alice
    bob = bob
    issuer = issuer
    noSac = noSac
    Outsiders <- MCOutsiders
    HorizonAnswers = {"ok"}
    SkipsCarefully = FALSE
    Issuer <- issuer
    NoSac <- noSac
    MaxRuns = 3
SYMMETRY OutsiderSymmetry
SPECIFICATION Spec
CHECK_DEADLOCK FALSE
INVARIANT
    RenouncedIssuerHandedOver
