SPECIFICATION Spec
CONSTANTS
    Tab = {t1, t2}
    Area <- TwoPages
    Lifetime = 1
    MaxInFlight = 2
    MaxTime = 2
SYMMETRY TabSymmetry
INVARIANTS
    TypeOK
    SignedOutTabsLeave
PROPERTIES
    ValidTokenIsKept
    ImplementsSession
