CONSTANTS
    A = a
    B = b
    Ids = {1, 2, 3}
    MaxWire = 2
    MaxInput = 2
SPECIFICATION FairSpec
INVARIANTS
    ActiveIsMatched
    PendingIsMatched
    ControlAgrees
    InputIsNew
PROPERTIES
    GlareResolves
    HalfOpenHeals
