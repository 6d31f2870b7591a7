SPECIFICATION FairSpec
CONSTANTS
    MaxLinks = 2
    MaxTroubles = 1
INVARIANTS
    TypeOK
    DirectIsInUse
    KeptForItsLink
PROPERTIES
    DisconnectEndsLink
CHECK_DEADLOCK FALSE
