SPECIFICATION FairSpec
CONSTANTS
    Capacity = 1
    FlowWindow = 2
    MaxSaid <- MCMaxSaid
INVARIANTS
    TypeOK
PROPERTIES
    LostIsTold
    ImplementsStream
CHECK_DEADLOCK FALSE
