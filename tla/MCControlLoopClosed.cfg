SPECIFICATION FairSpec
CONSTANTS
    Capacity = 1
    FlowWindow = 2
    MaxSaid <- MCMaxSaid
PROPERTIES
    ClosedIsTold
CHECK_DEADLOCK FALSE
