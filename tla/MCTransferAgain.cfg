CONSTANTS
    N = 1
    MaxSends = 2
    MaxEvents = 1
    MaxLate = 1
SPECIFICATION FairSpec
PROPERTIES
    AcceptedCompletes
CHECK_DEADLOCK FALSE
