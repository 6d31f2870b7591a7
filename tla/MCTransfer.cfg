CONSTANTS
    N = 2
    MaxSends = 2
    MaxEvents = 2
    MaxLate = 1
SPECIFICATION FairSpec
INVARIANTS
    TypeOK
    WholeUnlessOverlapped
    AckedIsRecorded
    CompleteIsDelivered
PROPERTIES
    ResumedCompletes
    ImplementsDelivery
CHECK_DEADLOCK FALSE
