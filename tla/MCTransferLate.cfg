CONSTANTS
    N = 2
    MaxSends = 2
    MaxEvents = 2
    MaxLate = 2
SPECIFICATION Spec
INVARIANTS
    TypeOK
    WholeUnlessOverlapped
    AckedIsRecorded
    CompleteIsDelivered
CHECK_DEADLOCK FALSE
