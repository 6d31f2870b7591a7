CONSTANTS
    N = 2
    MaxSends = 1
    MaxEvents = 2
    MaxLate = 2
SPECIFICATION Spec
INVARIANTS
    AckedIsSaved
CHECK_DEADLOCK FALSE
