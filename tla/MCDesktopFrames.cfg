CONSTANTS
    Tiles = {t1, t2}
    MaxSessions = 2
    MaxChanges = 2
    MaxTroubles = 1
SPECIFICATION Spec
SYMMETRY Symmetric
CHECK_DEADLOCK FALSE
INVARIANTS
    TypeOK
    CanvasIsScreen
    LatestIsAccountedFor
