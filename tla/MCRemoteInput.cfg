CONSTANTS
    Keys = {k1}
    NoKey = nokey
    Refused = {}
    MaxInput = 2
    MaxClicks = 2
    MaxUnread = 3
SPECIFICATION FairSpec
CHECK_DEADLOCK FALSE
INVARIANTS
    TypeOK
    RevokedReleases
    SettledAgree
PROPERTIES
    EndReleases
