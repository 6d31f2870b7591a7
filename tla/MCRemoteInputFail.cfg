CONSTANTS
    Keys = {k1, k2}
    NoKey = nokey
    Refused = {k2}
    MaxInput = 2
    MaxClicks = 1
    MaxUnread = 2
SPECIFICATION Spec
CHECK_DEADLOCK FALSE
INVARIANT RevokedReleases
