CONSTANTS
    Keys = {k1}
    NoKey = nokey
    Refused = {}
    MaxInput = 2
    MaxClicks = 2
    MaxUnread = 3
SPECIFICATION Spec
CHECK_DEADLOCK FALSE
INVARIANT NoStuckKey
