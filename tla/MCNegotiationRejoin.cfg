CONSTANTS
    Tokens = {1, 2, 3, 4}
    NoToken = 0
    MaxTimeouts = 0
    MaxRetries = 0
    MaxLost = 0
    MaxJoins = 1
SPECIFICATION FairSpec
\* The two sides stop when they are linked or have failed.
CHECK_DEADLOCK FALSE
PROPERTY Reconnects
