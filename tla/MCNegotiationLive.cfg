CONSTANTS
    Tokens = {1, 2, 3, 4, 5, 6}
    NoToken = 0
    MaxTimeouts = 0
    MaxRetries = 2
    MaxLost = 2
    MaxJoins = 0
SPECIFICATION FairSpec
\* The two sides stop when they are linked or have failed.
CHECK_DEADLOCK FALSE
PROPERTIES
    FirstPairing
    RetryReconnects
