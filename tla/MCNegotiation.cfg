CONSTANTS
    Tokens = {1, 2, 3, 4}
    NoToken = 0
    MaxTimeouts = 1
    MaxRetries = 1
    MaxLost = 1
    MaxJoins = 1
SPECIFICATION Spec
\* The two sides stop when they are linked or have failed.
CHECK_DEADLOCK FALSE
CONSTRAINT FewKinds
INVARIANTS
    TypeOK
    SentIsUnderWay
    ToldUnlessAlone
