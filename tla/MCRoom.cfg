CONSTANTS
    Codes = {c1}
    Sockets = {s1, s2, s3}
    NoOne = NoOne
    NoCode = NoCode
    CREATE_ROOM_ATTEMPTS = 2
    MaxDown = 0
SPECIFICATION Spec
SYMMETRY Symmetric
INVARIANTS
    TypeOK
    FlagMatchesMap
    OneHostOneGuest
    ForgottenIsClosed
    ToldBeforeClosed
    PhantomIsStray
    PeersKnown
PROPERTIES
    OnlyItsHostCloses
    ImplementsService
