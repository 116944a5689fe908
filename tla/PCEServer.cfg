SPECIFICATION FairSpec
CONSTANTS
    MaxConns = 2
    IDSpace = 3
    Peers = {p1, p2}
    Deleters = {d1, d2}
    ZeroKeepalive = TRUE
INVARIANTS
    TypeOK
    OpenSessionsAreListed
    EndedSessionsAreUnlisted
PROPERTIES
    SessionsWindDown
CHECK_DEADLOCK FALSE
