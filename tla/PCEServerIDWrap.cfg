SPECIFICATION Spec
CONSTANTS
    MaxConns = 3
    IDSpace = 2
    Peers = {p1, p2}
    Deleters = {d1}
    ZeroKeepalive = FALSE
INVARIANTS
    OpenSessionsAreListed
CHECK_DEADLOCK FALSE
