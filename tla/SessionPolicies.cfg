SPECIFICATION Spec
CONSTANTS
    Handlers = {h1}
    Receiver = receiver
    Plsp = {1, 2}
    Key = {k1}
    Setting = {s1}
    NoSetting = NoSetting
    MaxSRPID = 3
    MaxLSPID = 2
    TEDEnabled = TRUE
    TTLElapses = TRUE
    EmptyERO = TRUE
    Endings = {"pccCloses"}
    MaxRequests = 2
    MaxEvents = 1
INVARIANTS
    TypeOK
    InFlightKeepsIntent
    UniquePlspIDs
    QuiescentAgreement
PROPERTIES
    LSPIDNeverGoesBack
CHECK_DEADLOCK FALSE
