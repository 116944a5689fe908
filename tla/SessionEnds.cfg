SPECIFICATION FairSpec
CONSTANTS
    Handlers = {h1}
    Receiver = receiver
    Plsp = {1}
    Key = {k1}
    Setting = {s1}
    NoSetting = NoSetting
    MaxSRPID = 3
    MaxLSPID = 1
    TEDEnabled = TRUE
    TTLElapses = TRUE
    EmptyERO = FALSE
    Endings = {"connectionBreaks", "pccCloses", "deleteSession"}
    MaxRequests = 1
    MaxEvents = 1
INVARIANTS
    NoIntentOutlivesSession
PROPERTIES
    IntentsEnd
CHECK_DEADLOCK FALSE
