SPECIFICATION Spec
CONSTANTS
    Handlers = {h1}
    Receiver = receiver
    Plsp = {1}
    Key = {k1}
    Setting = {s1}
    NoSetting = NoSetting
    MaxSRPID = 3
    MaxLSPID = 2
    TEDEnabled = FALSE
    TTLElapses = FALSE
    EmptyERO = TRUE
    Endings = {}
    MaxRequests = 2
    MaxEvents = 1
INVARIANTS
    StateReflectsLatestReport
CHECK_DEADLOCK FALSE
