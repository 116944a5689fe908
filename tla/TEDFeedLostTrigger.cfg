SPECIFICATION FairSpec
CONSTANTS
    Workers = {w1, w2}
    MaxUpdates = 4
    FetchFails = FALSE
    StreamBreaks = FALSE
    StreamEnds = FALSE
PROPERTIES
    ReceivedEventsReachTED
CHECK_DEADLOCK FALSE
