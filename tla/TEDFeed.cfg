SPECIFICATION FairSpec
CONSTANTS
    Workers = {w1, w2}
    MaxUpdates = 4
    FetchFails = TRUE
    StreamBreaks = TRUE
    StreamEnds = TRUE
INVARIANTS
    TypeOK
    OneWorker
PROPERTIES
    TEDNeverGoesBack
    
CHECK_DEADLOCK FALSE
