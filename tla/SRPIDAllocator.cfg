SPECIFICATION FairSpec
CONSTANTS
    Callers = {c1, c2, c3}
    MaxSRPID = 4
    NoCaller = NoCaller
INVARIANTS
    TypeOK
    ScanSound
PROPERTIES
    ImplementsPool
    AllocationEnds
