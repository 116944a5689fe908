CONSTANTS
    ASN = 65000
    Listings <- MCListings
    UintSpace = 16
    MPLSLabelMax = 12
    MetricTypes = {"igp", "te"}
    Waypoints <- MCWaypoints
    Asked = {"te"}
SPECIFICATION FairSpec
INVARIANTS
    TypeOK
    LinksPointIntoTED
    TEDIsMerge
    CostsAreOptimal
    PathIsShortest
    FailureIsJustified
    ListVisitsWaypoints
    ComputedPathsValidate
PROPERTY ComputationEnds
CHECK_DEADLOCK FALSE
