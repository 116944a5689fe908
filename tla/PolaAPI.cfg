CONSTANTS
    ASN = 65000
    Listings <- MCListings
    UintSpace = 64
    MPLSLabelMax = 40
    MetricTypes = {"igp", "te", "delay"}
    Tables <- MCTables
    MaxChanges = 1
    Segments <- MCSegments
    Calls = {c1, c2}
    CreateRequests <- MCCreateRequests
    DeleteRequests <- MCDeleteRequests
    Configurations <- MCConfigurations
    SessionLists <- MCSessionLists
    Locators <- MCLocators
    Under <- MCUnder
    MaxRemovals = 1
SYMMETRY CallsAreAlike
SPECIFICATION Spec
INVARIANTS
    TypeOK
    ClientShowsTable
    ListsWereOnTED
    RequestsHitTheirPolicy
    DuplicatesNeedOverlap
    ListShowsPolicies
CHECK_DEADLOCK FALSE
