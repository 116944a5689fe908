\* Pola and one PCC of each kind read each other's words; whole Reads.
SPECIFICATION Spec
CONSTANTS
    IPv4 <- MCIPv4
    IPv6 <- MCIPv6
    LinkLocal <- MCLinkLocal
    Octets <- MCOctets
    LabelSpace <- MCLabelSpace
    OctetSpace <- MCOctetSpace
    Pccs <- MCPccs
    Paths <- MCPaths
    Keepalive = 30
    ASN = 65000
    Segmented = FALSE
    MaxRequests = 2
    MaxSRPID = 5
    MaxEvents = 1
    MaxInFlight = 2
INVARIANTS
    TypeOK
    
    ReaderInFrame
    RegistryAgrees
    NoIntentLeft
PROPERTY
    RequestsEnd
CHECK_DEADLOCK FALSE
