\* One Read is taken to return a whole message.
SPECIFICATION Spec
CONSTANTS
    IPv4 <- MCIPv4
    IPv6 <- MCIPv6
    LinkLocal <- MCLinkLocal
    Octets <- MCOctets
    LabelSpace <- MCLabelSpace
    OctetSpace <- MCOctetSpace
    Pccs <- OnePcc
    Paths <- MCPaths
    Keepalive = 30
    ASN = 65000
    Segmented = TRUE
    MaxRequests = 2
    MaxSRPID = 5
    MaxEvents = 1
    MaxInFlight = 2
INVARIANT
    ReaderInFrame
CHECK_DEADLOCK FALSE
