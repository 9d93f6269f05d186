SPECIFICATION Spec
CONSTANTS
    Sockets = {s1, s2, s3}
    Addrs = {a1, a2, a3}
    Imeis = {i1, i2}
    None = None
    Invalid = Invalid
    Whitelist = {i1, i2}
    MaxPackets = 0
    Records = 1
    Window = 1
    Garbled = {}
    Unparsable = {}
    Unstorable = {}
    PortReuse = FALSE
    QueueMayFail = FALSE
    MaxEnds = 1
SYMMETRY SocketSymmetry
INVARIANTS
    TypeOK
    RegistryAgrees
    OpenSocketsAreKnown
    ConnectedReadsOnline
    OnlineReadsConnected
PROPERTIES
    ImplementsSessions
\* every socket of the bounded set may have been used up
CHECK_DEADLOCK FALSE
