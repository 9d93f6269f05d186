SPECIFICATION Spec
CONSTANTS
    Sockets = {s1, s2}
    Addrs = {a1, a2}
    Imeis = {i1}
    None = None
    Invalid = Invalid
    Whitelist = {i1}
    MaxPackets = 4
    Records = 2
    Window = 4
    Garbled = {4}
    Unparsable = {2}
    Unstorable = {3}
    PortReuse = FALSE
    QueueMayFail = FALSE
    MaxEnds = 0
SYMMETRY SocketSymmetry
INVARIANTS
    
    RegisteredTakesUpOnce
PROPERTIES
    LatestGoesBackOnlyByOverlap
\* every socket of the bounded set may have been used up
CHECK_DEADLOCK FALSE
