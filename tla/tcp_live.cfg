SPECIFICATION FairSpec
CONSTANTS
    Sockets = {s1, s2}
    Addrs = {a1, a2}
    Imeis = {i1}
    None = None
    Invalid = Invalid
    Whitelist = {i1}
    MaxPackets = 2
    Records = 1
    Window = 2
    Garbled = {}
    Unparsable = {}
    Unstorable = {}
    PortReuse = FALSE
    QueueMayFail = FALSE
    MaxEnds = 0
PROPERTIES
    ClosedIsForgotten
    ReceivedIsAnswered
\* every socket of the bounded set may have been used up
CHECK_DEADLOCK FALSE
