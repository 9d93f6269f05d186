SPECIFICATION Spec
CONSTANTS
    Requests = {r1, r2}
    Known = {i1}
    Keys = {k1, k2}
    Marks = {m1}
    None = None
    MaxErrors = 1
    Readers = {g1, g2}
    Ttl <- ShortTtl
    ActiveFor = 1
    AlertsFor = 4
    RequestTime = 1
    MaxTime = 4
    MaxCalls = 3
SYMMETRY Symmetry
INVARIANTS
    FeedsAreRecent
PROPERTIES
    ImplementsStore
\* requests and time are bounded
CHECK_DEADLOCK FALSE
