SPECIFICATION Spec
CONSTANTS
    d1 = d1 d2 = d2
    r1 = r1 r2 = r2 r3 = r3
    Devices = {d1, d2}
    Records = {r1, r2, r3}
    DeviceOf <- Senders
    TelemetryConcurrency = 2
    CacheTTL = 2
    DbMayFail = TRUE
    MaxVersion = 2
    MaxRestarts = 1
INVARIANTS
    TypeOK
    PredictionSetsBounded
    PredictionsSurvive
PROPERTY
    MatchUsesRecentRoutes
SYMMETRY SenderSymmetry
CHECK_DEADLOCK FALSE
