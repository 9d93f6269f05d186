SPECIFICATION Spec
CONSTANTS
    d1 = d1
    r1 = r1
    r2 = r2
    None = None
    Devices = {d1}
    Records = {r1, r2}
    DeviceOf <- OneDevice
    CanRecords = {}
    Speeding = {}
    Fences = {f1, f2}
    FencesAt <- Overlapping
    Window <- ShortWindows
    TelemetryConcurrency = 1
    Slots = {w1, w2}
    Attempts = 1
    OfflineAge = 1
    DbMayFail = TRUE
    QueueMayFail = TRUE
    MaxRestarts = 1
SYMMETRY SlotSymmetry
INVARIANTS
    TypeOK
    AlertBurstBounded
    NeverSilentStaysOnline
\* the records of the bounded set may all be done
CHECK_DEADLOCK FALSE
