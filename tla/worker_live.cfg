SPECIFICATION FairSpec
CONSTANTS
    d1 = d1
    r1 = r1
    r2 = r2
    None = None
    Devices = {d1}
    Records = {r1, r2}
    DeviceOf <- OneDevice
    CanRecords = {r1}
    Speeding = {r1, r2}
    Fences = {}
    FencesAt <- NoFences
    Window <- ShortWindows
    TelemetryConcurrency = 2
    Slots = {w1}
    Attempts = 2
    OfflineAge = 1
    DbMayFail = FALSE
    QueueMayFail = FALSE
    MaxRestarts = 0
INVARIANTS
    RaceCostsNoRecord
PROPERTIES
    EveryRecordStored
    SilentGoesOffline
    SpeedingIsAlerted
\* the records of the bounded set may all be done
CHECK_DEADLOCK FALSE
