SPECIFICATION Spec
CONSTANTS
    None = None
    d1 = d1
    r1 = r1  r2 = r2  r3 = r3  r4 = r4
    Devices = {d1}
    Records = {r1, r2, r3, r4}
    DeviceOf <- Senders
    Report <- Reports
    Places <- TownPlaces
    Shapes <- Town
    RouteStops <- TownStops
    Assigned <- Dispatch
    TelemetryConcurrency = 2
    Attempts = 2
    KeepStops = 2
    MaxErrors = 1
    UtcOffset = 1
CHECK_DEADLOCK FALSE
INVARIANTS
    SamplesCounted
    ArrivalsInOrder
    DayRowsAreSound
PROPERTIES
    SharedStreetKeepsRoute
