SPECIFICATION Spec
CONSTANTS
    Pages <- AllPages
    Keys = {k1, k2}
    None = None
    MaxInFlight = 3
    MaxSelections = 3
    MaxWorld = 3
    MaxFailures = 1
    Sockets = {s1, s2}
    User <- OneUser
    Devices = {d1}
    Nothing = Nothing
    MaxPublished = 3
    MaxCommands = 2
    MaxOutages = 1
INVARIANTS
    QuietViewIsRight
    HearsWhatItAsked
PROPERTIES
    ViewsSettle
\* a page that does not poll has nothing left to do
CHECK_DEADLOCK FALSE
