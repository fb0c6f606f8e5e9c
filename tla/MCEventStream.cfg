\* Two requests of any kind, a failure of run() early or late, and one client.
SPECIFICATION StreamSpec
CONSTANTS
    r1 = r1
    r2 = r2
    Requests = {r1, r2}
    Offline = FALSE
    Capacity = 1
    EarlyFaults = 1
    LateFaults = 1
    Limit = 1
    MaxOthers = 1
    MaxLosses = 1
INVARIANTS
    StreamTypeOK
    WaitingIsHeld
    ShownIsCurrent
PROPERTIES
    CheckedIsAnswered
    SignalStops
    OnlineIsShown
CHECK_DEADLOCK FALSE
