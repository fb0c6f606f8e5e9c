\* A room is left for another before its history arrives.
SPECIFICATION Spec
CONSTANTS
    h1 = h1
    h2 = h2
    a = a
    b = b
    Hubs = {h1}
    Rooms = {a, b}
    Places <- OneHub
    NoHub = NoHub
    NoRoom = NoRoom
    NoTarget = NoTarget
    MaxStored = 1
    MaxFlights = 2
    MaxActs = 4
PROPERTIES DelayedRepliesSpareTheRoom
SYMMETRY Symmetry
CHECK_DEADLOCK FALSE
