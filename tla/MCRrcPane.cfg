\* Two rooms of one hub and a hub without rooms, four acts, one message.
SPECIFICATION Spec
CONSTANTS
    h1 = h1
    h2 = h2
    a = a
    b = b
    Hubs = {h1, h2}
    Rooms = {a, b}
    Places <- OneHub
    NoHub = NoHub
    NoRoom = NoRoom
    NoTarget = NoTarget
    MaxStored = 1
    MaxFlights = 2
    MaxActs = 4
INVARIANTS TypeOK QueriesAreCoalesced
PROPERTIES NothingIsReadUnseen PendingDraftIsSaved
SYMMETRY Symmetry
CHECK_DEADLOCK FALSE
