\* One source, two timestamps, four copies, one stop, one failed statement.
SPECIFICATION Spec
CONSTANTS
    p1 = p1
    Peers = {p1}
    Timestamps = {0, 1}
    HistoryLimit = 2
    Horizon = 0
    MaxCopies = 4
    MaxFaults = 1
    MaxStops = 1
INVARIANTS
    TypeOK
    NoDuplicates
    UnreadIsExact
    ProvenIsKept
