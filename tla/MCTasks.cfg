\* Two propagation nodes and a peer in a table of two. One hub with two rooms,
\* one of them typed in two ways; five commands, two stops of the RRC task.
SPECIFICATION TasksSpec
CONSTANTS
    n1 = n1
    Peers = {3}
    Nodes = {}
    Propagation = {1, 2}
    RrcHubs = {}
    Names = {n1}
    Hops = {1, 2}
    KnownLimit = 2
    Pacing = 2
    NoData = NoData
    NoName = NoName
    NoNode = NoNode
    Arriving <- MCArriving
    MaxTime = 1
    MaxAnnounces = 3
    MaxStops = 1
    MaxFaults = 1
    h1 = h1
    r1 = r1
    R1 = R1
    r2 = r2
    Nothing = Nothing
    Hubs = {h1}
    Spellings = {r1, R1, r2}
    Rooms = {r1, r2}
    Normal <- MCNormal
    EventLimit = 2
    MaxCommands = 5
    MaxTaskStops = 2
    MaxDrops = 1
    MaxFailures = 1
INVARIANTS
    TasksTypeOK
    DirectoryCatchesUp
    
    RoomsAreRestored
    ClientsAreTold
PROPERTIES
    DownloadsKeepPace
CHECK_DEADLOCK FALSE
