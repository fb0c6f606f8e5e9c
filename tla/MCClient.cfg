\* Three addresses, room for two pages or three units of bytes; every page of
\* up to four lines; a view of two addresses and four rendered pages; two peers,
\* three messages, threads of two, one event, four deeds of a user who waits.
SPECIFICATION ClientSpec
CONSTANTS
    Urls = {1, 2, 3}
    Lifetimes = {0, 1}
    Sizes = {1, 2}
    Entries = 2
    Bytes = 3
    MaxTime = 1
    MaxRunning = 2
    Lines <- MCLines
    MaxLines = 4
    PartialLimit = 1
    DefaultSeconds = 1
    SecondsLimit = 2
    Addresses = {1, 2}
    None = None
    MaxHistory = 3
    MaxPages = 4
    MaxElements = 2
    p1 = p1
    p2 = p2
    Peers = {p1, p2}
    NoPeer = NoPeer
    ThreadLimit = 2
    Matching = {2}
    MaxMessages = 3
    MaxEvents = 1
    Patient = TRUE
    MaxDeeds = 4
    MaxFailures = 0
    MaxOvertakings = 0
INVARIANTS
    ClientTypeOK
    StalenessIsBounded
    PagesAreWhole
    ViewIsCurrent
    QuietPaneIsTrue
PROPERTIES
    EvictionIsFair
SYMMETRY Symmetry
CHECK_DEADLOCK FALSE
