\* One request to a process started with --offline.
SPECIFICATION FairSpec
CONSTANTS
    r1 = r1
    r2 = r2
    Requests = {r1}
    Offline = TRUE
    Capacity = 1
    EarlyFaults = 0
    LateFaults = 0
PROPERTIES
    QueryIsAnswered
CHECK_DEADLOCK FALSE
