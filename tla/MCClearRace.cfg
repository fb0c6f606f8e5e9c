\* One message and one clear of its conversation.
SPECIFICATION Spec
CONSTANTS
    p1 = p1
    p2 = p2
    Peers = {p1}
    Requested = {"direct"}
    Timestamps = {0}
    HistoryLimit = 1
    Horizon = 1
    MaxAttempts = 1
    BackoffBase = 1
    MaxBackoff = 2
    Lease = 2
    CommandCapacity = 1
    MaxMessages = 1
    MaxFaults = 0
    MaxStops = 0
PROPERTIES
    ClearSparesQueue
