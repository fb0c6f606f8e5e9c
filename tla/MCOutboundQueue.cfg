\* Two messages, one stop, one failed statement, under fairness.
SPECIFICATION FairSpec
CONSTANTS
    p1 = p1
    Peers = {p1}
    Requested = {"automatic", "opportunistic", "direct", "propagated"}
    Timestamps = {0}
    HistoryLimit = 1
    Horizon = 1
    MaxAttempts = 2
    BackoffBase = 1
    MaxBackoff = 2
    Lease = 2
    CommandCapacity = 1
    MaxMessages = 2
    MaxFaults = 1
    MaxStops = 1
INVARIANTS
    TypeOK
    SingleFlight
    SendingIsOwned
    CopiesAreCurrent
    AttemptBudget
    OutcomeMatchesTransport
PROPERTIES
    FinalIsFinal
    BackoffIsKept
    ImplementsAtLeastOnce
    RetentionSparesQueue
    EveryMessageSettles
