\* Two peers, no message, four deeds of a user who does not wait, one answer
\* that overtakes and one request that fails.
SPECIFICATION ConversationSpec
CONSTANTS
    p1 = p1
    p2 = p2
    Peers = {p1, p2}
    NoPeer = NoPeer
    ThreadLimit = 1
    Matching = {}
    MaxMessages = 0
    MaxEvents = 0
    Patient = FALSE
    MaxDeeds = 4
    MaxFailures = 1
    MaxOvertakings = 1
INVARIANTS DraftsArePerPeer
SYMMETRY Symmetry
CHECK_DEADLOCK FALSE
