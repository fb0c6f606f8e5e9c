\* One process at a time: a newer binary is installed, and then the older again.
SPECIFICATION Spec
CONSTANTS
    p1 = p1
    p2 = p2
    Processes = {p1}
    Versions = {7, 8}
    Older = {6}
    Tables = {1}
    Columns = {5, 8}
INVARIANTS NewerIsRejected
