\* Two processes, binaries of two versions, databases of any earlier build.
SPECIFICATION Spec
CONSTANTS
    p1 = p1
    p2 = p2
    Processes = {p1, p2}
    Versions = {7, 8}
    Older = {1, 6}
    Tables = {1, 2}
    Columns = {5, 8}
SYMMETRY Symmetry
INVARIANTS TypeOK RunningIsComplete StartIsRepeatable
