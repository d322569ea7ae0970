SPECIFICATION Spec
CONSTANTS
    Commands = {p1, p2}
    Readers = {x1, x2}
    None = None
    TTL = 1
    MaxTime = 2
    MaxTag = 3
    MaxVersion = 2
    MaxStops = 1
    MaxFaults = 1
SYMMETRY Symmetry
INVARIANTS LeaseKeeps AdmitsWhole
PROPERTIES TagsOnce
CHECK_DEADLOCK FALSE
