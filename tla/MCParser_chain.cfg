CONSTANTS
    p1 = p1
    p2 = p2
    n1 = n1
    g1 = g1
    Parsers = {p1, p2}
    Nodes = {n1}
    Gaps = {g1}
    Values = {"a"}
    Dropped = Dropped
    Tombstone = Tombstone
    NoProc = NoProc
    Budget = 2
    MaxFiles = 3
    MaxBuild = 2
    MaxFaults = 1
SPECIFICATION FairSpec
INVARIANTS
    ChainLinked
    InputBound
    EvidenceIsWhole
PROPERTIES
    DoneMeansWhole
    ReachesIndex
