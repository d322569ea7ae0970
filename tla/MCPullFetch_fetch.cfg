SPECIFICATION FairSpec
CONSTANTS
    Clients = {c1}
    None = None
    Failures = 3
    RefreshLimit = 1
    RecoveryLimit = 3
    Pieces = 2
    Digests = {1, 2}
    MaxSnapshots = 2
    MaxStops = 1
    MaxFaults = 2
INVARIANTS OneArchive ChargedOnce
PROPERTIES FetchEnds
CHECK_DEADLOCK FALSE
