SPECIFICATION Spec
CONSTANTS
    Clients = {c1, c2}
    None = None
    Failures = 2
    RefreshLimit = 1
    RecoveryLimit = 3
    Pieces = 2
    Digests = {1, 2}
    MaxSnapshots = 1
    MaxStops = 0
    MaxFaults = 2
INVARIANTS RestartIsTaken
CHECK_DEADLOCK FALSE
