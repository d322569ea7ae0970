SPECIFICATION Spec
CONSTANTS
    Conversations = {c1}
    Freezes = {f1, f2}
    Leases = {l1}
    Clients = {r1}
    Sweeper = Sweeper
    None = None
    Slots = 1
    SourceAttempts = 1
    RecoveryLimit = 2
    TTL = 2
    Every = 2
    MaxTag = 2
    MaxTime = 3
    MaxChanges = 1
    MaxStops = 1
    MaxFaults = 1
SYMMETRY Symmetry
INVARIANTS HeldStays GoneStaysGone AtWorkServed
PROPERTIES TagNamesOne
CHECK_DEADLOCK FALSE
