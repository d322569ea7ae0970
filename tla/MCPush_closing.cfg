CONSTANTS
    s1 = s1
    s2 = s2
    o1 = o1
    o2 = o2
    NoOwner = NoOwner
    Unknown = Unknown
    Owners = {o1}
    Configured = o1
    Endpoint <- TwoEndpoints
    Sessions = {s1}
    Items <- OneRun
    Unsendable = {}
    Retirable = {}
    BatchBytes = 3
    MaxReconfigs = 0
    MaxFaults = 0
SPECIFICATION Spec
INVARIANTS
    CloseIsWhole
