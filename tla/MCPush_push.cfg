CONSTANTS
    s1 = s1
    s2 = s2
    o1 = o1
    o2 = o2
    NoOwner = NoOwner
    Unknown = Unknown
    Owners = {o1, o2}
    Configured = o1
    Endpoint <- TwoEndpoints
    Sessions = {s1, s2}
    Items <- Everything
    Unsendable <- Bad
    Retirable = {s2}
    BatchBytes = 2
    MaxReconfigs = 1
    MaxFaults = 2
SPECIFICATION FairSpec
INVARIANTS
    OneReceiver
    CloseAfterStages
    SentMeansKept
PROPERTIES
    EverySent
