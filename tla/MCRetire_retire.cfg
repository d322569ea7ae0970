SPECIFICATION FairSpec
CONSTANTS
    A = A
    B = B
    C = C
    O = O
    sub1 = sub1
    sub2 = sub2
    o1 = o1
    o2 = o2
    Prompt = Prompt
    Result = Result
    None = None
    Owners = {o1, o2}
    Configured = o1
    Content <- Files3
    Stream <- TwoSubagents
    Source <- OneSource
    Since = 3
    MaxFaults = 2
    MaxReconfigs = 1
INVARIANTS
    CountedOnce
    WindowsApart
    LookbackKept
    RequestsKept
PROPERTIES
    SentOnce
    RetirementEnds
    DerivesAll
CHECK_DEADLOCK FALSE
