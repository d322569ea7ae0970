CONSTANTS
    c1 = c1
    c2 = c2
    t1 = t1
    m1 = m1
    Collectors = {c1}
    AppendSources = {t1}
    SnapshotSources = {}
    Lines = {"a", "b"}
    Inodes = {"i1"}
    NoProc = NoProc
    NoFile = NoFile
    NoIno = NoIno
    NoDigest = NoDigest
    NoLine = NoLine
    TailWindow = 2
    MaxDelta = 2
    MaxRounds = 0
    MaxLines = 2
    MaxRewrites = 2
    RewritesRace = FALSE
    MaxFaults = 1
SPECIFICATION FairSpec
INVARIANTS
    CompleteMeansDrained
PROPERTIES
    ResumesOnWhatItRead
    CatchesUp
    GoneIsNoted
