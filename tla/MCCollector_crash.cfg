CONSTANTS
    c1 = c1
    c2 = c2
    t1 = t1
    m1 = m1
    Collectors = {c1, c2}
    AppendSources = {t1}
    SnapshotSources = {m1}
    Lines = {"a"}
    Inodes = {"i1"}
    NoProc = NoProc
    NoFile = NoFile
    NoIno = NoIno
    NoDigest = NoDigest
    NoLine = NoLine
    TailWindow = 2
    MaxDelta = 1
    MaxRounds = 0
    MaxLines = 2
    MaxRewrites = 0
    RewritesRace = FALSE
    MaxFaults = 2
SPECIFICATION Spec
SYMMETRY Symmetric
INVARIANTS
    OnceWithoutFaults
    IndexExact
PROPERTIES
    ImplementsLog
