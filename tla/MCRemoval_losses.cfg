CONSTANTS
    Fallible = {"tip", "intent", "skeleton", "phase", "generation", "deletions", "end", "piece"}
    MaxSeq = 2
    MaxGen = 3
    MaxFailures = 2
    MaxStops = 1
    MaxLosses = 1
    MaxChecks = 0
    Attempts = 4
SPECIFICATION FairSpec
PROPERTIES
    RemovalEnds
    JudgeUndisturbed
INVARIANTS
    Kept
