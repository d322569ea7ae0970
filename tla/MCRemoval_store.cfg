CONSTANTS
    Fallible = {"intent", "end", "piece"}
    MaxSeq = 2
    MaxGen = 2
    MaxFailures = 1
    MaxStops = 1
    MaxLosses = 1
    MaxChecks = 1
    Attempts = 4
SPECIFICATION Spec
INVARIANTS
    StaysBuilt
    NoGhost
    NoFalseDamage
    Conclusive
