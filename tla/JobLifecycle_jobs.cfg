\* When no timestamp within the bounds is left, nothing may remain to be done.
SPECIFICATION Spec
CHECK_DEADLOCK FALSE
CONSTANTS
    Humans = {h1}
    Workers = {w1, w2}
    Factories = {"discard", "weak", "strong"}
    Timeout = 0
    Overlap = FALSE
    InOrder = FALSE
    Returns = FALSE
    Retentions = {2, 3}
    Period = 0
    Times = {2, 5}
    MaxDepth = 1
SYMMETRY WorkerSymmetry
INVARIANTS
    TypeOK
    NeverOrphaned
    OnePrimary
    RunOnce
    SafeWithoutRemoval
    PairsSound
