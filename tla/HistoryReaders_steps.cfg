SPECIFICATION ReadSpec
\* The timestamps are bounded, and a failed purge or a freed read ends the program.
CHECK_DEADLOCK FALSE
CONSTANTS
    Modes = {A, B}
    NoMode = NoMode
    FirstModes = {A, B}
    Places <- MCPlaces
    p1 = p1
    Step = 2
    MaxTime = 8
    Gaps = {1, 3}
    Retention = 4
    Period = 1
    Readers = {w1}
INVARIANTS
    HeldIsSnapshot
PROPERTIES
    ImplementsHistory
    AnswersStable
SYMMETRY MCSymmetry
