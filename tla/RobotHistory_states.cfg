SPECIFICATION HistorySpec
\* The timestamps are bounded, and a failed purge ends the program.
CHECK_DEADLOCK FALSE
CONSTANTS
    Modes = {A, B, C}
    NoMode = NoMode
    FirstModes = {A, B, C}
    Places <- MCPlaces
    p1 = p1
    Step = 2
    MaxTime = 10
    Gaps = {1, 2, 3}
    Retention = 5
    Period = 1
INVARIANTS
    TracesMatchPresences
    NextModesExist
    SamplesCover
PROPERTIES
    OnlyStillRobotEmptied
SYMMETRY MCSymmetry
