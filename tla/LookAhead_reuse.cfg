SPECIFICATION Spec
\* The messages are bounded, and a failed assertion ends the program.
CHECK_DEADLOCK FALSE
CONSTANTS
    Modes <- MCModes
    NoMode = NoMode
    ValueOf <- MCValueOf
    FirstModes = {"A"}
    NoSample = NoSample
    Places <- MCPlaces
    HumanSamples <- MCHumanSamples
    RobotSamples <- MCRobotSamples
    RobotDistance <- MCRobotDistance
    HumanDistance <- MCHumanDistance
    Factories <- MCFactories
    Infinity = 100
    Step = 1
    MaxTime = 6
    Gaps = {1}
    Retention = 9
    Period = 1
    FirstHuman = 5
    MaxInstances = 2
INVARIANTS
    TypeOK
    ReuseEquivalent
    BarriersOrdered
    PathsMatchTraces
    StrongNeverFails
    NotificationInRange
