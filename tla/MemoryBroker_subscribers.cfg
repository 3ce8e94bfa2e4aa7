SPECIFICATION MemoryFairSpec
CHECK_DEADLOCK FALSE
CONSTANTS
    Subscribers = {s1, s2}
    MaxMessages = 3
INVARIANTS
    MemoryTypeOK
    NoneSkipped
PROPERTIES
    Delivered
    DestructorEnds
