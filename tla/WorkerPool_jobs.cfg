\* An idle pool waits for messages: it may really stop.
SPECIFICATION FairSpec
CHECK_DEADLOCK FALSE
CONSTANTS
    Workers = {w1, w2, w3}
    NoOne = NoOne
    MaxNext = 2
    MaxJobs = 3
INVARIANTS
    TypeOK
    ReservationsBacked
    ProcessingExact
PROPERTIES
    ImplementsJobPool
    NextJobsTaken
