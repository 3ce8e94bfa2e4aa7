\* An idle pool waits for messages: it may really stop.
SPECIFICATION FairSpec
CHECK_DEADLOCK FALSE
CONSTANTS
    Workers = {w1}
    NoOne = NoOne
    MaxNext = 1
    MaxJobs = 1
PROPERTIES
    DestructorStops
