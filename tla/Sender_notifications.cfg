SPECIFICATION FairSpec
CHECK_DEADLOCK FALSE
CONSTANTS
    Workers = {w1, w2, w3}
    MaxPuts = 4
INVARIANTS
    TypeOK
PROPERTIES
    ImplementsChannel
    NotifiedIsSent
