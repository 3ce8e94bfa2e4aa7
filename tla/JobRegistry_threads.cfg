SPECIFICATION Spec
CHECK_DEADLOCK FALSE
CONSTANTS
    Threads = {t1, t2}
    Ids = {i1}
    Times <- MCTimes
    Paths <- MCPaths
PROPERTIES
    ImplementsJobRegister
