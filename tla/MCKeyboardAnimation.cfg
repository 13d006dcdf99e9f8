SPECIFICATION KSpec
CONSTANTS
    Job <- MCJob
    NULL = NULL
    MAXPENDING = 3
    SemMax = 3
    Steps = 2
INVARIANTS
    RestsAsAsked
PROPERTIES
    ImplementsQueue
