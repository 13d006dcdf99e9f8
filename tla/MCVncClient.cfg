SPECIFICATION Spec
CONSTANTS
    RFB_BUF_SIZE = 2
    Minors = {3, 7, 8}
    Heights = {1, 2}
    MaxSurface = 1
    LinesPerRead = 1
    CutLengths = {3, 4}
    MaxCutText = 3
    UnknownLength = 2
    MaxMessages <- MCMaxMessages
    TypeLists <- MCTypeLists
INVARIANTS
    InSync
    KeepsAsking
    PaintsInside
PROPERTIES
    ImplementsStream
    ReadsEnd
CHECK_DEADLOCK FALSE
