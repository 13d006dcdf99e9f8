SPECIFICATION Spec
CONSTANTS
    RFB_BUF_SIZE = 8
    Minors = {8}
    Heights = {1}
    MaxSurface = 1
    LinesPerRead = 1
    CutLengths = {3}
    MaxCutText = 3
    UnknownLength = 2
    MaxMessages <- MCMaxMessages
    TypeLists <- MCStallTypes
PROPERTIES
    ReceivedIsHandled
CHECK_DEADLOCK FALSE
