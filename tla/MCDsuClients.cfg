SPECIFICATION Spec
CONSTANTS
    Client = {c1, c2, c3}
    Host = {h1, h2}
    Packet = {x}
    Node = {n1, n2, n3}
    NULL = NULL
    Slots = {0, 1}
    CLIENT_TIMEOUT = 1
INVARIANTS
    ListOK
    LoopCovers
PROPERTIES
    ImplementsRegistry
    SilentForgotten
