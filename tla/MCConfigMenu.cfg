SPECIFICATION MenuSpec
CONSTANTS
    DefaultPort = 5900
    Hosts = {"h1", "h2"}
    Ports = {5901}
    Users = {"u"}
    Names <- MCNames
    NUMCONF = 2
    FirstFiles <- MCFirstFiles
    MaxChanges = 3
INVARIANTS
    CursorIsShown
    NameFollows
PROPERTIES
    KeymapKept
