SPECIFICATION TSpec
CONSTANTS
    MaxChanges = 2
    MaxModes = 2
    Width = 3
    Height = 2
    Bar = 1
    Largest = 4
    Pitches = {2, 4, 8}
    Sizes = {3, 6}
    Elsewhere <- MCElsewhere
INVARIANTS
    DrawsAlive
    PointerInView
PROPERTIES
    ChangeIsShown
    ModeIsSet
CHECK_DEADLOCK FALSE
