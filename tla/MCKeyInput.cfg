SPECIFICATION Spec
CONSTANTS
    Button = {"A", "L", "SELECT", "START"}
    Symbol = {"a", "A", "w"}
    Unshifted <- MCUnshifted
    Shifted <- MCShifted
    MenuCommand <- MCMenuCommand
    None = None
INVARIANTS
    RepeatsHeldButton
PROPERTIES
    HeldStaysDown
    KeysReleased
    ShiftReleased
