SPECIFICATION TouchSpec
CONSTANTS
    TapTime = 8
    ClickTime = 4
    MaxElapse = 9
    Switching = TRUE
    Letter = {k}
    Plain = {up}
    ShiftKey = {lshift}
    OtherSticky = {lctrl, lalt}
    CAPS = caps
    NoKey = NoKey
INVARIANTS
    ButtonFollows
    ClickPerTap
    KeysBalanced
    TouchIsWhole
PROPERTIES
    TapsAreClicked
    ModifiersOutlastKey
