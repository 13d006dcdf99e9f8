SPECIFICATION Spec
CONSTANTS
    DsuMayFail = FALSE
    UserCommands = TRUE
INVARIANTS
    ActiveCounts
    NoNullTarget
    TargetInStep
PROPERTIES
    NothingLeftAsks
