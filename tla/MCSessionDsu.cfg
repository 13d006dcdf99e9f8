SPECIFICATION Spec
CONSTANTS
    DsuMayFail = TRUE
    UserCommands = FALSE
INVARIANTS
    NothingToDo
