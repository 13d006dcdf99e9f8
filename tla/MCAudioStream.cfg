SPECIFICATION AudioSpec
CONSTANTS
    Samples = {1, 3}
    rate = 4
    MaxHeld = 2
INVARIANTS
    DspOwnsItsBuffers
    QueueBounded
PROPERTIES
    PausedGoesOn
