\* Two simulations of two blocks that share channels, opens failing anywhere.
CONSTANTS
    NULL = NULL
    Channel = {c1, c2}
    Block = {b1, b2}
    Struct <- MCStruct
    Element <- MCElement
    Inputs <- MCInputs
    MaxSessions = 2
    MaxResets = 1
SPECIFICATION SimulinkSpec
CHECK_DEADLOCK FALSE
INVARIANTS
    ElementsAreOpens
    PointersAreOwn
    ReleasedWhenStopped
