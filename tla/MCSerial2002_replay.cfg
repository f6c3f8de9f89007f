\* A port that is opened again, without faults.
CONSTANTS
    NULL = NULL
    Client = {cl1}
    Inputs <- Two
    Outputs = {"output0"}
    BatchModes = {FALSE}
    Worlds <- OnlyReopened
    MaxPending = 2
SPECIFICATION Spec
CHECK_DEADLOCK FALSE
INVARIANT
    FreshRead
