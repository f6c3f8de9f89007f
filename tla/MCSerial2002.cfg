\* A line without faults; late and lost answers, writes that fail half-way, the
\* port opened twice; a program that also writes.  Reads one by one and batched.
CONSTANTS
    NULL = NULL
    Client = {cl1, cl2}
    Inputs <- Two
    Outputs = {"output0"}
    BatchModes = {TRUE, FALSE}
    Worlds <- AllWorlds
    MaxPending = 3
SPECIFICATION Spec
CHECK_DEADLOCK FALSE
INVARIANTS
    FreshUntilReopened
    BatchFresh
    PortOpenWhileUsed
    NewerEachTime
    SampledUnlessLost
    LastWriteWins
PROPERTIES
    CallReturns
