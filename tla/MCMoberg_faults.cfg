\* Every malloc and realloc of list memory may fail; two kinds, and an array
\* grows twice.
CONSTANTS
    NULL = NULL
    Device = {d1, d2}
    Channel = {c1, c2, c3}
    Client = {cl1, cl2}
    Kind = {analog_in, analog_out}
    MaxIndex = 2
    MaxText = 6
    AllocMayFail = TRUE
SPECIFICATION Spec
SYMMETRY Addresses
CHECK_DEADLOCK FALSE
INVARIANTS
    UseCountsExact
    NoDanglingChannel
    LibraryOutlivesContext
    CloseFindsItsChannel
    OpenChannelsExact
    IInv
