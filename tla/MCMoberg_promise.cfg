\* Without symmetry, for the refinement and liveness.
CONSTANTS
    NULL = NULL
    Device = {d1, d2}
    Channel = {c1, c2, c3}
    Client = {cl1, cl2}
    Kind = {analog_in}
    MaxIndex = 2
    MaxText = 6
    AllocMayFail = FALSE
SPECIFICATION Spec
CHECK_DEADLOCK FALSE
INVARIANTS
    LastMappingWins
    ConfigIsDevicesInUse
    NothingHeldWhenGone
PROPERTIES
    NoUseAfterFree
    UnusedIsFreed
    HandlePromise
    CallsAsInLibrary
