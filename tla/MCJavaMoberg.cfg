\* One program thread and the collector; objects of two classes on two channels.
CONSTANTS
    NULL = NULL
    Channel = {c1, c2}
    Class = {AnalogIn, Subclass}
    Object = {o1, o2, o3, o4}
    Thread = {t1}
    Struct <- MCStruct
    MaxFailures = 1
SYMMETRY Names
SPECIFICATION Spec
CHECK_DEADLOCK FALSE
INVARIANTS
    BitsAreHolders
    CountsAreUsers
    StructIsUsed
PROPERTIES
    AllocationPromise
