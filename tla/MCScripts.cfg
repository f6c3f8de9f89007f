\* Two Moberg objects, three channel objects on two channels, in either language.
CONSTANTS
    NULL = NULL
    Channel = {c1, c2}
    Manager = {m1, m2}
    Object = {o1, o2, o3}
    Struct <- MCStruct
SYMMETRY Names
SPECIFICATION Spec
CHECK_DEADLOCK FALSE
INVARIANTS
    LiveIsOpen
    NoStrayCall
    GoneWhenCollected
