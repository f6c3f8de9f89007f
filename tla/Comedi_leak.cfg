\* One open that fails half-way.
CONSTANTS
    NULL = NULL
    Device = {d1, d2}
    Channel = {c1, c2, c3}
    Client = {cl1, cl2, cl3}
    MaxFailures = 1
SPECIFICATION Spec
CHECK_DEADLOCK FALSE
INVARIANT
    UseCountIsUses
