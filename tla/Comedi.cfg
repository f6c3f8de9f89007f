\* Three clients share three channels on one or two devices; opens fail half-way.
CONSTANTS
    NULL = NULL
    Device = {d1, d2}
    Channel = {c1, c2, c3}
    Client = {cl1, cl2, cl3}
    MaxFailures = 2
SPECIFICATION Spec
CHECK_DEADLOCK FALSE
INVARIANTS
    OpenIsUsable
    UsesExactUntilFailure
