\* Every answer of up to six entries about two channels.
CONSTANTS
    Channel = {0, 3}
    MaxEntries = 6
SPECIFICATION ConfigSpec
CHECK_DEADLOCK FALSE
INVARIANTS
    InputsComplete
    OrderIrrelevant
