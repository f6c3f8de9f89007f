\* Messages of every length through buffers shorter than the longest of them, a
\* timeout anywhere, an event character between messages.
CONSTANTS
    Data <- MCData
    BufferSize = 3
    MaxMessages = 2
    MaxTimeouts = 1
    MaxEvents = 1
SPECIFICATION Spec
CHECK_DEADLOCK FALSE
INVARIANTS
    CleanReadsExact
    TimeoutCostsOneMessage
PROPERTIES
    EverythingIsPassed
