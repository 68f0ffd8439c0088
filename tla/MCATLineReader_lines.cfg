SPECIFICATION Spec
CONSTANTS
    MAX_AT_RESPONSE = 4
    Streams <- SomeStreams
    MaxSessions = 2
INVARIANTS NoLineLostOrCut StaysInBuffer
CHECK_DEADLOCK FALSE
