SPECIFICATION Spec
CONSTANTS
    PollTries = 2
    MaxPppd = 2
INVARIANT CompletedByOneCall
