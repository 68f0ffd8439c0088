SPECIFICATION FairSpec
CONSTANTS
    PollTries = 2
    MaxPppd = 2
INVARIANTS
    CompletedOnce
    ResponsesReturned
    NothingDangles
    SilentWhileOff
    ScreenStateHonoured
    NoPppdWithoutCall
PROPERTY EveryRequestReturns
