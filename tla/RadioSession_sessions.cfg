SPECIFICATION FairSpec
CONSTANTS
    MaxOpens = 2
    MaxRequests = 3
INVARIANTS TypeOK ClosedMeansUnavailable FrameworkKnowsState OnMeansOnInThisSession SettledMeansAvailable
PROPERTY EveryLossIsRecovered
CHECK_DEADLOCK FALSE
