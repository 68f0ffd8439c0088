SPECIFICATION FairSpec
CONSTANTS
    Timers = {t1}
    NoTimer = none
    Cycle <- Sentences
    Freqs = {0, 1}
    MaxQueue = 1
INVARIANTS
    FixIsExclusive
    QuietAfterSession
    
    ListIsWhole
PROPERTIES
    CleanupReturns
    FixIsReported
CHECK_DEADLOCK FALSE
