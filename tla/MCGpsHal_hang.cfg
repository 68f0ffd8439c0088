SPECIFICATION FairSpec
CONSTANTS
    Timers = {t1}
    NoTimer = none
    Cycle <- Sentences
    Freqs = {1}
    MaxQueue = 1
PROPERTY CleanupAlwaysReturns
CHECK_DEADLOCK FALSE
