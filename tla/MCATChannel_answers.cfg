SPECIFICATION FairSpec
CONSTANTS
    NULL = NULL
    Threads = {main, req}
    Main = main
    Handshakers = {req}
    Commands <- PlainCommands
    Prefixes = {"+CSQ:"}
    UnsolTexts = {"other", "+CMT:"}
    HANDSHAKE_RETRY_COUNT = 2
    MaxCommands = 2
    MaxUnsol = 0
    MaxInter = 1
    MaxOpens = 2
    Lossy = TRUE
INVARIANTS TypeOK WaiterOwnsPending
PROPERTIES HandshakeEnds AnsweredCallReturns ServiceKept
CHECK_DEADLOCK FALSE
