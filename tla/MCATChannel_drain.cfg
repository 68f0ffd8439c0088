SPECIFICATION Spec
CONSTANTS
    NULL = NULL
    Threads = {main}
    Main = main
    Handshakers = {main}
    Commands <- PlainCommands
    Prefixes = {"+CSQ:"}
    UnsolTexts = {"other", "+CMT:"}
    HANDSHAKE_RETRY_COUNT = 2
    MaxCommands = 2
    MaxUnsol = 0
    MaxInter = 1
    MaxOpens = 1
    Lossy = FALSE
INVARIANT UnmatchedOKsAreUnsolicited
CHECK_DEADLOCK FALSE
