SPECIFICATION Spec
CONSTANTS
    NULL = NULL
    Threads = {main, req}
    Main = main
    Handshakers = {}
    Commands <- PlainCommands
    Prefixes = {"+CSQ:"}
    UnsolTexts = {"other", "+CMT:"}
    HANDSHAKE_RETRY_COUNT = 2
    MaxCommands = 3
    MaxUnsol = 0
    MaxInter = 1
    MaxOpens = 1
    Lossy = FALSE
INVARIANT NoNullDereference
CHECK_DEADLOCK FALSE
