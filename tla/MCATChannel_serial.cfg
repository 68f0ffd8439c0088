SPECIFICATION Spec
CONSTANTS
    NULL = NULL
    Threads = {main}
    Main = main
    Handshakers = {main}
    Commands <- AllCommands
    Prefixes = {"+CSQ:", "OK", ""}
    UnsolTexts = {"+CMT:", "+CSQ:", "ERROR"}
    HANDSHAKE_RETRY_COUNT = 1
    MaxCommands = 2
    MaxUnsol = 2
    MaxInter = 2
    MaxOpens = 2
    Lossy = FALSE
INVARIANTS OwnResponse UnsolicitedInOrder PduAnswersOwnPrompt
CHECK_DEADLOCK FALSE
