SPECIFICATION FairSpec
CONSTANTS
    a = a
    b = b
    CR = CR
    LF = LF
    Byte <- MCByte
    Commands <- ShortCommands
    Malformed = {}
    BufSize = 8
    MaxCommands = 2
PROPERTY EveryCommandHandled
CHECK_DEADLOCK FALSE
