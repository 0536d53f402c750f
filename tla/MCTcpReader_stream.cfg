SPECIFICATION FairSpec
CONSTANTS
    a = a
    b = b
    CR = CR
    LF = LF
    Byte <- MCByte
    Commands <- MixedCommands
    Malformed <- MixedMalformed
    BufSize = 6
    MaxCommands = 4
INVARIANT TypeOK
INVARIANT InOrderExactlyOnce
INVARIANT TerminationExplained
INVARIANT NoBacklogOfLongCommands
PROPERTY ImplementsChannel
PROPERTY LongCommandsHandled
CHECK_DEADLOCK FALSE
