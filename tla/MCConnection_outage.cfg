SPECIFICATION FairSpec
CONSTANTS
    c0 = c0
    c1 = c1
    Calls <- TwoCalls
    Startup = c0
    NoSocket = NoSocket
PROPERTY ReconnectsToService
CHECK_DEADLOCK FALSE
