SPECIFICATION Spec
CONSTANTS
    c0 = c0
    c1 = c1
    Calls <- TwoCalls
    Startup = c0
    NoSocket = NoSocket
INVARIANT SocketNotShared
CHECK_DEADLOCK FALSE
