SPECIFICATION FairSpec
CONSTANTS
    c0 = c0
    c1 = c1
    Calls <- TwoCalls
    Startup = c0
    NoSocket = NoSocket
INVARIANT TypeOK
INVARIANT TerminationExplained
INVARIANT ReaderOwnsSocket
INVARIANT InitNotLost
PROPERTY ConnectedIsServed
PROPERTY InitDelivered
PROPERTY ButtonConnects
CHECK_DEADLOCK FALSE
