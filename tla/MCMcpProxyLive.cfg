SPECIFICATION FairSpec
CONSTANTS
    s1 = s1
    s2 = s2
    c1 = c1
    c2 = c2
    c3 = c3
    None = None
    Streams <- MCOneStream
    Calls <- MCTwoCalls
    Handshakes <- MCHandshakes
    MayStall <- MCMayStall
    MaxId = 2
    MaxStops = 1
PROPERTIES
    CallReturns
    ReaderNotStuck
CHECK_DEADLOCK FALSE
