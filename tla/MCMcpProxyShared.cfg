SPECIFICATION Spec
CONSTANTS
    s1 = s1
    s2 = s2
    c1 = c1
    c2 = c2
    c3 = c3
    None = None
    Streams <- MCStreams
    Calls <- MCTwoCalls
    Handshakes <- MCHandshakes
    MayStall <- MCNoStall
    MaxId = 2
    MaxStops = 0
PROPERTIES
    NotRefusedWhileUp
CHECK_DEADLOCK FALSE
