SPECIFICATION FairSpec
CONSTANTS
    n1 = n1
    n2 = n2
    a = a
    b = b
    h = h
    None = None
    Names <- MCOneName
    Stdio <- MCOneStdio
    Http <- MCHttp
    Menus <- MCOneMenu
    MaxProcs = 2
INVARIANTS
    RunsItsConfig
    ClientsRegistered
PROPERTIES
    StopsWhatItDrops
    RequestReturns
    CrashNoticed
CHECK_DEADLOCK FALSE
