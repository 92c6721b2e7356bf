SPECIFICATION Spec
CONSTANTS
    n1 = n1
    n2 = n2
    a = a
    b = b
    h = h
    None = None
    Names <- MCOneName
    Stdio <- MCStdio
    Http <- MCHttp
    Menus <- MCMenus
    MaxProcs = 2
PROPERTIES
    ClearsExited
CHECK_DEADLOCK FALSE
