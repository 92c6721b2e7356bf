SPECIFICATION FairSpec
CONSTANTS
    r1 = r1
    r2 = r2
    f1 = f1
    f2 = f2
    c1 = c1
    c2 = c2
    Loop = Loop
    Records <- MCRecords
    Flushers <- MCFlushers
    Closers <- MCClosers
    MayFail <- MCMayFail
INVARIANTS
    TypeOK
    NoDuplicate
    InOrder
PROPERTIES
    JsonlLog
    PgLog
    RecordSettles
    CloseReturns
CHECK_DEADLOCK FALSE
