SPECIFICATION Spec
CONSTANTS
    t1 = t1
    t2 = t2
    t3 = t3
    gone = gone
    Tasks <- MCTasks
    Outside <- MCOutside
INVARIANTS
    DepthsExact
    CyclesRefused
    SortedInOrder
    SortsWhatIsGrouped
PROPERTIES
    Ends
CHECK_DEADLOCK FALSE
