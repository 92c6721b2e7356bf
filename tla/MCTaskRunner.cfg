SPECIFICATION FairSpec
CONSTANTS
    t1 = t1
    t2 = t2
    t3 = t3
    gone = gone
    None = None
    Tasks <- MCTasks
    Outside <- MCOutside
    MaxConcurrent = 2
INVARIANTS
    OneResultEach
    PoolDrained
PROPERTIES
    RunsThePlan
    DispatchReturns
CHECK_DEADLOCK FALSE
