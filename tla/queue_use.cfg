\* The scheduler's use of the queue, two consumers that keep calling pop().
SPECIFICATION UseSpec
CONSTANTS
    Jobs = {j1, j2}
    Priorities = {1, 2}
    Consumers = {c1, c2}
    Timeouts = {0, None}
    MaxSize = 2
    Horizon = 1
    MaxInsert = 3
    None = None
CHECK_DEADLOCK FALSE
INVARIANT HeapExact
PROPERTIES
    ImplementsJobQueue
    EveryJobServed
    TimedPopReturns
    ShutdownReleases
