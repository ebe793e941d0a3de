\* Starting, scaling, checking, stopping and restarting a pool of each type.
SPECIFICATION Spec
CONSTANTS
    Ids = {w1, w2}
    Configs <- SmallPools
    MaxStarts = 2
    MaxConcurrent = 1
    MaxTasks = 1
    MaxCrashes = 1
CHECK_DEADLOCK FALSE
INVARIANTS
    SizeWithinLimits
    NoneForgotten
    StopReachesAll
    ThreadsFinishJobs
PROPERTY
    ToldWorkersEnd
