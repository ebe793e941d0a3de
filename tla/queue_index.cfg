\* Every operation of the queue, two consumers, room for two jobs.
SPECIFICATION Spec
CONSTANTS
    Jobs = {j1, j2, j3}
    Priorities = {1, 2}
    Consumers = {c1, c2}
    Timeouts = {0, None}
    MaxSize = 2
    Horizon = 1
    MaxInsert = 3
    None = None
SYMMETRY Interchangeable
CHECK_DEADLOCK FALSE
INVARIANT IndexSound
PROPERTIES
    NoSilentLoss
    ServesBestReady
