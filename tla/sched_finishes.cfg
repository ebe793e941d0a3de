\* An unbounded queue, and a client that runs jobs itself: every job finishes.
SPECIFICATION Spec
CONSTANTS
    Jobs = {j1}
    Workers = {w1, w2}
    Callers = {d1}
    Coordinators = {}
    Tasks = {}
    Foreign = {}
    MaxRetries = 2
    MaxSize = 0
    MaxCalls = 2
    None = None
CHECK_DEADLOCK FALSE
PROPERTY
    EveryJobFinishes
