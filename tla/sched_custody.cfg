\* A thread, a process and an async worker, and clients on a queue for one job.
SPECIFICATION Safety
CONSTANTS
    Jobs = {j1, j2, j3, j4}
    Workers = {w1}
    Callers = {}
    Coordinators = {p1}
    Tasks = {t1}
    Foreign = {j4}
    MaxRetries = 1
    MaxSize = 1
    MaxCalls = 2
    None = None
SYMMETRY Interchangeable
CHECK_DEADLOCK FALSE
INVARIANTS
    Custody
    RunsBounded
    RejectedLeavesNoTrace
    NoJobLost
PROPERTIES
    TerminalIsFinal
    CancelHonoured
