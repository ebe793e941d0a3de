\* Every DAG of four jobs, with refused submissions and cancellations.
SPECIFICATION Spec
CONSTANTS
    Jobs = {1, 2, 3, 4}
    Shapes <- Ordered
CHECK_DEADLOCK FALSE
INVARIANTS
    DependenciesFirst
    QueuedOnce
    BooksAgree
    OutcomeTrue
PROPERTIES
    NothingQueuedAfterEnd
    DagEnds
