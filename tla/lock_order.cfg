\* The scheduler's lock and the executor's, taken in both orders.
SPECIFICATION Spec
CONSTANTS
    Threads = {client, worker}
    None = None
INVARIANT NoDeadlock
