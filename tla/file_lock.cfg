\* A lock file is unlinked while another process locks it.
SPECIFICATION Spec
CONSTANTS
    Procs = {p1, p2}
    Files = {1, 2, 3, 4, 5}
    None = None
CHECK_DEADLOCK FALSE
INVARIANT Exclusive
