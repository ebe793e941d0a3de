\* Failing, requeuing, discarding, resolving, evicting and expiring dead letters.
SPECIFICATION Spec
CONSTANTS
    Jobs = {j1, j2, j3, j4, j5}
    Clients = {c1, c2}
    MaxEntries = 2
    MaxAdds = 6
    None = None
SYMMETRY Interchangeable
CHECK_DEADLOCK FALSE
INVARIANTS
    IndexAgrees
    DeadOrAlive
    SizeBounded
    LettersAccounted
