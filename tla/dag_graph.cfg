\* Building graphs, sorting them, planning levels and looking for cycles.
SPECIFICATION Spec
CONSTANTS
    Jobs = {j1, j2, j3}
    None = None
INVARIANTS
    Mirrored
    AlgorithmsRight
PROPERTY
    AlgorithmsReturn
