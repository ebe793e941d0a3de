\* Acquiring, re-entering, extending, expiring, releasing and force-releasing.
SPECIFICATION Spec
CONSTANTS
    Clients = {1, 2, 3, 4}
    Owners = {"a", "b"}
    Owner <- TwoUsesEach
    MaxTtl = 2
    MaxTimeout = 1
    None = None
INVARIANT Exclusive
PROPERTIES
    ImplementsLease
    NoRevival
    AcquireReturns
