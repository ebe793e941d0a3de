\* Acquiring on a majority, failing, retrying, extending, dying, releasing.
SPECIFICATION Spec
CONSTANTS
    Servers = {1, 2, 3}
    Clients = {1, 2}
    Owners = {"a", "b"}
    Setups <- SmallSetups
    None = None
INVARIANTS
    Backed
    Exclusive
PROPERTY
    ImplementsLease
