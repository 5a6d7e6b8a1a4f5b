SPECIFICATION Spec
CONSTANTS
    None = None
    Users = {"u1", "u2"}
    Adds = {"a", "b"}
    Updates = {"p"}
    Removals = {"d", "x"}
    Stock0 = 1
    UserOf <- MCUserOf
    RowOf <- MCRowOf
    Quantity <- MCQuantity
INVARIANTS
    GoneIsAnnounced
    RemovedOnce
