SPECIFICATION FairSpec
CONSTANTS
    None = None
    Users = {"u1", "u2"}
    Calls = {"a1", "a2", "b"}
    CallerOf <- MCCallerOf
    Jobs = {"j1"}
    Queued = {"u1", "u2"}
    Quantity = 1
    BatchSize = 2
    FaultSets <- MCFaultSets
INVARIANTS
    NoOverIssue
    EmptyMeansEmpty
    MarksMatchRows
    StockIsRemainder
PROPERTIES
    QueuedAreServed
    ImplementsCampaign
