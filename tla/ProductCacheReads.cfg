SPECIFICATION Spec
CONSTANTS
    Instances = {"i1"}
    Keys = {"detail", "popular"}
    Ttl <- MCTtl
    DefaultTtl = 3
    Requests = {"a", "p", "q", "s"}
    InstanceOf <- MCInstanceOf
    KeyOf <- MCKeyOf
    FetchMax = 1
    MaxTime = 4
INVARIANTS
    BoundedStaleness
    BackByOneFetch
