SPECIFICATION Spec
CONSTANTS
    Posts = {"a"}
    Updates = {}
    Target <- MCTarget
    Crashable = {}
    PoolSize = 2
INVARIANTS
    SentIsNotLost
