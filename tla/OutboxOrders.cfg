SPECIFICATION FairSpec
CONSTANTS
    Posts = {"a"}
    Updates <- TwoUpdates
    Target <- MCTarget
    Crashable <- FirstCall
    PoolSize = 2
INVARIANTS
    EventsAfterWrites
    AnsweredIsRecorded
    AnnouncedByTheCode
PROPERTIES
    EveryCallEnds
