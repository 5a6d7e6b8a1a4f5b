SPECIFICATION FairSpec
CONSTANTS
    Instances = {"i1", "i2"}
    Disks = {"d1", "d2"}
    DiskOf <- MCDiskOf
    Releases = 2
    MaxStarts <- MCMaxStarts
    MaxDatabases = 2
INVARIANTS
    ServingIsReady
    RefersToRows
PROPERTIES
    SettledStays
    EveryStartEnds
