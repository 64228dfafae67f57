SPECIFICATION FairSpec
CONSTANTS
    MaxWords = 9
    THRESHOLD = 3
    OVERALLOC = 2
    Requests <- MCRequests
INVARIANTS
    Tiling
    AllocatedIsHandedOut
    DataIntact
    ReallocKeeps
    GrowOnlyWhenFull
    NullOnlyWhenRefused
PROPERTIES
    KeepsPromise
    CallsEnd
    HungForever
