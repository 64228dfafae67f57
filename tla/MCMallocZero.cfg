SPECIFICATION FairSpec
CONSTANTS
    MaxWords = 7
    THRESHOLD = 3
    OVERALLOC = 2
    Requests <- MCZeroRequests
INVARIANTS
    AbortOnlyOnEmptyArena
