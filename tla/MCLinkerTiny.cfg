SPECIFICATION FairSpec
CONSTANTS
    Jobs <- MCTinyJobs
    Names <- MCNames
    NameLen <- MCNameLen
    NAMES_MAX = 100
    SYMBOLS_MAX = 12
INVARIANTS
    Resolved
