SPECIFICATION FairSpec
CONSTANTS
    Jobs <- MCJobs
    Names <- MCNames
    NameLen <- MCNameLen
    NAMES_MAX = 100
    SYMBOLS_MAX = 11
INVARIANTS
    Resolved
    LinksWhatIsReferenced
    NotFoundMeansUndefined
    FailureRemovesOutput
    AddressesFit
    OverflowIsReal
PROPERTIES
    Ends
