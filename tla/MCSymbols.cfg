SPECIFICATION Spec
CONSTANTS
    NSYMBOLS = 6
    POOLSIZE = 36
    MAXFNARGS = 2
    Width <- MCWidth
    Names <- MCNames
    Prims <- MCPrims
    MAXPARAMS = 2
    MAXINCLUDES = 1
INVARIANTS
    TablesApart
    ScopesRight
    SignaturesOwn
