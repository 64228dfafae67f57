SPECIFICATION Spec
CONSTANTS
    NSYMBOLS = 48
    POOLSIZE = 200
    MAXFNARGS = 3
    MAXBREAK = 3
    MAXCASE = 3
    MAXLOCINIT = 2
    STACK = 60
    GARBAGE = 165
    Group = "statements"
    Width <- MCWidth
    Programs <- MCPrograms
INVARIANTS
    Computes
    Rejects
    FunctionsApart
PROPERTIES
    CompilerEnds
