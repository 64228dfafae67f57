SPECIFICATION FairSpec
CONSTANTS
    Sources <- MCSources
    Headers <- MCMoreHeaders
    MAXNMAC = 2
    MAXIFDEF = 3
INVARIANTS
    TokensRight
    FrozenWhenLeftOut
PROPERTIES
    ScanEnds
