SPECIFICATION FairSpec
CONSTANTS
    Sources <- MCSources
    Locals <- MCLocals
    SYMBOLS_MAX <- MCSymbolsMax
INVARIANTS
    HeaderMatches
    OperandsRight
    RecordsRight
PROPERTIES
    Ends
