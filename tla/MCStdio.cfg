SPECIFICATION Spec
VIEW View
CONSTANTS
    Chars = {10, 120}
    NL = 10
    BUFSIZ = 3
    DISK = 7
    Files <- MCFiles
    Strings <- MCStrings
    Typed = {10}
    Places = {1, 4}
    Counts = {2, 7}
    Lens = {2, 5}
    Modes = {"r", "r+", "w", "a+"}
INVARIANTS
    LinesAreOut
PROPERTIES
    KeepsPromise
