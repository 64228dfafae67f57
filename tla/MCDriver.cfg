SPECIFICATION FairSpec
CONSTANTS
    Bases <- MCBases
    Disks <- MCDisks
    Commands <- MCCommands
    Options <- MCOptions
    AOUTNAME <- MCAout
    MAXFILES = 2
    Width <- MCWidth
    TEXTLEN = 3
INVARIANTS
    KeepsUsersFiles
    LeavesWhatWasAsked
PROPERTIES
    DriverEnds
