SPECIFICATION Spec
CONSTANTS
    Jobs <- MCJobs
    Files <- MCFiles
    FILES_MAX = 6
    WRAP = 4
INVARIANTS
    ReadsMembers
    LoadsInOrder
