\* Three buffers, two threads, two commits; a block may not be had.
CONSTANTS
    NumBufs = 3
    SERVER_BATCH = 2
    MaxPages = 5
    MaxCommits = 2
    Faults = {"nomem"}
SPECIFICATION ListFairSpec
INVARIANTS ListTypeOK ListWellFormed
PROPERTIES ListIsASequence CommitWalksEnd
CHECK_DEADLOCK FALSE
