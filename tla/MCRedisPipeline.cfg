\* Every pipeline of three commands, well formed or not, with ghosts, fairly scheduled.
SPECIFICATION FairSpec
CONSTANTS
    NoLimit = NoLimit
    RowsMin = 1
    RowsMax = 2
    Commands <- MCCommands
    MaxCommands = 3
    Armed = TRUE
    MaxRows = 3
    Chunk = 2
    Ghosts = {"latency", "error", "drop"}
INVARIANTS
    RepliesMatchCommands
    NothingOwed
    QuitIsClean
PROPERTY
    EverythingRead
CHECK_DEADLOCK FALSE
