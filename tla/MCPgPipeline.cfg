\* Every pipeline of up to four requests, simple and extended, with ghosts, fairly scheduled.
SPECIFICATION FairSpec
CONSTANTS
    NoLimit = NoLimit
    RowsMin = 2
    RowsMax = 2
    Names = {"n"}
    Sqls <- ParsedSqls
    EmptySql = ""
    ShapeOf <- MCShapeOf
    Queries <- MixedQueries
    WidthOf <- MCWidthOf
    Formats <- MCFormats
    Budgets = {0, 1}
    Armed = TRUE
    Threshold = "all3"
    MaxRows = 3
    Chunk = 2
    Ghosts = {"latency", "error", "drop"}
    MaxRequests = 4
INVARIANTS
    RepliesMatchRequests
    TagCountsRows
    RowsFitDescription
    RowsInAskedFormat
PROPERTY
    EveryRequestServed
CHECK_DEADLOCK FALSE
