\* Whether the rows of a portal are in the format announced.
SPECIFICATION Spec
CONSTANTS
    NoLimit = NoLimit
    RowsMin = 2
    RowsMax = 2
    Names = {"n"}
    Sqls <- MCSqls
    EmptySql = ""
    ShapeOf <- MCShapeOf
    Queries <- NoQueries
    WidthOf <- MCWidthOf
    Formats <- Binary
    Budgets = {0, 1}
    Armed = TRUE
    Threshold = "all3"
    MaxRows = 3
    Chunk = 2
    Ghosts = {"latency", "error", "drop"}
    MaxRequests = 4
INVARIANTS
    RowsAsAnnounced
CHECK_DEADLOCK FALSE
