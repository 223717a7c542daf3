\* A SELECT that names no column.
SPECIFICATION Spec
CONSTANTS
    NoLimit = NoLimit
    RowsMin = 1
    RowsMax = 4
    SeqMod = 256
    Sqls <- MCSqls
    EmptySql = ""
    ShapeOf <- MCShapeOf
    Columns <- MCColumns
    WideCols = 4
    Queries <- BareQueries
    Armed = TRUE
    Threshold = "all3"
    MaxRows = 300
    Ghosts = {}
INVARIANT
    ResultSetsAreRead
CHECK_DEADLOCK FALSE
