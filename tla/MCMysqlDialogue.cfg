\* Any commands in any order, with ghosts; a closed connection stops.
SPECIFICATION FairSpec
CONSTANTS
    NoLimit = NoLimit
    RowsMin = 1
    RowsMax = 4
    SeqMod = 256
    Sqls <- MCSqls
    EmptySql = ""
    ShapeOf <- MCShapeOf
    Columns <- MCColumns
    WideCols = 4
    Queries <- NamedQueries
    Armed = TRUE
    Threshold = "all3"
    MaxRows = 300
    Ghosts = {"latency", "error", "drop"}
INVARIANTS
    TypeOK
    NeverLost
    NoMutualWait
PROPERTIES
    ResultSetsWhole
    EveryCommandAnswered
CHECK_DEADLOCK FALSE
