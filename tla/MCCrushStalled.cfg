\* A client that stops reading for ever.
SPECIFICATION FairSpec
CONSTANTS
    a = a
    b = b
    d = d
    Conns = {a, b}
    NoLimit = NoLimit
    RowsMin = 1
    RowsMax = 2
    Proto <- PgMysql
    Stmts <- MCStmts
    ShapeOf <- MCShapeOf
    Budget <- MCBudget
    Extended <- MCExtended
    Chores <- MCChores
    Commands <- PgMysqlCommands
    CrushEnabled = TRUE
    WarnOnly = FALSE
    Threshold = "all3"
    MaxRows = 3
    Concurrency = 0
    Chunk = 2
    Ghosts = {}
    Seeded = FALSE
    SeedDraw <- MCSeedDraw
    SockCap = 1
    Attentive = {a}
PROPERTIES
    StalledStreamAborts
