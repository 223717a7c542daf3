\* A query with a LIMIT under --crush-threshold star.
SPECIFICATION Spec
CONSTANTS
    a = a
    b = b
    d = d
    Conns = {a, b}
    NoLimit = NoLimit
    RowsMin = 1
    RowsMax = 2
    Proto <- PgPair
    Stmts <- MCStmts
    ShapeOf <- MCShapeOf
    Budget <- MCBudget
    Extended <- MCExtended
    Chores <- MCChores
    Commands <- StarCommands
    CrushEnabled = TRUE
    WarnOnly = FALSE
    Threshold = "star"
    MaxRows = 3
    Concurrency = 0
    Chunk = 2
    Ghosts = {}
    Seeded = FALSE
    SeedDraw <- MCSeedDraw
    SockCap = 1
    Attentive = {a, b}
INVARIANTS
    LimitHonored
