\* Two clients send the same seeded query; one crush slot.
SPECIFICATION Spec
CONSTANTS
    a = a
    b = b
    d = d
    Conns = {a, b}
    NoLimit = NoLimit
    RowsMin = 1
    RowsMax = 2
    Proto <- PgPair
    Stmts <- MCStmts
    ShapeOf <- MCShapeOf
    Budget <- MCBudget
    Extended <- MCExtended
    Chores <- MCChores
    Commands <- PgPairCommands
    CrushEnabled = TRUE
    WarnOnly = FALSE
    Threshold = "all3"
    MaxRows = 3
    Concurrency = 0
    Chunk = 2
    Ghosts = {}
    Seeded = TRUE
    SeedDraw <- MCSeedDraw
    SockCap = 1
    Attentive = {a, b}
INVARIANTS
    SameQuerySameAnswer
