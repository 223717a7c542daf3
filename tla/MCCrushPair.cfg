\* Two pg clients, every ghost, one crush slot (--crush-concurrency 0 is 1); b may stall
\* for ever.
SPECIFICATION FairSpec
CONSTANTS
    a = a
    b = b
    d = d
    Conns = {a, b}
    NoLimit = NoLimit
    RowsMin = 1
    RowsMax = 2
    Proto <- PgPair
    Stmts <- MCStmts
    ShapeOf <- MCShapeOf
    Budget <- MCBudget
    Extended <- MCExtended
    Chores <- MCChores
    Commands <- PgPairCommands
    CrushEnabled = TRUE
    WarnOnly = FALSE
    Threshold = "all3"
    MaxRows = 3
    Concurrency = 0
    Chunk = 2
    Ghosts = {"latency", "error", "drop"}
    Seeded = FALSE
    SeedDraw <- MCSeedDraw
    SockCap = 1
    Attentive = {a}
INVARIANTS
    TypeOK
    SlotsConserved
    HoldersAreStreaming
    StreamsInOrder
PROPERTIES
    LetOffOnlyWhenFull
    ImplementsService
    AttentiveServed
    GoneFreesSlot
