\* The server from its start: one client per protocol, two crush slots.
SPECIFICATION FairStartup
CONSTANTS
    a = a
    b = b
    d = d
    Conns = {a, b, d}
    NoLimit = NoLimit
    RowsMin = 1
    RowsMax = 2
    Proto <- EachOne
    Stmts <- MCStmts
    ShapeOf <- MCShapeOf
    Budget <- MCBudget
    Extended <- MCExtended
    Chores <- MCChores
    Commands <- FewerCommands
    CrushEnabled = TRUE
    WarnOnly = FALSE
    Threshold = "all3"
    MaxRows = 2
    Concurrency = 2
    Chunk = 2
    Ghosts = {}
    Seeded = FALSE
    SeedDraw <- MCSeedDraw
    SockCap = 1
    Attentive = {a, b, d}
    Listeners <- EveryListener
INVARIANTS
    StartupTypeOK
    SlotsConserved
PROPERTIES
    ImplementsService
    AllOrNothing
