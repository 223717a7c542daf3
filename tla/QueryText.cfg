\* Every combination of ten select lists, seven FROM targets, three WHERE
\* clauses and nine endings under three heads, for every threshold.
SPECIFICATION WriteSpec
CONSTANTS
    NoLimit = NoLimit
    RowsMin = 1
    RowsMax = 3
    MaxLimit = 2
    MaxBudget = 3
    PgWords <- MCPgWords
    InferredType <- MCInferredType
    Heads <- MCHeads
    Lists <- MCLists
    Froms <- MCFroms
    Wheres <- MCWheres
    Tails <- MCTails
    Others <- MCOthers
    Neighbours <- MCNeighbours
INVARIANTS
    AllThreeIsMildest
    SignalsAreNoticed
    AnswerFits
    ClausesAreRead
    RestraintsAreRead
    ColumnsAreRead
    BatchIsSplit
    ParamsHaveTheirTypes
PROPERTIES
    RestraintNeverEscalates
CHECK_DEADLOCK FALSE
