---------------------------- MODULE CrushPolicy ----------------------------
(***************************************************************************)
(* The decision half of src/shape.rs: what a query's shape says about how  *)
(* it must be answered.  A shape abstracts the struct ResultShape to the   *)
(* fields that the frontends branch on; how it is extracted from SQL text  *)
(* is not part of this module.                                             *)
(***************************************************************************)
EXTENDS Naturals

CONSTANTS
    NoLimit,    \* the value None of ResultShape.limit
    RowsMin,    \* lower end of the row band (--rows min:max)
    RowsMax     \* upper end of the row band

ASSUME NoLimitAssumption == NoLimit \notin Nat
ASSUME BandAssumption == RowsMin \in Nat /\ RowsMax \in Nat

\* The kinds of statement that are answered differently.  "dml" stands for
\* Insert, Update, Delete and Command: one completion, no rows.
Kinds == {"select", "dml", "empty"}

Thresholds == {"star", "where", "limit", "any2", "all3"}

\* table: a FROM target was found.  agg: every column is an aggregate.
\* catalog: the target is a system catalog, so the result is forced empty.
ShapesOver(limits) ==
    [kind : Kinds, table : BOOLEAN, agg : BOOLEAN, catalog : BOOLEAN,
     star : BOOLEAN, where : BOOLEAN, limit : limits]

Shapes == ShapesOver(Nat \cup {NoLimit})
----------------------------------------------------------------------------
(* The three signals of an unsafe query, and its class.                    *)

Bit(b) == IF b THEN 1 ELSE 0

Broad(shape) == shape.star
NoWhere(shape) == ~shape.where
Unlimited(shape) == shape.limit = NoLimit

MissingSignals(shape) ==
    Bit(Broad(shape)) + Bit(NoWhere(shape)) + Bit(Unlimited(shape))

\* Only a SELECT that reads a user table row by row can be unsafe.
Exempt(shape) ==
    shape.kind # "select" \/ ~shape.table \/ shape.agg \/ shape.catalog

\* Mutant: all3 asks for no more than one missing signal.
MutTriggeredByOne(shape, threshold) ==
    \/ threshold = "star" /\ Broad(shape)
    \/ threshold = "where" /\ NoWhere(shape)
    \/ threshold = "limit" /\ Unlimited(shape)
    \/ threshold = "any2" /\ MissingSignals(shape) >= 2
    \/ threshold = "all3" /\ MissingSignals(shape) >= 1

\* Mutant: the WHERE test is inverted.
MutTriggeredInverted(shape, threshold) ==
    \/ threshold = "star" /\ Broad(shape)
    \/ threshold = "where" /\ ~NoWhere(shape)
    \/ threshold = "limit" /\ Unlimited(shape)
    \/ threshold = "any2" /\ MissingSignals(shape) >= 2
    \/ threshold = "all3" /\ MissingSignals(shape) = 3

Triggered(shape, threshold) ==
    \/ threshold = "star" /\ Broad(shape)
    \/ threshold = "where" /\ NoWhere(shape)
    \/ threshold = "limit" /\ Unlimited(shape)
    \/ threshold = "any2" /\ MissingSignals(shape) >= 2
    \/ threshold = "all3" /\ MissingSignals(shape) = 3

\* Mutant: two missing signals are not enough for a warning.
MutWarnsLate(shape, threshold) ==
    IF Exempt(shape) THEN "safe"
    ELSE IF Triggered(shape, threshold) THEN "crush"
    ELSE IF MissingSignals(shape) > 2 THEN "warn" ELSE "safe"

CrushClass(shape, threshold) ==
    IF Exempt(shape) THEN "safe"
    ELSE IF Triggered(shape, threshold) THEN "crush"
    ELSE IF MissingSignals(shape) >= 2 THEN "warn" ELSE "safe"
----------------------------------------------------------------------------
(* How many rows an ordinary answer carries.                               *)

Least(a, b) == IF a <= b THEN a ELSE b

\* cfg.rows_min ..= cfg.rows_max.max(cfg.rows_min): never an empty range.
Band == RowsMin .. (IF RowsMax >= RowsMin THEN RowsMax ELSE RowsMin)

\* draw is the number the generator draws from Band; budget is the row limit
\* of an extended-protocol Execute, 0 when there is none.
\* Mutant: the budget replaces the LIMIT instead of lowering it.
MutBudgetReplaces(shape, draw, budget) ==
    LET base == IF shape.catalog THEN 0
                ELSE IF shape.agg \/ ~shape.table THEN 1 ELSE draw
        limited == IF Unlimited(shape) THEN base ELSE Least(base, shape.limit)
    IN  IF shape.kind # "select" THEN 0
        ELSE IF budget > 0 THEN Least(base, budget) ELSE limited

OrdinaryRows(shape, draw, budget) ==
    LET base == IF shape.catalog THEN 0
                ELSE IF shape.agg \/ ~shape.table THEN 1 ELSE draw
        limited == IF Unlimited(shape) THEN base ELSE Least(base, shape.limit)
    IN  IF shape.kind # "select" THEN 0
        ELSE IF budget > 0 THEN Least(limited, budget) ELSE limited
============================================================================
