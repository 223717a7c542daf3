--------------------------- MODULE CrushRestraint ---------------------------
(***************************************************************************)
(* CrushPolicy checked over every shape it can be given: a client that     *)
(* rewrites its query, one restraint at a time, and the verdict and the    *)
(* row count it gets before and after.  The shapes are those extract_select *)
(* and the other branches of extract in src/shape.rs can return.           *)
(***************************************************************************)
EXTENDS CrushPolicy

CONSTANTS
    MaxLimit,   \* bound on the LIMIT values tried
    MaxBudget   \* bound on the max_rows values of an Execute tried

ASSUME BoundsAssumption == MaxLimit \in Nat /\ MaxBudget \in Nat

VARIABLES
    shape,      \* the query as it stands
    threshold   \* --crush-threshold, fixed for the life of the server

vars == <<shape, threshold>>

\* SELECT * puts a plain column in the list, so star excludes agg; only
\* extract_select fills in more than the kind and the target table.
Extracted ==
    {s \in ShapesOver((0..MaxLimit) \cup {NoLimit}) :
        /\ s.kind # "select" =>
              ~s.agg /\ ~s.catalog /\ ~s.star /\ ~s.where /\ s.limit = NoLimit
        /\ s.kind = "empty" => ~s.table
        /\ s.catalog => s.table
        /\ s.star => ~s.agg}

Init == shape \in Extracted /\ threshold \in Thresholds

AddWhere ==
    /\ shape.kind = "select" /\ ~shape.where
    /\ shape' = [shape EXCEPT !.where = TRUE]
    /\ UNCHANGED threshold

AddLimit ==
    /\ shape.kind = "select" /\ shape.limit = NoLimit
    /\ \E n \in 0..MaxLimit : shape' = [shape EXCEPT !.limit = n]
    /\ UNCHANGED threshold

\* SELECT * becomes a column list; its columns may all be aggregates.
NameColumns ==
    /\ shape.star
    /\ \E agg \in BOOLEAN : shape' = [shape EXCEPT !.star = FALSE, !.agg = agg]
    /\ UNCHANGED threshold

Next == AddWhere \/ AddLimit \/ NameColumns

Spec == Init /\ [][Next]_vars
----------------------------------------------------------------------------
Severity(class) == IF class = "safe" THEN 0 ELSE IF class = "warn" THEN 1 ELSE 2

\* Restraint is never punished: adding a WHERE, a LIMIT or a column list never
\* turns a warning into a crush or a safe query into either (crush_class).
RestraintNeverEscalates ==
    [][Severity(CrushClass(shape', threshold')) <= Severity(CrushClass(shape, threshold))]_vars

\* The default threshold is the mildest: what all3 crushes, every other
\* threshold crushes, and what any threshold spares all3 spares (crush_class).
AllThreeIsMildest ==
    CrushClass(shape, "all3") = "crush" => CrushClass(shape, threshold) = "crush"

\* A query with at least two signals missing never passes unnoticed, and one
\* that shows all three restraints is never even warned (crush_class).
SignalsAreNoticed ==
    ~Exempt(shape) =>
        /\ MissingSignals(shape) >= 2 => CrushClass(shape, threshold) # "safe"
        /\ MissingSignals(shape) = 0 => CrushClass(shape, threshold) = "safe"

\* An ordinary answer fits both the LIMIT and the budget of the Execute, and
\* a SELECT with no FROM, or of aggregates only, is one row unless limited to
\* none (normal_response, execute_portal, select_response).
AnswerFits ==
    \A draw \in Band, budget \in 0..MaxBudget :
        LET rows == OrdinaryRows(shape, draw, budget)
        IN  /\ ~Unlimited(shape) => rows <= shape.limit
            /\ budget > 0 => rows <= budget
            /\ shape.kind = "select" /\ ~shape.catalog /\ shape.limit # 0
               /\ (~shape.table \/ shape.agg) => rows = 1
=============================================================================
