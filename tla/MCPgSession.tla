---------------------------- MODULE MCPgSession ----------------------------
(***************************************************************************)
(* A small Postgres session for TLC.                                       *)
(***************************************************************************)
EXTENDS PgReplies

\* all: SELECT * FROM t; two: SELECT id FROM t WHERE .. LIMIT 2; set: SET ..
MCSqls == {"", "all", "two", "set"}

Select(star, where, limit) ==
    [kind |-> "select", table |-> TRUE, agg |-> FALSE, catalog |-> FALSE,
     star |-> star, where |-> where, limit |-> limit]

MCShapeOf ==
    [q \in MCSqls |->
        CASE q = "all" -> Select(TRUE, FALSE, NoLimit)
          [] q = "two" -> Select(FALSE, TRUE, 2)
          [] q = "set" -> [Select(FALSE, FALSE, NoLimit) EXCEPT !.kind = "dml", !.table = FALSE]
          [] q = "" -> [Select(FALSE, FALSE, NoLimit) EXCEPT !.kind = "empty", !.table = FALSE]]

MixedQueries == {<<>>, <<"set", "two", "all">>, <<"all", "set">>}
\* What a Parse may name; the empty text also stands for an unknown statement.
ParsedSqls == {"all", "two", "set"}

NoQueries == {<<"two">>}

\* Two columns of a table, three of the wide schema.
MCWidthOf == [q \in MCSqls \cup {"wide"} |-> IF q = "wide" THEN 3 ELSE 2]

\* One format for every column, or one for each of two.
MCFormats == {<<"binary">>, <<"text", "binary">>}
Binary == {<<"binary">>}
=============================================================================
