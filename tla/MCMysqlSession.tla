-------------------------- MODULE MCMysqlSession --------------------------
(***************************************************************************)
(* A small MySQL session for TLC: sequence ids are bytes, and a crush is   *)
(* long enough for them to wrap around.                                    *)
(***************************************************************************)
EXTENDS MysqlSession

\* all: SELECT * FROM t; some: SELECT a, b FROM t WHERE .. LIMIT 2;
\* set: SET ..; bare: SELECT FROM t WHERE ..
MCSqls == {"", "all", "some", "set", "bare"}

Select(star, where, limit) ==
    [kind |-> "select", table |-> TRUE, agg |-> FALSE, catalog |-> FALSE,
     star |-> star, where |-> where, limit |-> limit]

MCShapeOf ==
    [q \in MCSqls |->
        CASE q = "all" -> Select(TRUE, FALSE, NoLimit)
          [] q = "some" -> Select(FALSE, TRUE, 2)
          [] q = "bare" -> Select(FALSE, TRUE, NoLimit)
          [] q = "set" -> [Select(FALSE, FALSE, NoLimit) EXCEPT !.kind = "dml", !.table = FALSE]
          [] q = "" -> [Select(FALSE, FALSE, NoLimit) EXCEPT !.kind = "empty", !.table = FALSE]]

MCColumns ==
    [q \in MCSqls |-> CASE q = "all" -> 3 [] q = "some" -> 2 [] OTHER -> 0]

NamedQueries == {<<>>, <<"set">>, <<"some", "all">>, <<"all">>}
BareQueries == {<<"all">>, <<"bare">>}
=============================================================================
