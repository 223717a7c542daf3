--------------------------- MODULE MCCrushServer ---------------------------
(***************************************************************************)
(* Small servers for TLC: the statements, what each connection may send    *)
(* and by which listener it comes in.                                      *)
(***************************************************************************)
EXTENDS CrushServer

CONSTANTS a, b, d       \* connections

\* all: SELECT * FROM t (and redis KEYS *); few: SELECT * FROM t LIMIT 2;
\* one: SELECT 1; execute: an extended-protocol Execute of all with max_rows 1;
\* chore: Sync, COM_PING; set: an update, or a redis SET.
MCStmts == {"all", "few", "one", "execute", "chore", "set"}

Select(star, limit, table) ==
    [kind |-> "select", table |-> table, agg |-> FALSE, catalog |-> FALSE,
     star |-> star, where |-> FALSE, limit |-> limit]

MCShapeOf ==
    [s \in MCStmts |->
        CASE s \in {"all", "execute"} -> Select(TRUE, NoLimit, TRUE)
          [] s = "few" -> Select(TRUE, 2, TRUE)
          [] s = "one" -> Select(FALSE, NoLimit, FALSE)
          [] OTHER -> [Select(FALSE, NoLimit, FALSE) EXCEPT !.kind = "dml"]]

MCBudget == [s \in MCStmts |-> IF s = "execute" THEN 1 ELSE 0]
MCExtended == {"execute", "chore"}
MCChores == {"chore"}
MCSeedDraw == [s \in MCStmts |-> RowsMin]

PgCommands ==
    {<<>>, <<"one", "all">>, <<"all", "one">>, <<"execute">>, <<"chore">>}
MysqlCommands == {<<"all">>, <<"few">>, <<"chore">>}
RedisCommands == {<<"all">>, <<"set">>}

CommandsOf(proto) ==
    CASE proto = "pg" -> PgCommands
      [] proto = "mysql" -> MysqlCommands
      [] proto = "redis" -> RedisCommands

\* Two pg connections; two of different protocols; one of each.
PgPair == [c \in {a, b} |-> "pg"]
PgMysql == [c \in {a, b} |-> IF c = a THEN "pg" ELSE "mysql"]
EachOne == [c \in {a, b, d} |-> CASE c = a -> "pg" [] c = b -> "mysql" [] c = d -> "redis"]

PgPairCommands == [c \in {a, b} |-> PgCommands]
PgMysqlCommands == [c \in {a, b} |-> CommandsOf(PgMysql[c])]
FewerCommands ==
    [c \in {a, b, d} |->
        CASE c = a -> {<<"one", "all">>} [] OTHER -> {<<"all">>}]
StarCommands == [c \in {a, b} |-> {<<"few">>}]
=============================================================================
