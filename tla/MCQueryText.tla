---------------------------- MODULE MCQueryText ----------------------------
(***************************************************************************)
(* The ways of writing a query that TLC combines.                          *)
(***************************************************************************)
EXTENDS QueryText

MCPgWords == {"pg_catalog", "pg_class", "pg_backend_pid"}

MCInferredType ==
    [w \in {"id", "email", "created_at", "total"} |->
        CASE w = "id" -> "int8"
          [] w = "created_at" -> "timestamp"
          [] w = "total" -> "numeric"
          [] OTHER -> "text"]

\* Words with a blank between any two of them.
Spaced(words) ==
    [i \in 1..2 * Len(words) - 1 |-> IF i % 2 = 1 THEN words[(i + 1) \div 2] ELSE " "]

MCHeads ==
    {<<"select", " ">>,
     <<"select", " ", "distinct", " ">>,
     Spaced(<<"with", "c", "as">>) \o <<" ", "(">>
        \o Spaced(<<"select", "*", "from", "x", "where", "y", "limit", "1">>)
        \o <<")", " ", "select", " ">>}
----------------------------------------------------------------------------
Item(text, column) == [text |-> text, column |-> column]

Plainly(word) == Item(<<word>>, Named(<<word>>))

\* u.email as "From"
Aliased ==
    Item(<<"u", ".", "email", " ", "as", " ", "\"", "from", "\"">>, Named(<<"from">>))

\* 'it''s; where, from' :: json as note
Quoted ==
    Item(<<"'", "it", "''", "s", ";", " ", "where", ",", " ", "from", "'", "::", "json",
           " ", "as", " ", "note">>,
         [Echo(<<"note">>, <<"it", "'", "s", ";", " ", "where", ",", " ", "from">>, "json")
            EXCEPT !.cast = "json"])

\* extract(year from created_at)::text::int
Twice ==
    Item(<<"extract", "(", "year", " ", "from", " ", "created_at", ")",
           "::", "text", "::", "int">>,
         Cast(Named(<<"extract">>), "int4"))

\* (select max(id) from x where y limit 1) as newest
Nested ==
    Item(<<"(", "select", " ", "max", "(", "id", ")", " ", "from", " ", "x", " ", "where",
           " ", "y", " ", "limit", " ", "1", ")", " ", "as", " ", "newest">>,
         Named(<<"newest">>))

\* "order items", coalesce(a, 'b)'), total * 2, 1.5, pg_catalog.version()
Spacious == Item(<<"\"", "order", " ", "items", "\"">>, Named(<<"order", " ", "items">>))
Coalesced ==
    Item(<<"coalesce", "(", "a", ",", " ", "'", "b", ")", "'", ")">>, Named(<<"coalesce">>))
Computed == Item(<<"total", " ", "*", " ", "2">>, Named(Anonymous))
Numeric == Item(<<"1", ".", "5">>, Echo(Anonymous, <<"1", ".", "5">>, "numeric"))
Asked ==
    Item(<<"pg_catalog", ".", "version", "(", ")">>,
         Echo(<<"version">>, <<"believable">>, "text"))

\* count(*), sum(total)::numeric as total
Counted == Item(<<"count", "(", "*", ")">>, [Named(<<"count">>) EXCEPT !.aggregate = TRUE])
Summed ==
    Item(<<"sum", "(", "total", ")", "::", "numeric", " ", "as", " ", "total">>,
         [Cast(Named(<<"total">>), "numeric") EXCEPT !.aggregate = TRUE])

Listed(items) ==
    [text |-> Tail(Tail(FlattenSeq([k \in DOMAIN items |-> <<",", " ">> \o items[k].text]))),
     columns |-> [k \in DOMAIN items |-> items[k].column],
     star |-> FALSE]

MCLists ==
    {Listed(<<Counted>>), Listed(<<Counted, Summed>>),
     Listed(<<Plainly("id"), Counted>>), Listed(<<Aliased, Quoted>>),
     Listed(<<Quoted, Plainly("email")>>), Listed(<<Twice, Nested>>),
     Listed(<<Spacious, Coalesced, Computed>>), Listed(<<Numeric, Asked>>)}
    \cup
    {[text |-> <<"*">>, columns |-> StarColumns, star |-> TRUE],
     [text |-> <<"o", ".", "total", ",", " ", "u", ".", "*">>,
      columns |-> <<Named(<<"total">>)>> \o StarColumns, star |-> TRUE]}
----------------------------------------------------------------------------
From(text, table, catalog) == [text |-> text, table |-> table, catalog |-> catalog]

MCFroms ==
    {From(<<>>, FALSE, FALSE),
     From(<<" ", "from", " ", "users">>, TRUE, FALSE),
     From(<<" ", "from", " ", "\"", "where", "\"">>, TRUE, FALSE),
     From(<<" ", "from", " ", "app", ".", "users", " ", "u", " ", "join", " ", "orders",
            " ", "o", " ", "on", " ", "(", "o", ".", "id", "=", "u", ".", "id", ")">>,
          TRUE, FALSE),
     From(<<" ", "from", " ", "(", "select", " ", "*", " ", "from", " ", "x", " ", "limit",
            " ", "2", ")", " ", "s">>, FALSE, FALSE),
     From(<<" ", "from", " ", "pg_catalog", ".", "pg_class">>, TRUE, TRUE),
     From(<<" ", "from", " ", "information_schema", ".", "tables">>, TRUE, TRUE)}

Where(text, params) == [text |-> text, where |-> TRUE, params |-> params]

\* where u.id = $2 and email <> 'limit 3;' and total>=$3 and email=$1, ...
MCWheres ==
    {[text |-> <<>>, where |-> FALSE, params |-> <<>>],
     Where(<<" ", "where", " ", "u", ".", "id", " ", "=", " ", "$", "2", " ", "and", " ",
             "email", " ", "<", ">", " ", "'", "limit", " ", "3", ";", "'", " ", "and",
             " ", "total", ">", "=", "$", "3", " ", "and", " ", "email", "=", "$", "1">>,
           <<"text", "int8", "numeric">>),
     Where(<<" ", "where", " ", "exists", " ", "(", "select", " ", "1", " ", "from", " ",
             "x", " ", "where", " ", "created_at", " ", "<", " ", "$", "2", " ", "limit",
             " ", "2", ")">>,
           <<"text", "timestamp">>)}

\* LIMIT ALL and LIMIT NULL limit nothing; behind a UNION, LIMIT is still one.
MCTails ==
    {[text |-> <<>>, limit |-> NoLimit], [text |-> <<";">>, limit |-> NoLimit],
     [text |-> <<" ">> \o Spaced(<<"order", "by", "id", "limit", "null", "for", "update">>),
      limit |-> NoLimit],
     [text |-> <<" ">> \o Spaced(<<"limit", "all">>), limit |-> NoLimit],
     [text |-> <<" ">> \o Spaced(<<"union", "all", "select", "2", "limit", "1">>), limit |-> 1]}
    \cup {[text |-> <<" ", "limit", " ", ToString(n)>>, limit |-> n] : n \in 0..MaxLimit}
    \cup {[text |-> <<" ", "group", " ", "by", " ", "id", " ", "limit", " ", "2", " ",
                      "offset", " ", "1", " ", ";">>, limit |-> 2]}

Other(kind, text, table) ==
    [kind |-> kind, text |-> text, table |-> table, columns |-> <<>>, limit |-> NoLimit,
     params |-> <<>>]

\* select id from users limit $2: the number of a parameter is taken for a limit,
\* and the parameter for a text.
LimitGiven ==
    [kind |-> "select", table |-> TRUE, columns |-> <<Named(<<"id">>)>>, limit |-> 2,
     params |-> <<"text", "text">>,
     text |-> Spaced(<<"select", "id", "from", "users", "limit">>) \o <<" ", "$", "2">>]

MCOthers ==
    {Other("empty", <<>>, FALSE), Other("empty", <<" ", ";">>, FALSE),
     Other("dml", <<"begin">>, FALSE),
     Other("dml", Spaced(<<"table", "users">>), FALSE),
     Other("dml", <<"insert", " ", "into", " ", "app", ".", "users", "(", "id", ")", " ",
                    "values", "(", "'", ";", "'", ")">>, TRUE),
     Other("dml", Spaced(<<"update", "users", "set", "id", "=", "1">>), TRUE),
     Other("dml", Spaced(<<"delete", "from", "users", "where", "id", "=", "1">>), TRUE),
     [kind |-> "select", text |-> Spaced(<<"show", "timezone">>), table |-> FALSE,
      columns |-> <<Echo(<<"timezone">>, <<"believable">>, "text")>>, limit |-> 1,
      params |-> <<>>],
     LimitGiven}

MCNeighbours ==
    {<<"select", " ", "'", "a", ";", "\"", "'", ",", "\"", "b", ";", "'", "\"", ",", "(",
       "'", ")", "'", ")">>,
     <<"select", " ", "'", "it", "''", "s", "'", "||", "(", "1", ")">>}
=============================================================================
