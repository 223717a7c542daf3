----------------------------- MODULE QueryText -----------------------------
(***************************************************************************)
(* A client that writes its query down.  A query has a meaning, the shape  *)
(* of CrushRestraint and the columns asked for, and many ways of putting   *)
(* it into SQL: subqueries, strings and quoted names that contain keywords *)
(* and separators, casts, aliases, joins, parameters.  The server sees the *)
(* text alone (SqlText), and its verdict is as good as its reading.        *)
(***************************************************************************)
EXTENDS CrushRestraint, SqlText

(* The ways of writing each part of a query: its text with its meaning.    *)
CONSTANTS
    Heads,      \* texts up to the select list
    Lists,      \* [text, columns, star]
    Froms,      \* [text, table, catalog]
    Wheres,     \* [text, where, params]; params: the types of $1, $2, ...
    Tails,      \* [text, limit]
    Others,     \* [text, kind, table, columns, limit, params]: statements as a whole
    Neighbours  \* statements that may stand in the same batch

\* A text that closes all it opens and in which no statement ends.
Separate(text) ==
    /\ text \in Seq(STRING)
    /\ Contexts(text)[Len(text) + 1] = Plain
    /\ \A i \in TopLevel(text) : text[i] # ";"

\* The same, perhaps with the end of the statement.
Ending(text) ==
    Separate(text) \/ (text = Append(Front(text), ";") /\ Separate(Front(text)))

\* A query ends where it ends, and a neighbour needs no trimming.
ASSUME TextsAssumption ==
    /\ \A h \in Heads : Separate(h)
    /\ \A p \in Lists \cup Froms \cup Wheres : Separate(p.text)
    /\ \A p \in Tails \cup Others : Ending(p.text)
    /\ \A n \in Neighbours :
          Separate(n) /\ n # <<>> /\ n[1] # " " /\ Last(n) # " "

\* The words of a text that count.
TopWords(text) == {text[i] : i \in {j \in TopLevel(text) : IsWord(text[j])}}

Begins(text, words) == Len(text) > 1 /\ text[1] = " " /\ text[2] \in words

\* Each clause begins with its keyword and has, outside parentheses and quotes,
\* the keyword of no other clause. Parameters stand in the WHERE alone, or in a
\* statement that is given as a whole.
ASSUME ClausesAssumption ==
    /\ \A h \in Heads :
          /\ h # <<>> /\ h[1] \in {"select", "with"} /\ "select" \in TopWords(h)
          /\ TopWords(h) \cap ListEnd = {} /\ ~Contains(h, "$")
    /\ \A l \in Lists : TopWords(l.text) \cap ListEnd = {} /\ ~Contains(l.text, "$")
    /\ \A f \in {p \in Froms : p.text # <<>>} :
          /\ Begins(f.text, {"from"}) /\ Len(f.text) > 2 /\ Last(f.text) # " "
          /\ TopWords(f.text) \cap {"where", "limit"} = {} /\ ~Contains(f.text, "$")
    /\ \A c \in {p \in Wheres : p.text # <<>>} :
          /\ Begins(c.text, {"where"}) /\ Last(c.text) # "$"
          /\ TopWords(c.text) \cap {"from", "limit"} = {}
    /\ \A t \in {p \in Tails : p.text \notin {<<>>, <<";">>}} :
          /\ Begins(t.text, ListEnd \ {"from", "where"})
          /\ TopWords(t.text) \cap {"from", "where"} = {} /\ ~Contains(t.text, "$")
    /\ \A o \in Others : o.text \notin Heads

VARIABLE writing    \* the parts of the query as written

Select(head, list, from, where, tail) ==
    [kind |-> "select", head |-> head, list |-> list, from |-> from,
     where |-> where, tail |-> tail]

\* A statement that is not put together from parts is a head without any.
Whole(other) ==
    [kind |-> other.kind, head |-> other.text,
     list |-> [text |-> <<>>, columns |-> other.columns, star |-> FALSE],
     from |-> [text |-> <<>>, table |-> other.table, catalog |-> FALSE],
     where |-> [text |-> <<>>, where |-> FALSE, params |-> other.params],
     tail |-> [text |-> <<>>, limit |-> other.limit]]

Text(w) == w.head \o w.list.text \o w.from.text \o w.where.text \o w.tail.text

Meant(w) ==
    [kind |-> w.kind, table |-> w.from.table, catalog |-> w.from.catalog,
     agg |-> AggregateOnly(w.list.columns), star |-> w.list.star,
     where |-> w.where.where, limit |-> w.tail.limit]

WriteInit ==
    /\ \/ \E h \in Heads, l \in Lists, f \in Froms, c \in Wheres, t \in Tails :
             writing = Select(h, l, f, c, t)
       \/ \E o \in Others : writing = Whole(o)
    /\ shape = Meant(writing)
    /\ Init

Rewrite(w) == writing' = w /\ shape' = Meant(w)

WriteWhere ==
    /\ writing.head \in Heads
    /\ \E c \in Wheres : Rewrite([writing EXCEPT !.where = c])
    /\ AddWhere

WriteLimit ==
    /\ writing.head \in Heads
    /\ \E t \in Tails : Rewrite([writing EXCEPT !.tail = t])
    /\ AddLimit

WriteColumns ==
    /\ writing.head \in Heads
    /\ \E l \in Lists : Rewrite([writing EXCEPT !.list = l])
    /\ NameColumns

WriteNext == WriteWhere \/ WriteLimit \/ WriteColumns

WriteSpec == WriteInit /\ [][WriteNext]_<<writing, shape, threshold>>
----------------------------------------------------------------------------
\* The clauses of w, each read on its own, say what the client means by them; a
\* statement without clauses is read as a whole.
ReadApart(w) ==
    LET text == w.head \o w.list.text
        sel == FirstWord(w.head, ScanWords(w.head), {"select"})
        items == Items(Trim(SubSeq(text, sel + 1, Len(text))))
        words == ScanWords(w.from.text)
    IN  \/ /\ w.head \in Heads
           /\ w.list.columns = FlattenSeq([k \in DOMAIN items |-> ParseItem(items[k])])
           /\ w.list.star = \E k \in DOMAIN items : IsStar(items[k])
           /\ w.from.table = (WordAfter(w.from.text, words, "from") # <<>>)
           /\ w.from.catalog = IsSystemCatalog(RawAfter(w.from.text, words, "from"))
           /\ w.where.where = (w.where.text # <<>>)
           /\ w.where.params = ParamTypes(w.where.text)
           /\ w.tail.limit = LimitOf(w.tail.text, ScanWords(w.tail.text))
        \/ /\ w.head \notin Heads
           /\ Meant(w) = ShapeRead(Extract(w.head))
           /\ w.list.columns = Extract(w.head).columns
           /\ w.where.params = ParamTypes(w.head)

\* What the client means by each clause is what the server reads in it when it
\* stands alone (word_after, is_system_catalog, the LIMIT of extract_select,
\* param_types; the items of a list by split_top_level and parse_item).
ClausesAreRead == ReadApart(writing)

\* However a query is written, the server finds the restraints it has and no
\* others: a WHERE or a LIMIT inside a subquery or a string spares nobody, a
\* join or an alias hides no table (extract, scan_words, extract_select).
RestraintsAreRead == ShapeRead(Extract(Text(writing))) = shape

\* The result has the columns the client named, in order, with the casts and
\* the literals it wrote, whatever commas, keywords and parentheses stand in
\* the items (split_top_level, parse_item, classify_expr).
ColumnsAreRead == Extract(Text(writing)).columns = writing.list.columns

\* A batch is split into exactly its statements, in order: a semicolon inside a
\* string or a quoted name ends nothing, an empty statement is dropped
\* (split_statements).
BatchIsSplit ==
    LET mine == Without(<<Trim(Unterminated(Trim(Text(writing))))>>, {<<>>})
    IN  \A n \in Neighbours :
            /\ SplitStatements(n \o <<";", " ">> \o Text(writing)) = <<n>> \o mine
            /\ SplitStatements(Text(writing) \o <<";", " ", ";">> \o n) = mine \o <<n>>

\* Every parameter gets the type of the column it is compared with, under its
\* own number, in whatever order the numbers appear (param_types).
ParamsHaveTheirTypes == ParamTypes(Text(writing)) = writing.where.params
=============================================================================
