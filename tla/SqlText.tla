------------------------------ MODULE SqlText ------------------------------
(***************************************************************************)
(* The scanner half of src/src/shape.rs: what the server reads in the text *)
(* of a query.  A text is a sequence of tokens: a word (a run of letters,  *)
(* digits and _, in lower case) or one of Marks; "''" is the doubled quote *)
(* inside a string and " " any run of blanks.  The characters of a word    *)
(* are looked at only where the code does: numerals and the prefix pg_.    *)
(***************************************************************************)
EXTENDS CrushPolicy, WireTypes, SequencesExt

CONSTANTS
    PgWords,        \* the words of the texts that start with pg_
    InferredType    \* InferredType[w]: the wire type inferred from the column name w

Operators == {"=", "<", ">", "!", "~", "+", "-", "*", "/"}
Marks ==
    Operators \cup {" ", "'", "''", "\"", "(", ")", "[", "]", ",", ";", ".", "::", "$"}

IsWord(tok) == tok \notin Marks

\* The numerals of the texts, and what parse::<usize> makes of a word.
Numerals == {ToString(n) : n \in 0..9}
ParsedNumber(w) ==
    IF w \in Numerals THEN CHOOSE n \in 0..9 : ToString(n) = w ELSE NoLimit
----------------------------------------------------------------------------
(* Pieces of a text.                                                       *)

\* The text without the tokens of marks at its ends.
Trimmed(text, marks) ==
    LET kept == {i \in DOMAIN text : text[i] \notin marks}
    IN  IF kept = {} THEN <<>> ELSE SubSeq(text, Min(kept), Max(kept))

Trim(text) == Trimmed(text, {" "})

Dequoted(text) == Trimmed(text, {"\""})

\* The text without the semicolons at its end.
Unterminated(text) ==
    SubSeq(text, 1, SelectLastInSeq(text, LAMBDA tok : tok # ";"))

\* What follows the last dot.
LastSegment(text) ==
    SubSeq(text, SelectLastInSeq(text, LAMBDA tok : tok = ".") + 1, Len(text))

\* What precedes the first token of marks.
UpTo(text, marks) ==
    LET first == SelectInSeq(text, LAMBDA tok : tok \in marks)
    IN  IF first = 0 THEN text ELSE SubSeq(text, 1, first - 1)

\* The elements of a sequence that are not in bad.
Without(seq, bad) ==
    LET upTo[n \in 0..Len(seq)] ==
            IF n = 0 THEN <<>>
            ELSE IF seq[n] \in bad THEN upTo[n - 1]
            ELSE Append(upTo[n - 1], seq[n])
    IN  upTo[Len(seq)]

\* The positions of the set at, in order.
InOrder(text, at) == Without([i \in DOMAIN text |-> i], DOMAIN text \ at)

\* The pieces between the positions in cuts.
CutAt(text, cuts) ==
    LET at == <<0>> \o InOrder(text, cuts) \o <<Len(text) + 1>>
    IN  [k \in 1..Len(at) - 1 |-> SubSeq(text, at[k] + 1, at[k + 1] - 1)]
----------------------------------------------------------------------------
(* Quotes and parentheses.                                                 *)

Plain == [depth |-> 0, sq |-> FALSE, dq |-> FALSE]

Unquoted(ctx) == ~ctx.sq /\ ~ctx.dq

\* The context after tok; a doubled quote closes and reopens the string.
Past(ctx, tok) ==
    CASE tok = "'" /\ ~ctx.dq -> [ctx EXCEPT !.sq = ~@]
      [] tok = "\"" /\ ~ctx.sq -> [ctx EXCEPT !.dq = ~@]
      [] tok \in {"(", "["} /\ Unquoted(ctx) -> [ctx EXCEPT !.depth = @ + 1]
      [] tok \in {")", "]"} /\ Unquoted(ctx) -> [ctx EXCEPT !.depth = @ - 1]
      [] OTHER -> ctx

\* Contexts(text)[i] is the context in which token i stands.
Contexts(text) ==
    LET upTo[n \in 0..Len(text)] ==
            IF n = 0 THEN <<Plain>>
            ELSE LET before == upTo[n - 1]
                 IN  Append(before, Past(before[n], text[n]))
    IN  upTo[Len(text)]

TopLevel(text) ==
    LET ctx == Contexts(text)
    IN  {i \in DOMAIN text : Unquoted(ctx[i]) /\ ctx[i].depth <= 0}

\* Mutant: a separator inside a string separates.
MutSplitInStrings(text, sep) ==
    LET parts == CutAt(text, {i \in DOMAIN text : text[i] = sep})
    IN  Without([k \in DOMAIN parts |-> Trim(parts[k])], {<<>>})

SplitTopLevel(text, sep) ==
    LET parts == CutAt(text, {i \in TopLevel(text) : text[i] = sep})
    IN  Without([k \in DOMAIN parts |-> Trim(parts[k])], {<<>>})

SplitStatements(text) == SplitTopLevel(text, ";")

\* Mutant: words inside parentheses count.
MutWordsAnywhere(text) ==
    LET ctx == Contexts(text)
    IN  InOrder(text, {i \in DOMAIN text : Unquoted(ctx[i]) /\ IsWord(text[i])})

\* The positions of the words at top level, in order.
ScanWords(text) == InOrder(text, {i \in TopLevel(text) : IsWord(text[i])})

\* The position in the text of the first of words that is in set, 0 if none is.
FirstWord(text, words, set) ==
    LET k == SelectInSeq(words, LAMBDA i : text[i] \in set)
    IN  IF k = 0 THEN 0 ELSE words[k]
----------------------------------------------------------------------------
(* Tables and LIMIT.                                                       *)

RawAfter(text, words, kw) ==
    LET at == FirstWord(text, words, {kw})
    IN  IF at = 0 THEN <<>>
        ELSE UpTo(Trim(SubSeq(text, at + 1, Len(text))), {" ", ",", ";", "(", ")"})

\* The table named after kw, <<>> when there is none.
WordAfter(text, words, kw) == Dequoted(LastSegment(RawAfter(text, words, kw)))

\* Schema and relation of a FROM target, each as written.
IsSystemCatalog(raw) ==
    LET name == Dequoted(raw)
        schema == UpTo(name, {"."})
        relation == LastSegment(name)
    IN  \/ schema \in {<<"pg_catalog">>, <<"information_schema">>}
        \/ relation # <<>> /\ Head(relation) \in PgWords

\* The word after LIMIT, if it is a number.
LimitOf(text, words) ==
    LET k == SelectInSeq(words, LAMBDA i : text[i] = "limit")
    IN  IF k = 0 \/ k = Len(words) THEN NoLimit ELSE ParsedNumber(text[words[k + 1]])
----------------------------------------------------------------------------
(* One item of a select list.  A ColumnSpec has a name (a text), a cast    *)
(* ("none" or a wire type), a literal (<<>>, or its text and wire type)    *)
(* and the mark of an aggregate.                                           *)

Anonymous == <<"?column?">>

Named(name) == [name |-> name, cast |-> "none", literal |-> <<>>, aggregate |-> FALSE]
Echo(name, value, wt) == [Named(name) EXCEPT !.literal = <<value, wt>>]

StarColumns ==
    [i \in 1..5 |-> Named(<<(<<"id", "name", "email", "status", "created_at">>)[i]>>)]

\* The introspection functions and keywords: column name and wire type.
Introspection ==
    [w \in {"version", "current_database", "current_catalog", "current_schema",
            "current_user", "current_role", "session_user", "pg_backend_pid",
            "pg_postmaster_start_time"} |->
        CASE w = "current_catalog" -> <<"current_database", "text">>
          [] w \in {"current_role", "session_user"} -> <<"current_user", "text">>
          [] w = "pg_backend_pid" -> <<w, "int4">>
          [] w = "pg_postmaster_start_time" -> <<w, "timestamp">>
          [] OTHER -> <<w, "text">>]

IsIntrospection(name) == Len(name) = 1 /\ name[1] \in DOMAIN Introspection

\* A believable answer; which one is left out.
Believable(name) ==
    Echo(<<Introspection[name[1]][1]>>, <<"believable">>, Introspection[name[1]][2])

Aggregates == {"count", "sum", "avg", "min", "max"}

IsNumeral(expr) ==
    /\ \E i \in DOMAIN expr : expr[i] \in Numerals
    /\ \A i \in DOMAIN expr : expr[i] \in Numerals \cup {"."} \/ (i = 1 /\ expr[i] = "-")

IsString(expr) == Len(expr) >= 2 /\ Head(expr) = "'" /\ Last(expr) = "'"

ClassifyExpr(expr) ==
    LET paren == SelectInSeq(expr, LAMBDA tok : tok = "(")
        fname == Trim(SubSeq(expr, 1, paren - 1))
        called == LastSegment(fname)
        name == Dequoted(Trim(LastSegment(expr)))
    IN  CASE IsNumeral(expr) ->
                Echo(Anonymous, expr, IF Contains(expr, ".") THEN "numeric" ELSE "int4")
          [] ~IsNumeral(expr) /\ IsString(expr) ->
                Echo(Anonymous, ReplaceAll(Tail(Front(expr)), "''", "'"), "text")
          [] OTHER ->
                IF paren > 0 /\ IsIntrospection(called) THEN Believable(called)
                ELSE IF paren > 0 /\ Len(fname) = 1 /\ IsWord(fname[1])
                THEN [Named(called) EXCEPT !.aggregate = fname[1] \in Aggregates]
                ELSE IF name # <<>> /\ \A i \in DOMAIN name : IsWord(name[i]) \/ name[i] = " "
                THEN IF IsIntrospection(name) THEN Believable(name) ELSE Named(name)
                ELSE Named(Anonymous)

\* Mutant: the first cast is taken.
MutFirstCast(expr) ==
    LET ctx == Contexts(expr)
        casts == {i \in DOMAIN expr :
                    expr[i] = "::" /\ ctx[i].depth = 0 /\ Unquoted(ctx[i])}
    IN  IF casts = {} THEN 0 ELSE Min(casts)

\* The last cast outside quotes and parentheses, 0 if there is none.
FindTopLevelCast(expr) ==
    LET ctx == Contexts(expr)
        casts == {i \in DOMAIN expr :
                    expr[i] = "::" /\ ctx[i].depth = 0 /\ Unquoted(ctx[i])}
    IN  IF casts = {} THEN 0 ELSE Max(casts)

\* A cast retypes the literal it is applied to.
Cast(spec, wt) ==
    IF wt = "none" THEN spec
    ELSE [spec EXCEPT !.cast = wt,
                      !.literal = IF @ = <<>> THEN @ ELSE <<@[1], wt>>]

IsStar(item) == item = <<"*">> \/ IsSuffix(<<".", "*">>, item)

\* The columns that one item adds to the result.
ParseItem(item) ==
    IF IsStar(item) THEN StarColumns
    ELSE LET as == FirstWord(item, ScanWords(item), {"as"})
             alias == Dequoted(Trim(SubSeq(item, as + 1, Len(item))))
             expr == IF as = 0 THEN item ELSE Trim(SubSeq(item, 1, as - 1))
             at == FindTopLevelCast(expr)
             type == Trim(SubSeq(expr, at + 1, Len(expr)))
             bare == IF at = 0 THEN expr ELSE Trim(SubSeq(expr, 1, at - 1))
             spec == ClassifyExpr(bare)
             named == IF as = 0 THEN spec ELSE [spec EXCEPT !.name = alias]
         IN  <<IF at = 0 \/ type = <<>> THEN named
               ELSE Cast(named, WireTypeFromSql(Head(type)))>>
----------------------------------------------------------------------------
(* A whole statement.                                                      *)

\* What extract returns: the shape, and the columns.
Result(kind, columns) ==
    [kind |-> kind, columns |-> columns, table |-> FALSE, catalog |-> FALSE,
     star |-> FALSE, where |-> FALSE, limit |-> NoLimit]

ListEnd ==
    {"from", "where", "group", "order", "having", "limit", "offset", "union",
     "except", "intersect", "into", "for"}

\* Mutant: DISTINCT is read as a part of the first item.
MutKeepsDistinct(list) ==
    IF IsPrefix(<<"all", " ">>, list) THEN Trim(Tail(list)) ELSE list

\* The select list without DISTINCT, then ALL, at its head.
WithoutQuantifier(list) ==
    LET Skip(text, kw) ==
            IF IsPrefix(<<kw, " ">>, text) THEN Trim(Tail(text)) ELSE text
    IN  Skip(Skip(list, "distinct"), "all")

\* The items of a select list.
Items(list) == SplitTopLevel(WithoutQuantifier(list), ",")

ExtractSelect(text, words) ==
    LET sel == FirstWord(text, words, {"select"})
        end == FirstWord(text, Without(words, 1..sel), ListEnd)
        list == Trim(SubSeq(text, sel + 1, IF end = 0 THEN Len(text) ELSE end - 1))
        items == Items(list)
    IN  IF sel = 0 THEN Result("dml", <<>>)
        ELSE [Result("select", FlattenSeq([k \in DOMAIN items |-> ParseItem(items[k])]))
                EXCEPT !.table = WordAfter(text, words, "from") # <<>>,
                       !.catalog = IsSystemCatalog(RawAfter(text, words, "from")),
                       !.star = \E k \in DOMAIN items : IsStar(items[k]),
                       !.where = FirstWord(text, words, {"where"}) # 0,
                       !.limit = LimitOf(text, words)]

\* INSERT, UPDATE, DELETE and every command are one kind here: see Kinds.
Extract(written) ==
    LET text == Trim(Unterminated(Trim(written)))
        words == ScanWords(text)
        first == IF words = <<>> THEN "" ELSE text[words[1]]
        target == CASE first = "insert" -> "into"
                    [] first = "update" -> "update"
                    [] first = "delete" -> "from"
                    [] OTHER -> ""
    IN  CASE text = <<>> -> Result("empty", <<>>)
          [] text # <<>> /\ first \in {"select", "with", "table"} -> ExtractSelect(text, words)
          [] first = "show" ->
                LET param == IF Len(words) = 1 THEN "setting" ELSE text[words[2]]
                IN  [Result("select", <<Echo(<<param>>, <<"believable">>, "text")>>)
                        EXCEPT !.limit = 1]
          [] OTHER ->
                [Result("dml", <<>>)
                    EXCEPT !.table = target # "" /\ WordAfter(text, words, target) # <<>>]

AggregateOnly(columns) ==
    columns # <<>> /\ \A k \in DOMAIN columns : columns[k].aggregate

\* The part of the result that the frontends branch on.
ShapeRead(result) ==
    [kind |-> result.kind, table |-> result.table, catalog |-> result.catalog,
     agg |-> AggregateOnly(result.columns), star |-> result.star,
     where |-> result.where, limit |-> result.limit]
----------------------------------------------------------------------------
(* Types of the parameters of a prepared statement.                        *)

\* The name left of one operator before position dollar, <<>> if there is none.
NearbyColumn(text, dollar) ==
    LET left == Trim(SubSeq(text, 1, dollar - 1))
        ops == Max({0} \cup {i \in DOMAIN left : left[i] \notin Operators})
        name == Trim(SubSeq(left, 1, ops))
        from == Max({0} \cup {i \in DOMAIN name : ~(IsWord(name[i]) \/ name[i] = ".")})
    IN  IF ops = Len(left) THEN <<>> ELSE LastSegment(SubSeq(name, from + 1, Len(name)))

TypeOfName(name) ==
    IF name # <<>> /\ name[1] \in DOMAIN InferredType THEN InferredType[name[1]] ELSE "text"

\* Mutant: the types are collected in the order in which parameters appear.
MutParamTypesInOrder(text) ==
    LET found == {i \in 1..Len(text) - 1 : text[i] = "$" /\ text[i + 1] \in Numerals}
        at == InOrder(text, found)
    IN  [k \in DOMAIN at |-> TypeOfName(NearbyColumn(text, at[k]))]

\* The last occurrence of a parameter decides; a number never seen is text.
ParamTypes(text) ==
    LET found == {i \in 1..Len(text) - 1 :
                    text[i] = "$" /\ text[i + 1] \in Numerals \ {"0"}}
        Of(n) == {i \in found : ParsedNumber(text[i + 1]) = n}
        params == 1..Max({0} \cup {ParsedNumber(text[i + 1]) : i \in found})
    IN  [n \in params |->
            IF Of(n) = {} THEN "text" ELSE TypeOfName(NearbyColumn(text, Max(Of(n))))]
=============================================================================
