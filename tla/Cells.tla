------------------------------- MODULE Cells -------------------------------
(***************************************************************************)
(* From the name of a column to the bytes of its cells: the rules file     *)
(* that is loaded at the start (infer.rs), the resolution of a column      *)
(* (shape.rs), the value generated for it or the ghost in its place        *)
(* (generate.rs), and its encoding for a client that wants binary results  *)
(* (pg.rs).  A value is the form its text has, with what the encoding      *)
(* reads in it: the bits of a number, the fields of a date.                *)
(***************************************************************************)
EXTENDS Inference, Calendar

CONSTANTS
    Lines,      \* lines of a rules file: [kind, words, pat, st], pat the words as they
                \* are written; and [kind |-> "blank"] and "bad" ones
    MaxRules,   \* bound: rules of a rules file
    Names,      \* names of columns, each a sequence of words
    Casts,      \* wire types that a query casts its columns to, "none" for no cast
    Literals,   \* [text, wt]: the literal columns of a query
    Epochs,     \* the instants that the RNG draws
    Fuzz        \* --fuzz is not 0

NOW_EPOCH == 1781049600
TWO_YEARS == 63113904

\* random_epoch: NOW_EPOCH less a number of seconds that are not two years.
RandomEpoch(epoch) == epoch \in Int /\ NOW_EPOCH - TWO_YEARS < epoch /\ epoch <= NOW_EPOCH

ASSUME CellsAssumption ==
    /\ MaxRules \in Nat
    /\ Casts \subseteq WireTypes \cup {"none"}
    /\ \A epoch \in Epochs : RandomEpoch(epoch)
    /\ Fuzz \in BOOLEAN
    /\ Names \subseteq Seq(STRING) \ {<<>>}
    /\ \A line \in Lines :
          line.kind \notin {"blank", "bad"} =>
              /\ line.kind \in {"exact", "suffix", "prefix", "token"}
              /\ line.st \in SemanticTypes
              /\ line.words \in Seq(STRING) \ {<<>>}
              /\ \E style \in Styles : line.pat = Written(line.words, style)
----------------------------------------------------------------------------
(* Columns.                                                                *)

\* Mutant: a cast changes what is announced, never what is generated.
MutResolvedKeepsFlavour(chunks, cast, rules) ==
    LET st == InferWith(rules, Normalize(chunks))
    IN  [st |-> st, wt |-> IF cast = "none" THEN WireType(st) ELSE cast]

\* A cast decides the type, and the generator too if the name contradicts it.
Resolved(chunks, cast, rules) ==
    LET st == InferWith(rules, Normalize(chunks))
    IN  IF cast \in {"none", WireType(st)} THEN [st |-> st, wt |-> WireType(st)]
        ELSE [st |-> GenericFor[cast], wt |-> cast]

\* On the extended protocol a numeric column is a float8.
Binarize(wt) == IF wt = "numeric" THEN "float8" ELSE wt
----------------------------------------------------------------------------
(* Texts.                                                                  *)

Number(bits) == [form |-> "int", bits |-> bits]
Day(date) == [form |-> "date", date |-> date]
Clock(time) == [form |-> "time", time |-> time]
Instant(date, time) == [form |-> "timestamp", date |-> date, time |-> time]
Plain(form) == [form |-> form]

\* The bits of the largest number generated.
Bits == [IdInt |-> 20, FkInt |-> 13, IntBig |-> 20, FileSize |-> 34, IntSmall |-> 7]

Generate(st, epoch) ==
    CASE st \in DOMAIN Bits -> {Number(Bits[st])}
      [] st \in RealTypes \cup DecimalTypes -> {Plain("decimal")}
      [] st = "Bool" -> {Plain("t"), Plain("f")}
      [] st = "IdUuid" -> {Plain("uuid")}
      [] st = "Json" -> {Plain("json")}
      [] st = "Date" -> {Day(FmtDate(epoch))}
      [] st = "Time" -> {Clock(FmtTime(epoch))}
      [] st = "Timestamp" -> {Instant(FmtDate(epoch), FmtTime(epoch))}
      [] st \in TextTypes -> {Plain("words")}

\* Ghost values: "nan" stands for NaN, the infinities and numbers too large for
\* an integer, which f64 parses; "far" for 9999-99-99 99:99:99, which parses as an
\* instant beyond TLC's integers; "junk" for what no type parses.
FuzzValue(wt) ==
    {Plain("junk")} \cup
    (CASE wt \in {"int4", "int8", "float8", "numeric"} -> {Plain("nan")}
       [] wt \in {"date", "time", "timestamp"} ->
             {Day(<<0, 0, 0>>), Day(<<2026, 13, 45>>), Plain("far")}
       [] OTHER -> {})

\* gen_value: what may stand in a cell, and whether a ghost put it there.
GenValue(st, wt, epoch) ==
    {[text |-> v, ghost |-> FALSE] : v \in Generate(st, epoch)}
    \cup (IF Fuzz THEN {[text |-> v, ghost |-> TRUE] : v \in FuzzValue(wt)} ELSE {})
----------------------------------------------------------------------------
(* The binary format: a value, or what stands for a text that cannot be    *)
(* parsed.                                                                 *)

Fallback == <<"fallback">>
Value(v) == <<"value", v>>

TextToBinary(wt, text) ==
    CASE wt = "bool" -> IF text.form \in {"t", "f"} THEN Value(text) ELSE Fallback
      [] wt = "int4" -> IF text.form = "int" /\ text.bits <= 31 THEN Value(text) ELSE Fallback
      [] wt = "int8" -> IF text.form = "int" /\ text.bits <= 63 THEN Value(text) ELSE Fallback
      [] wt \in {"float8", "numeric"} ->
            IF text.form \in {"int", "decimal", "nan"} THEN Value(text) ELSE Fallback
      [] wt = "date" ->
            IF text.form = "date" THEN Value(DateToBinary(text.date)) ELSE Fallback
      [] wt = "time" ->
            IF text.form = "time" THEN Value(TimeToBinary(text.time)) ELSE Fallback
      [] wt = "timestamp" ->
            IF text.form = "timestamp"
            THEN Value(TimestampToBinary(<<text.date, text.time>>))
            ELSE IF text.form = "far" THEN Value(text) ELSE Fallback
      [] wt = "uuid" -> IF text.form = "uuid" THEN Value(text) ELSE Fallback
      [] wt \in {"text", "json"} -> Value(text)

\* MySQL spells booleans 1 and 0; a ghost's boolean is a 0.
MysqlText(wt, text) ==
    IF wt # "bool" THEN text
    ELSE IF text = Plain("t") THEN Plain("1") ELSE Plain("0")
----------------------------------------------------------------------------
VARIABLES
    stage,      \* "loading" the rules file, "serving", or "exited" at a bad line
    rules,      \* the rules read so far
    column,     \* the column asked for last, with the name it was given
    cell        \* a cell of that column

cellVars == <<stage, rules, column, cell>>

NoColumn == [kind |-> "none"]
NoCell == [kind |-> "none"]

CellsInit ==
    /\ stage = "loading"
    /\ rules = <<>>
    /\ column = NoColumn
    /\ cell = NoCell

\* One turn of the loop of Rules::parse; main exits at a line it refuses.
ReadLine ==
    /\ stage = "loading" /\ Len(rules) < MaxRules
    /\ \E line \in Lines :
          /\ rules' = IF line.kind \in {"blank", "bad"} THEN rules
                      ELSE Append(rules, RuleOf(line))
          /\ stage' = IF line.kind = "bad" THEN "exited" ELSE "loading"
    /\ UNCHANGED <<column, cell>>

Serve ==
    /\ stage = "loading"
    /\ stage' = "serving"
    /\ UNCHANGED <<rules, column, cell>>

\* One cell of a column, in the formats of pg and in that of mysql.
CellOf(col, value) ==
    [kind |-> "cell", ghost |-> value.ghost, text |-> value.text,
     binary |-> TextToBinary(Binarize(col.wt), value.text),
     mysql |-> MysqlText(col.wt, value.text)]

AskColumn ==
    /\ stage = "serving" /\ cell = NoCell
    /\ \E words \in Names, style \in Styles, cast \in Casts :
          LET col == Resolved(Written(words, style), cast, rules)
          IN  \E epoch \in Epochs :
                 /\ column' = [kind |-> "named", words |-> words, cast |-> cast,
                               st |-> col.st, wt |-> col.wt, epoch |-> epoch]
                 /\ \E value \in GenValue(col.st, col.wt, epoch) : cell' = CellOf(col, value)
    /\ UNCHANGED <<stage, rules>>

\* A literal is sent as it was written.
AskLiteral ==
    /\ stage = "serving" /\ cell = NoCell
    /\ \E lit \in Literals :
          /\ column' = [kind |-> "literal", st |-> "LoremShort", wt |-> lit.wt]
          /\ cell' = [kind |-> "cell", ghost |-> FALSE, text |-> lit.text,
                      binary |-> TextToBinary(Binarize(lit.wt), lit.text),
                      mysql |-> lit.text]
    /\ UNCHANGED <<stage, rules>>

\* The cell is in the row; nothing of it is kept.
PutCell ==
    /\ cell # NoCell
    /\ column' = NoColumn /\ cell' = NoCell
    /\ UNCHANGED <<stage, rules>>

CellsNext == ReadLine \/ Serve \/ AskColumn \/ AskLiteral \/ PutCell

CellsSpec == CellsInit /\ [][CellsNext]_cellVars
----------------------------------------------------------------------------
Generated == column.kind = "named" /\ ~cell.ghost

\* A rule with its words in place of what was read of its pattern.
AsMeant(rule) == [rule EXCEPT !.pat = rule.words]

\* A name means the same however it is written, and so does the pattern of every
\* rule: snake case, camel case or capitals ("one rule set covers both
\* conventions", normalize, Rules::parse and Rules::infer in infer.rs).
ConventionsAgree ==
    column.kind = "named" /\ column.cast = "none"
        => column.st = InferWith([i \in DOMAIN rules |-> AsMeant(rules[i])], column.words)

\* The strength of a kind of rule.
Strength == [exact |-> 1, suffix |-> 2, prefix |-> 3, token |-> 4]

\* A rule takes the names that its words are part of, however it is written.
Takes(rule, words) == Hits(AsMeant(rule), words)

\* A rule that is read, in whatever style, takes the names it matches, but none
\* from an earlier rule of its own kind or a stronger one; no other name changes
\* its type (Rules::parse, Rules::infer, infer_with).
RulesLayer ==
    [][rules' # rules =>
          \A words \in Names :
             LET rule == Last(rules')
                 Taken(r) == Takes(r, words) /\ Strength[r.kind] <= Strength[rule.kind]
             IN  InferWith(rules', words) =
                    IF Takes(rule, words) /\ ~\E i \in DOMAIN rules : Taken(rules[i])
                    THEN rule.st ELSE InferWith(rules, words)]_cellVars

\* The texts that a client parses as a value of the type, sent as text.
Spelled(wt, text) ==
    CASE wt = "bool" -> text.form \in {"t", "f"}
      [] wt = "int4" -> text.form = "int" /\ text.bits <= 31
      [] wt = "int8" -> text.form = "int" /\ text.bits <= 63
      [] wt \in {"float8", "numeric"} -> text.form \in {"int", "decimal"}
      [] wt \in {"date", "time", "timestamp", "uuid", "json"} -> text.form = wt
      [] wt = "text" -> text.form \notin {"junk", "nan"}

\* Whatever its name, the rules and its cast, the generated values of a column
\* are values of the type announced for it (Resolved::from_spec, generic_for).
\* For mysql a boolean is a digit (mysql_value).
TypesAgree ==
    Generated =>
        /\ Spelled(column.wt, cell.text)
        /\ IF column.wt = "bool" THEN cell.mysql.form \in {"0", "1"}
           ELSE Spelled(column.wt, cell.mysql)

\* What the generator meant by a value.
Meant(st, text, epoch) ==
    CASE st = "Date" -> epoch \div 86400 - 10957
      [] st = "Time" -> epoch % 86400
      [] st = "Timestamp" -> epoch - 946684800
      [] OTHER -> text

\* A generated value reaches a binary client as the value it was made of: the
\* fallbacks are for ghosts (text_to_binary: "generated text is always
\* canonical, so parsing back is exact").  A literal can fall back, too.
BinaryIsExact ==
    Generated => cell.binary = Value(Meant(column.st, cell.text, column.epoch))

\* A generated date is a date of the calendar (civil_from_days, fmt_date).
DatesAreReal ==
    Generated /\ column.st \in {"Date", "Timestamp"} => IsDate(cell.text.date)
=============================================================================
