------------------------------ MODULE MCCells ------------------------------
(* Rules, names, casts and instants for TLC. *)
EXTENDS Cells

Rule(kind, words, style, st) ==
    [kind |-> kind, words |-> words, pat |-> Written(words, style), st |-> st]

\* Every kind, patterns that overlap, the two orders of a pair, and styles:
\* userId, status, _id, _UserID, Is_ and TOTAL.
MCLines ==
    {Rule("exact", <<"user", "id">>, "camel", "Email"),
     Rule("exact", <<"status">>, "snake", "Bool"),
     Rule("suffix", <<"", "id">>, "snake", "Money"),
     Rule("suffix", <<"", "user", "id">>, "acronym", "Date"),
     Rule("prefix", <<"is", "">>, "pascal", "IntSmall"),
     Rule("token", <<"total">>, "upper", "Timestamp"),
     [kind |-> "blank"], [kind |-> "bad"]}

Vocabulary == {"id", "user", "uuid", "created", "at", "total", "is", "status", "count"}

MCNames ==
    {<<w>> : w \in Vocabulary} \cup (Vocabulary \X Vocabulary)
    \cup {<<"is", "user", "id">>, <<"total", "user", "id">>, <<"is", "total", "at">>,
          <<"first", "name">>, <<"user", "agent">>, <<"birth", "date">>, <<"start", "time">>,
          <<"avg", "weight">>, <<"file", "size">>, <<"json">>, <<"date">>}

Bit == [form |-> "int", bits |-> 1]

\* 1, 3000000000, 'abc'::int and 1::bool.
MCLiterals ==
    {[text |-> Bit, wt |-> "int4"], [text |-> [form |-> "int", bits |-> 32], wt |-> "int4"],
     [text |-> [form |-> "words"], wt |-> "int4"], [text |-> Bit, wt |-> "bool"]}

\* The first instant, the ends of 2024 and of February 2025, and the last.
MCEpochs == {1717935697, 1735689599, 1735689600, 1740787199, 1740787200, 1781049600}
=============================================================================
