------------------------------ MODULE Inference ------------------------------
(***************************************************************************)
(* The inference engine of src/src/infer.rs: from the name of a column to  *)
(* the semantic type of its values, through the user's rules first and the *)
(* built-in tables second.  A name is written as a sequence of chunks, each *)
(* a lower-case word with its capitals ("none", "first" or "all") and what *)
(* separates it from the chunk before ("" or "_").  A word has two letters *)
(* or more; chunks are never cut.  The pattern of a rule is written in the *)
(* same way, and may begin or end with an empty word: "_id", "is_".        *)
(***************************************************************************)
EXTENDS WireTypes, SequencesExt

\* The words one after the other, with sep between them.
Joined(words, sep) ==
    LET upTo[n \in 0..Len(words)] ==
            CASE n = 0 -> ""
              [] n = 1 -> words[1]
              [] OTHER -> upTo[n - 1] \o sep \o words[n]
    IN  upTo[Len(words)]

StartsWith(s, pat) == Len(s) >= Len(pat) /\ SubSeq(s, 1, Len(pat)) = pat
EndsWith(s, pat) == Len(s) >= Len(pat) /\ SubSeq(s, Len(s) - Len(pat) + 1, Len(s)) = pat
----------------------------------------------------------------------------
(* Names.                                                                  *)

\* An underscore, or a capital after a lower-case letter or a digit.
Boundary(before, chunk) ==
    chunk.sep = "_" \/ (chunk.caps # "none" /\ before.caps # "all")

\* The words of the normalized name: the runs between its underscores.
Normalize(chunks) ==
    LET upTo[n \in 1..Len(chunks)] ==
            IF n = 1 THEN <<chunks[1].word>>
            ELSE LET words == upTo[n - 1]
                     word == chunks[n].word
                 IN  IF Boundary(chunks[n - 1], chunks[n]) THEN Append(words, word)
                     ELSE Append(Front(words), Last(words) \o word)
    IN  upTo[Len(chunks)]

\* The conventions of a query: user_id, USER_ID, userId, UserId and userID.
Styles == {"snake", "upper", "camel", "pascal", "acronym"}

\* The chunks of a name written in a style; beside an empty word is always "_".
Written(words, style) ==
    [i \in DOMAIN words |->
        LET inner == IF i = 1 THEN "none" ELSE "first"
        IN  [word |-> words[i],
             sep |-> IF i > 1 /\ (style \in {"snake", "upper"} \/ "" \in {words[i - 1], words[i]})
                     THEN "_" ELSE "",
             caps |-> CASE style = "snake" -> "none"
                        [] style = "upper" -> "all"
                        [] style = "camel" -> inner
                        [] style = "pascal" -> "first"
                        [] style = "acronym" ->
                              IF i = Len(words) /\ i > 1 THEN "all" ELSE inner]]
----------------------------------------------------------------------------
(* The built-in tables.  No word stands twice in one of the first three,   *)
(* so only the order of Token matters.                                     *)

Exact ==
    [IdInt |-> {"id", "pk"}, IdUuid |-> {"uuid", "guid"}, Email |-> {"email", "mail"},
     Phone |-> {"phone", "tel", "mobile"}, IntSmall |-> {"age", "quantity", "qty", "stock"},
     IntBig |-> {"count"},
     Money |-> {"sum", "total", "price", "cost", "amount", "balance", "fee", "salary",
                "revenue"},
     Float |-> {"avg", "min", "max", "rating", "score", "weight", "height", "width"},
     Lat |-> {"lat", "latitude"}, Lng |-> {"lng", "lon", "longitude"},
     StatusEnum |-> {"status", "state"},
     KindEnum |-> {"type", "kind", "category", "tier", "plan"},
     PasswordHash |-> {"password", "secret", "token", "hash", "checksum"},
     Slug |-> {"slug"}, Url |-> {"url", "uri", "link", "website", "homepage"},
     Ip |-> {"ip"}, FullName |-> {"name"}, FirstName |-> {"firstname", "givenname"},
     LastName |-> {"lastname", "surname", "familyname"},
     Username |-> {"username", "login", "handle", "nickname"},
     Company |-> {"company", "employer", "organization", "vendor"},
     City |-> {"city", "town"}, Country |-> {"country"},
     Zipcode |-> {"zip", "zipcode", "postcode"}, StreetAddress |-> {"address", "street"},
     Color |-> {"color", "colour"}, CurrencyCode |-> {"currency"},
     LanguageCode |-> {"locale", "language", "lang"},
     LoremLong |-> {"description", "summary", "bio", "notes", "note", "comment", "body",
                    "content", "message"},
     LoremShort |-> {"title", "label", "subject"},
     Percent |-> {"percent", "percentage", "discount"}, Timestamp |-> {"timestamp"},
     Date |-> {"date", "birthday", "dob"}, Time |-> {"time"},
     Bool |-> {"active", "enabled", "disabled", "deleted", "verified", "confirmed",
               "public", "visible", "archived"},
     Json |-> {"json", "data", "payload", "metadata", "settings", "config", "preferences"},
     UserAgent |-> {"useragent"}, MimeType |-> {"mime", "mimetype", "contenttype"},
     FileSize |-> {"size", "filesize", "bytes"}, ShortCode |-> {"sku", "code"},
     Version |-> {"version"}, CreditCard |-> {"creditcard", "cardnumber"}]

\* What follows the last underscore.
Suffix ==
    [FkInt |-> {"id", "ids"}, IdUuid |-> {"uuid", "guid"}, Timestamp |-> {"at", "timestamp"},
     Date |-> {"date", "day"}, Time |-> {"time"},
     IntSmall |-> {"count", "qty", "quantity", "num", "number"},
     Url |-> {"url", "uri", "link"}, Email |-> {"email"}, Phone |-> {"phone"},
     Money |-> {"price", "cost", "amount", "total", "fee", "balance"},
     Percent |-> {"pct", "percent", "rate", "ratio"}, Ip |-> {"ip"},
     PasswordHash |-> {"hash", "token", "secret", "key"}, ShortCode |-> {"code"},
     City |-> {"city"}, Country |-> {"country"}, Zipcode |-> {"zip", "postcode"},
     Slug |-> {"slug"}, Json |-> {"json"}, FileSize |-> {"size", "bytes"},
     Version |-> {"version"}, Color |-> {"color"}, Lat |-> {"lat"}, Lng |-> {"lng", "lon"},
     Username |-> {"username"}, StreetAddress |-> {"address"},
     StatusEnum |-> {"status", "state"}, KindEnum |-> {"type", "kind", "category"},
     LoremShort |-> {"name", "title"}, LoremLong |-> {"text", "description"}]

\* What precedes the first underscore.
Prefix ==
    [Bool |-> {"is", "has", "can", "should", "was", "did", "allow"},
     IntSmall |-> {"num", "count", "total", "max", "min"}, Float |-> {"avg"}]

Token ==
    <<<<"uuid", "IdUuid">>, <<"email", "Email">>, <<"phone", "Phone">>, <<"ip", "Ip">>,
      <<"url", "Url">>, <<"price", "Money">>, <<"cost", "Money">>, <<"amount", "Money">>,
      <<"salary", "Money">>, <<"lat", "Lat">>, <<"lng", "Lng">>, <<"lon", "Lng">>,
      <<"city", "City">>, <<"country", "Country">>, <<"zip", "Zipcode">>,
      <<"address", "StreetAddress">>, <<"color", "Color">>, <<"colour", "Color">>,
      <<"status", "StatusEnum">>, <<"date", "Date">>, <<"time", "Timestamp">>,
      <<"timestamp", "Timestamp">>, <<"age", "IntSmall">>, <<"year", "IntSmall">>,
      <<"password", "PasswordHash">>, <<"token", "PasswordHash">>,
      <<"currency", "CurrencyCode">>, <<"username", "Username">>, <<"company", "Company">>,
      <<"description", "LoremLong">>, <<"comment", "LoremLong">>, <<"title", "LoremShort">>,
      <<"name", "FullName">>, <<"slug", "Slug">>, <<"version", "Version">>,
      <<"json", "Json">>, <<"size", "FileSize">>, <<"count", "IntSmall">>,
      <<"percent", "Percent">>, <<"rate", "Percent">>, <<"score", "Float">>,
      <<"rating", "Float">>>>

Listed(table, word) == \E st \in DOMAIN table : word \in table[st]
Entry(table, word) == CHOOSE st \in DOMAIN table : word \in table[st]

\* Exact names are compared without their underscores.
Infer(words) ==
    LET whole == Joined(words, "")
        token == SelectInSeq(Token, LAMBDA t : Contains(words, t[1]))
    IN  CASE Listed(Exact, whole) -> Entry(Exact, whole)
          [] ~Listed(Exact, whole) /\ Len(words) > 1 /\ Listed(Suffix, Last(words)) ->
                Entry(Suffix, Last(words))
          [] OTHER ->
                IF Len(words) > 1 /\ Listed(Prefix, words[1]) THEN Entry(Prefix, words[1])
                ELSE IF token # 0 THEN Token[token][2] ELSE "LoremShort"
----------------------------------------------------------------------------
(* The user's rules: a sequence of [kind, words, pat, st], pat a normalized *)
(* name; words, what the user meant by it, is not read here.               *)

\* Mutant: the pattern is put in lower case, its words are not told apart.
MutRuleOf(line) ==
    LET texts == [i \in DOMAIN line.pat |-> line.pat[i].sep \o line.pat[i].word]
    IN  [line EXCEPT !.pat = <<Joined(texts, "")>>]

\* The rule of a line of the file.
RuleOf(line) ==
    [kind |-> line.kind, words |-> line.words, pat |-> Normalize(line.pat), st |-> line.st]

Kinds == <<"exact", "suffix", "prefix", "token">>

Hits(rule, words) ==
    LET name == Joined(words, "_")
        pat == Joined(rule.pat, "_")
    IN  CASE rule.kind = "exact" -> pat \in {name, Joined(words, "")}
          [] rule.kind = "suffix" -> EndsWith(name, pat)
          [] rule.kind = "prefix" -> StartsWith(name, pat)
          [] rule.kind = "token" -> Contains(words, pat)

\* Mutant: the last rule of the file wins.
MutLastRuleWins(rules, words) == SelectLastInSeq(rules, LAMBDA r : Hits(r, words))

\* The position of the rule that decides, 0 if none does: by kind, then in the
\* order of the file.
Deciding(rules, words) ==
    LET First(kind) == SelectInSeq(rules, LAMBDA r : r.kind = kind /\ Hits(r, words))
        k == SelectInSeq(Kinds, LAMBDA kind : First(kind) # 0)
    IN  IF k = 0 THEN 0 ELSE First(Kinds[k])

InferWith(rules, words) ==
    LET rule == Deciding(rules, words)
    IN  IF rule # 0 THEN rules[rule].st ELSE Infer(words)
=============================================================================
