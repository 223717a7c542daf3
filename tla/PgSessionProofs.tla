-------------------------- MODULE PgSessionProofs --------------------------
(***************************************************************************)
(* Proofs about the Postgres session and what its client may conclude.     *)
(* Listening to replies is a fold, so is what a simple query is owed; the  *)
(* names are followed through the log of requests one request at a time.   *)
(* The invariant says how much of the current answer has been given.       *)
(***************************************************************************)
EXTENDS PgReplies, Induction, FiniteSetTheorems, SequenceTheorems

\* What a request may name.
Texts == Sqls \cup {EmptySql}

Columns == [of : Texts \cup {"wide"}, numeric : {"numeric", "float8", "none"}]

PlainTags == {"E", "Z", "1", "2", "3", "I", "n", "t"}

Tags == PlainTags \cup {"D", "T", "C"}

\* The result formats of a portal, and those of the rows that follow from them.
Lists == {<<>>} \cup Formats

RowLists == {RowFormats(cols, formats) : cols \in Columns, formats \in Lists}

\* Every reply that the session sends.
Replies ==
    [tag : {"D"}, cols : Columns, formats : RowLists, n : Nat]
        \cup [tag : {"T"}, cols : Columns] \cup [tag : {"C"}, n : Nat] \cup [tag : PlainTags]

\* What a client may have heard, and a constructor for it.
Hearings ==
    [tags : Seq(Tags), rows : Nat, cols : Columns, miscounts : Nat, misfits : Nat]

HearingAs(tags, rows, cols, miscounts, misfits) ==
    [tags |-> tags, rows |-> rows, cols |-> cols, miscounts |-> miscounts, misfits |-> misfits]

\* Append and concatenation as terms that the provers do not open.
Plus(s, x) == Append(s, x)
Joined(s, t) == s \o t
----------------------------------------------------------------------------
(* Listening.                                                              *)

\* A reply is DataRows, a RowDescription, a CommandComplete or a plain tag.
LEMMA ReplyKinds ==
    ASSUME NEW reply \in Replies
    PROVE  \/ reply.tag = "D" /\ reply.cols \in Columns /\ reply.n \in Nat
           \/ reply.tag = "T" /\ reply.cols \in Columns
           \/ reply.tag = "C" /\ reply.n \in Nat
           \/ reply.tag \in PlainTags
<1> HIDE DEF Columns
<1> QED
    BY DEF Replies

\* What one reply more makes of what was heard.
LEMMA HearCases ==
    ASSUME NEW tags, NEW rows \in Nat, NEW cols, NEW miscounts \in Nat, NEW misfits \in Nat,
           NEW reply \in Replies
    PROVE  Hear(HearingAs(tags, rows, cols, miscounts, misfits), reply) =
               IF reply.tag = "D"
               THEN HearingAs(tags, rows + reply.n, cols, miscounts,
                              IF reply.cols = cols THEN misfits ELSE misfits + 1)
               ELSE HearingAs(Plus(tags, reply.tag), 0,
                              IF reply.tag = "T" THEN reply.cols ELSE cols,
                              IF reply.tag = "C" /\ reply.n # rows
                              THEN miscounts + 1 ELSE miscounts,
                              misfits)
<1> DEFINE h == HearingAs(tags, rows, cols, miscounts, misfits)
<1>1. /\ h.tags = tags /\ h.rows = rows /\ h.cols = cols
      /\ h.miscounts = miscounts /\ h.misfits = misfits
      /\ DOMAIN h = {"tags", "rows", "cols", "miscounts", "misfits"}
    BY DEF HearingAs
<1>2. /\ misfits + Bit(reply.cols # cols) = IF reply.cols = cols THEN misfits ELSE misfits + 1
      /\ miscounts + Bit(reply.tag = "C" /\ reply.n # rows) =
             IF reply.tag = "C" /\ reply.n # rows THEN miscounts + 1 ELSE miscounts
    BY DEF Bit
<1> DEFINE wide == Bit(reply.cols # cols)
           wrong == Bit(reply.tag = "C" /\ reply.n # rows)
<1>3. CASE reply.tag = "D"
    <2>1. Hear(h, reply) = HearingAs(tags, rows + reply.n, cols, miscounts, misfits + wide)
        BY <1>1, <1>3, Zenon DEF Hear, HearingAs
    <2> QED
        BY <1>2, <1>3, <2>1
<1>4. CASE reply.tag # "D"
    <2>1. Hear(h, reply) =
              HearingAs(Plus(tags, reply.tag), 0, IF reply.tag = "T" THEN reply.cols ELSE cols,
                        miscounts + wrong, misfits)
        BY <1>1, <1>4, Zenon DEF Hear, Plus, HearingAs
    <2> QED
        BY <1>2, <1>4, <2>1
<1> QED
    BY <1>3, <1>4

\* Hearing one reply more gives a hearing again.
LEMMA HearIsHearing ==
    ASSUME NEW h \in Hearings, NEW reply \in Replies
    PROVE  Hear(h, reply) \in Hearings
<1>1. /\ h.tags \in Seq(Tags) /\ h.rows \in Nat /\ h.cols \in Columns
      /\ h.miscounts \in Nat /\ h.misfits \in Nat
    BY DEF Hearings
<1> HIDE DEF Columns
<1>2. reply.tag \in Tags
    BY ReplyKinds DEF PlainTags, Tags
<1>3. Append(h.tags, reply.tag) \in Seq(Tags)
    BY <1>1, <1>2
<1>4. /\ reply.tag = "D" => reply.n \in Nat
      /\ reply.tag = "T" => reply.cols \in Columns
    BY ReplyKinds DEF PlainTags
<1> DEFINE wide == Bit(reply.cols # h.cols)
           wrong == Bit(reply.tag = "C" /\ reply.n # h.rows)
<1>5. wide \in Nat /\ wrong \in Nat
    BY DEF Bit
<1> HIDE DEF wide, wrong
<1>6. CASE reply.tag = "D"
    <2>1. Hear(h, reply) = [tags |-> h.tags, rows |-> h.rows + reply.n, cols |-> h.cols,
                            miscounts |-> h.miscounts, misfits |-> h.misfits + wide]
        BY <1>6, Zenon DEF Hear, wide
    <2> QED
        BY <1>1, <1>4, <1>5, <1>6, <2>1 DEF Hearings
<1>7. CASE reply.tag # "D"
    <2> DEFINE cols == IF reply.tag = "T" THEN reply.cols ELSE h.cols
    <2>1. cols \in Columns
        BY <1>1, <1>4
    <2>2. Hear(h, reply) = [tags |-> Append(h.tags, reply.tag), rows |-> 0, cols |-> cols,
                            miscounts |-> h.miscounts + wrong, misfits |-> h.misfits]
        BY <1>7, Zenon DEF Hear, wrong
    <2> HIDE DEF cols
    <2> QED
        BY <1>1, <1>3, <1>5, <2>1, <2>2 DEF Hearings
<1> QED
    BY <1>6, <1>7

----------------------------------------------------------------------------
\* Hearing as a step of a fold.
HearStep == [x \in Hearings \X Replies |-> Hear(x[1], x[2])]

\* Hearing is a fold over the replies,
LEMMA HearFoldable ==
    ASSUME NEW replies \in Seq(Replies)
    PROVE  Foldable(replies, Unheard, HearStep, Hearings, Replies)
<1>1. Unheard \in Hearings
    BY DEF Unheard, Hearings, Columns, Texts
<1>2. \A x \in Hearings \X Replies : Hear(x[1], x[2]) \in Hearings
    BY HearIsHearing
<1> QED
    BY <1>1, <1>2 DEF Foldable, HearStep

\* so that Heard is one: the recursive definition and the fold agree,
LEMMA HeardIsFold ==
    ASSUME NEW replies \in Seq(Replies)
    PROVE  /\ Heard(replies) = Fold(replies, Unheard, HearStep)
           /\ Heard(replies) \in Hearings
<1>0. Foldable(replies, Unheard, HearStep, Hearings, Replies)
    BY HearFoldable
<1>1. PICK f : Follows(f, replies, Unheard, HearStep, Hearings)
    BY <1>0, FoldExists, Zenon
<1>2. Len(replies) \in Nat /\ \A k \in 1 .. Len(replies) : replies[k] \in Replies
    OBVIOUS
<1>3. \A h \in Hearings, reply \in Replies : HearStep[<<h, reply>>] = Hear(h, reply)
    BY DEF HearStep
<1> DEFINE body(h) == [n \in 0 .. Len(replies) |->
                          IF n = 0 THEN Unheard ELSE Hear(h[n - 1], replies[n])]
           upTo == CHOOSE h : h = body(h)
<1> HIDE DEF Hearings, Replies, HearStep, Hear, Unheard
<1>4. f = body(f)
    <2>1. \A n \in 0 .. Len(replies) :
              f[n] = IF n = 0 THEN Unheard ELSE Hear(f[n - 1], replies[n])
        <3> TAKE n \in 0 .. Len(replies)
        <3>1. CASE n = 0
            BY <1>1, <3>1 DEF Follows
        <3>2. CASE n # 0
            <4>1. n \in 1 .. Len(replies) /\ n - 1 \in 0 .. Len(replies)
                BY <1>2, <3>2
            <4>2. f[n - 1] \in Hearings /\ replies[n] \in Replies
                BY <1>1, <1>2, <4>1 DEF Follows
            <4>3. f[n] = HearStep[<<f[n - 1], replies[n]>>]
                BY <1>1, <4>1 DEF Follows
            <4> QED
                BY <1>3, <3>2, <4>2, <4>3
        <3> QED
            BY <3>1, <3>2
    <2>2. f = [n \in 0 .. Len(replies) |-> f[n]]
        BY <1>1 DEF Follows
    <2>3. body(f) = [n \in 0 .. Len(replies) |-> f[n]]
        BY <2>1
    <2> QED
        BY <2>2, <2>3
<1>5. Heard(replies) = upTo[Len(replies)]
    BY DEF Heard
<1> HIDE DEF body
<1>6. upTo = body(upTo)
    BY <1>4
<1> HIDE DEF upTo
<1>7. \A n \in 0 .. Len(replies) :
          upTo[n] = IF n = 0 THEN Unheard ELSE Hear(upTo[n - 1], replies[n])
    <2>1. \A n \in 0 .. Len(replies) : body(upTo)[n] =
              IF n = 0 THEN Unheard ELSE Hear(upTo[n - 1], replies[n])
        BY DEF body
    <2> QED
        BY <1>6, <2>1, Zenon
<1>8. Heeds(upTo, replies, Unheard, HearStep, Hearings)
    BY <1>2, <1>3, <1>7 DEF Heeds
<1>9. Reads(upTo, replies, Unheard, HearStep, Hearings, Replies)
    BY <1>0, <1>8, Zenon DEF Reads
<1>10. /\ upTo[Len(replies)] = Fold(replies, Unheard, HearStep)
       /\ Fold(replies, Unheard, HearStep) \in Hearings
    BY <1>9, FoldIs, Zenon
<1> QED
    BY <1>5, <1>10

\* who reads nothing has heard nothing,
LEMMA HeardNothing == Heard(<<>>) = Unheard
<1>1. <<>> \in Seq(Replies)
    OBVIOUS
<1>2. Foldable(<<>>, Unheard, HearStep, Hearings, Replies)
    BY <1>1, HearFoldable
<1>3. Heard(<<>>) = Fold(<<>>, Unheard, HearStep)
    BY <1>1, HeardIsFold
<1> QED
    BY <1>2, <1>3, FoldEmpty, Zenon

\* and one reply more is one step more.
LEMMA HeardOneMore ==
    ASSUME NEW replies \in Seq(Replies), NEW reply \in Replies
    PROVE  Heard(Plus(replies, reply)) = Hear(Heard(replies), reply)
<1>1. Foldable(replies, Unheard, HearStep, Hearings, Replies)
    BY HearFoldable
<1>2. /\ Heard(replies) = Fold(replies, Unheard, HearStep) /\ Heard(replies) \in Hearings
      /\ Heard(Append(replies, reply)) = Fold(Append(replies, reply), Unheard, HearStep)
    <2>1. Append(replies, reply) \in Seq(Replies)
        OBVIOUS
    <2> QED
        BY <2>1, HeardIsFold
<1>3. \A e \in Replies :
          /\ Fold(replies, Unheard, HearStep) \in Hearings
          /\ Fold(Append(replies, e), Unheard, HearStep) =
                 HearStep[<<Fold(replies, Unheard, HearStep), e>>]
    <2>1. Grows(replies, Unheard, HearStep, Hearings, Replies)
        BY <1>1, FoldAppend, Zenon
    <2> QED
        BY <2>1, Zenon DEF Grows
<1>4. HearStep[<<Heard(replies), reply>>] = Hear(Heard(replies), reply)
    BY <1>2 DEF HearStep
<1> HIDE DEF Replies, HearStep, Unheard
<1> QED
    BY <1>2, <1>3, <1>4 DEF Plus
----------------------------------------------------------------------------
(* The tags of several statements.                                         *)

\* The tags of one statement as a step of a fold.
TagStep == [x \in Seq(Tags) \X Texts |-> x[1] \o ResultTags(x[2])]

\* The tags of one statement are tags.
LEMMA ResultTagsAreTags ==
    ASSUME NEW sql
    PROVE  ResultTags(sql) \in Seq(Tags) /\ DoneTags(sql) \in Seq(Tags)
<1>1. {"T", "C", "I"} \subseteq Tags
    BY DEF Tags, PlainTags
<1> HIDE DEF Tags
<1> QED
    BY <1>1 DEF ResultTags, DoneTags

\* The tags of several statements are a fold over them,
LEMMA TagFoldable ==
    ASSUME NEW stmts \in Seq(Texts)
    PROVE  Foldable(stmts, <<>>, TagStep, Seq(Tags), Texts)
<1> HIDE DEF Tags
<1>2. \A x \in Seq(Tags) \X Texts : x[1] \o ResultTags(x[2]) \in Seq(Tags)
    <2> TAKE x \in Seq(Tags) \X Texts
    <2>1. ResultTags(x[2]) \in Seq(Tags) /\ x[1] \in Seq(Tags)
        BY ResultTagsAreTags
    <2> HIDE DEF ResultTags
    <2> QED
        BY <2>1
<1> QED
    BY <1>2 DEF Foldable, TagStep

\* so that AnswerTags is one,
LEMMA AnswerTagsIsFold ==
    ASSUME NEW stmts \in Seq(Texts)
    PROVE  /\ AnswerTags(stmts) = Fold(stmts, <<>>, TagStep)
           /\ AnswerTags(stmts) \in Seq(Tags)
<1>0. Foldable(stmts, <<>>, TagStep, Seq(Tags), Texts)
    BY TagFoldable
<1> DEFINE S == Seq(Tags)
<1>1. PICK f : Follows(f, stmts, <<>>, TagStep, S)
    BY <1>0, FoldExists, Zenon
<1>2. Len(stmts) \in Nat /\ \A k \in 1 .. Len(stmts) : stmts[k] \in Texts
    OBVIOUS
<1>3. \A s \in S, q \in Texts : TagStep[<<s, q>>] = Joined(s, ResultTags(q))
    BY DEF TagStep, Joined
<1> DEFINE body(h) == [n \in 0 .. Len(stmts) |->
                          IF n = 0 THEN <<>> ELSE Joined(h[n - 1], ResultTags(stmts[n]))]
           upTo == CHOOSE h : h = body(h)
<1>5. AnswerTags(stmts) = upTo[Len(stmts)]
    BY DEF AnswerTags, Joined
<1> HIDE DEF S, Texts, TagStep, ResultTags
<1>4. f = body(f)
    <2>1. \A n \in 0 .. Len(stmts) :
              f[n] = IF n = 0 THEN <<>> ELSE Joined(f[n - 1], ResultTags(stmts[n]))
        BY <1>1, <1>2, <1>3 DEF Follows
    <2>2. f = [n \in 0 .. Len(stmts) |-> f[n]]
        BY <1>1 DEF Follows
    <2>3. body(f) = [n \in 0 .. Len(stmts) |-> f[n]]
        BY <2>1
    <2> QED
        BY <2>2, <2>3
<1> HIDE DEF body
<1>6. upTo = body(upTo)
    BY <1>4
<1> HIDE DEF upTo
<1>7. \A n \in 0 .. Len(stmts) :
          upTo[n] = IF n = 0 THEN <<>> ELSE Joined(upTo[n - 1], ResultTags(stmts[n]))
    <2>1. \A n \in 0 .. Len(stmts) : body(upTo)[n] =
              IF n = 0 THEN <<>> ELSE Joined(upTo[n - 1], ResultTags(stmts[n]))
        BY DEF body
    <2> QED
        BY <1>6, <2>1, Zenon
<1>8. Heeds(upTo, stmts, <<>>, TagStep, S)
    BY <1>2, <1>3, <1>7 DEF Heeds
<1>9. Reads(upTo, stmts, <<>>, TagStep, S, Texts)
    BY <1>0, <1>8, Zenon DEF Reads, S
<1>10. upTo[Len(stmts)] = Fold(stmts, <<>>, TagStep) /\ Fold(stmts, <<>>, TagStep) \in S
    BY <1>9, FoldIs, Zenon
<1> QED
    BY <1>5, <1>10 DEF S

\* no statement has no tags,
LEMMA AnswerTagsOfNone == AnswerTags(<<>>) = <<>>
<1>1. <<>> \in Seq(Texts)
    OBVIOUS
<1>2. Foldable(<<>>, <<>>, TagStep, Seq(Tags), Texts)
    BY <1>1, TagFoldable
<1>3. AnswerTags(<<>>) = Fold(<<>>, <<>>, TagStep)
    BY <1>1, AnswerTagsIsFold
<1> QED
    BY <1>2, <1>3, FoldEmpty, Zenon

\* and the tags of one statement more come at the end.
LEMMA AnswerTagsOneMore ==
    ASSUME NEW stmts \in Seq(Texts), NEW sql \in Texts
    PROVE  AnswerTags(Plus(stmts, sql)) = Joined(AnswerTags(stmts), ResultTags(sql))
<1>1. Foldable(stmts, <<>>, TagStep, Seq(Tags), Texts)
    BY TagFoldable
<1>2. /\ AnswerTags(stmts) = Fold(stmts, <<>>, TagStep) /\ AnswerTags(stmts) \in Seq(Tags)
      /\ AnswerTags(Plus(stmts, sql)) = Fold(Plus(stmts, sql), <<>>, TagStep)
    <2>1. Plus(stmts, sql) \in Seq(Texts)
        BY DEF Plus
    <2> QED
        BY <2>1, AnswerTagsIsFold
<1>3. \A e \in Texts :
          Fold(Plus(stmts, e), <<>>, TagStep) = TagStep[<<Fold(stmts, <<>>, TagStep), e>>]
    <2>1. Grows(stmts, <<>>, TagStep, Seq(Tags), Texts)
        BY <1>1, FoldAppend, Zenon
    <2> QED
        BY <2>1, Zenon DEF Grows, Plus
<1>4. TagStep[<<AnswerTags(stmts), sql>>] = Joined(AnswerTags(stmts), ResultTags(sql))
    BY <1>2 DEF TagStep, Joined
<1> HIDE DEF TagStep, Texts
<1> QED
    BY <1>2, <1>3, <1>4

----------------------------------------------------------------------------
(* Cutting what was written.                                               *)

\* What was written to the socket between two points.
Slice(s, a, b) == SubSeq(s, a + 1, b)

\* Slice and Joined, element by element.
SliceAs(w, s, a, b) ==
    /\ w \in Seq(Replies) /\ Len(w) = b - a
    /\ \A i \in 1 .. b - a : w[i] = s[a + i]

JoinedAs(u, s, t) ==
    /\ u \in Seq(Replies) /\ Len(u) = Len(s) + Len(t) /\ Len(s) \in Nat /\ Len(t) \in Nat
    /\ \A i \in 1 .. Len(s) : u[i] = s[i]
    /\ \A i \in 1 .. Len(t) : u[Len(s) + i] = t[i]

\* A slice, element by element.
LEMMA SliceIs ==
    ASSUME NEW s \in Seq(Replies), NEW a \in Nat, NEW b \in Nat, a <= b, b <= Len(s)
    PROVE  SliceAs(Slice(s, a, b), s, a, b)
<1>1. \A i \in a + 1 .. b : s[i] \in Replies
    OBVIOUS
<1>2. a + 1 \in Int /\ b \in Int /\ b - (a + 1) + 1 = b - a
    OBVIOUS
<1> DEFINE m == a + 1
<1>3. m \in Int /\ \A i \in m .. b : s[i] \in Replies
    BY <1>1, <1>2
<1> HIDE DEF m
<1>4. /\ SubSeq(s, m, b) \in Seq(Replies)
      /\ Len(SubSeq(s, m, b)) = IF m <= b THEN b - m + 1 ELSE 0
      /\ \A i \in 1 .. b - m + 1 : SubSeq(s, m, b)[i] = s[m + i - 1]
    BY <1>2, <1>3, SubSeqProperties
<1>5. \A i \in 1 .. b - a : m + i - 1 = a + i
    BY DEF m
<1>6. b - m + 1 = b - a
    BY DEF m
<1>7. (IF m <= b THEN b - m + 1 ELSE 0) = b - a
    BY DEF m
<1>8. Slice(s, a, b) = SubSeq(s, m, b)
    BY DEF Slice, m
<1> DEFINE w == SubSeq(s, m, b)
<1>9. w \in Seq(Replies) /\ Len(w) = b - a /\ \A i \in 1 .. b - a : w[i] = s[a + i]
    BY <1>4, <1>5, <1>6, <1>7
<1> HIDE DEF w
<1>10. SliceAs(w, s, a, b)
    BY <1>9 DEF SliceAs
<1> QED
    BY <1>8, <1>10 DEF w

\* Two sequences joined, element by element.
LEMMA JoinedIs ==
    ASSUME NEW s \in Seq(Replies), NEW t \in Seq(Replies)
    PROVE  JoinedAs(Joined(s, t), s, t)
BY DEF Joined, JoinedAs

\* What was written is not changed by what is written after it,
LEMMA SliceKept ==
    ASSUME NEW s \in Seq(Replies), NEW t \in Seq(Replies),
           NEW a \in Nat, NEW b \in Nat, a <= b, b <= Len(s)
    PROVE  Slice(Joined(s, t), a, b) = Slice(s, a, b)
<1> DEFINE u == Joined(s, t)
           v == Slice(u, a, b)
           w == Slice(s, a, b)
<1>0. JoinedAs(u, s, t) /\ SliceAs(w, s, a, b)
    BY JoinedIs, SliceIs
<1> HIDE DEF u, w
<1>1. u \in Seq(Replies) /\ b <= Len(u) /\ \A i \in 1 .. b : u[i] = s[i]
    BY <1>0 DEF JoinedAs
<1>2. SliceAs(v, u, a, b)
    BY <1>1, SliceIs
<1> HIDE DEF v
<1>3. /\ w \in Seq(Replies) /\ Len(w) = b - a /\ v \in Seq(Replies) /\ Len(v) = b - a
      /\ \A i \in 1 .. b - a : w[i] = s[a + i] /\ v[i] = u[a + i]
    BY <1>0, <1>2 DEF SliceAs
<1>i. \A i \in 1 .. b - a : a + i \in 1 .. b
    OBVIOUS
<1>4. \A i \in 1 .. b - a : v[i] = w[i]
    BY <1>1, <1>3, <1>i
<1>5. v = w
    BY <1>3, <1>4, SeqEqual
<1> QED
    BY <1>5 DEF v, w, u

\* and what has been written since comes at its end.
LEMMA SliceGrows ==
    ASSUME NEW s \in Seq(Replies), NEW t \in Seq(Replies), NEW a \in Nat, a <= Len(s)
    PROVE  Slice(Joined(s, t), a, Len(Joined(s, t))) = Joined(Slice(s, a, Len(s)), t)
<1> DEFINE u == Joined(s, t)
           m == Len(s)
           k == Len(t)
           w == Slice(s, a, m)
           v == Slice(u, a, m + k)
           x == Joined(w, t)
<1>0. m \in Nat /\ m <= Len(s)
    OBVIOUS
<1>1. JoinedAs(u, s, t) /\ SliceAs(w, s, a, m)
    BY <1>0, JoinedIs, SliceIs
<1> HIDE DEF u, w
<1>2. /\ u \in Seq(Replies) /\ Len(u) = m + k /\ m \in Nat /\ k \in Nat /\ a <= m
      /\ \A i \in 1 .. m : u[i] = s[i]
      /\ \A i \in 1 .. k : u[m + i] = t[i]
    BY <1>1 DEF JoinedAs
<1>3. w \in Seq(Replies) /\ Len(w) = m - a /\ \A i \in 1 .. m - a : w[i] = s[a + i]
    BY <1>1 DEF SliceAs
<1>4. JoinedAs(x, w, t)
    BY <1>3, JoinedIs
<1>5. m + k \in Nat /\ a <= m + k /\ m + k <= Len(u) /\ (m + k) - a = (m - a) + k
    BY <1>2
<1>6. SliceAs(v, u, a, m + k)
    BY <1>2, <1>5, SliceIs
<1> HIDE DEF v, x
<1>7. /\ x \in Seq(Replies) /\ Len(x) = (m - a) + k
      /\ \A i \in 1 .. m - a : x[i] = w[i]
      /\ \A i \in 1 .. k : x[(m - a) + i] = t[i]
    BY <1>3, <1>4 DEF JoinedAs
<1>8. /\ v \in Seq(Replies) /\ Len(v) = (m - a) + k
      /\ \A i \in 1 .. (m - a) + k : v[i] = u[a + i]
    BY <1>5, <1>6 DEF SliceAs
<1> HIDE DEF m, k
<1>9. ASSUME NEW i \in 1 .. (m - a) + k
      PROVE  v[i] = x[i]
    <2>0. v[i] = u[a + i]
        BY <1>8
    <2>1. CASE i <= m - a
        <3>1. i \in 1 .. m - a /\ a + i \in 1 .. m
            BY <1>2, <2>1
        <3> QED
            BY <1>2, <1>3, <1>7, <2>0, <3>1
    <2>2. CASE i > m - a
        <3> DEFINE j == i - (m - a)
        <3>1. j \in 1 .. k /\ (m - a) + j = i /\ m + j = a + i
            BY <1>2, <2>2
        <3> HIDE DEF j
        <3>2. x[(m - a) + j] = t[j] /\ u[m + j] = t[j]
            BY <1>2, <1>7, <3>1
        <3> QED
            BY <2>0, <3>1, <3>2
    <2> QED
        BY <1>2, <2>1, <2>2
<1>10. v = x
    BY <1>7, <1>8, <1>9, SeqEqual
<1> QED
    BY <1>2, <1>10 DEF v, x, w, u, m, k

\* A slice that ends where it begins is empty.
LEMMA SliceNone ==
    ASSUME NEW s \in Seq(Replies), NEW a \in Nat, a <= Len(s)
    PROVE  Slice(s, a, a) = <<>>
<1> DEFINE w == Slice(s, a, a)
<1>1. w \in Seq(Replies) /\ Len(w) = 0
    <2>1. a - a = 0 /\ a <= a
        OBVIOUS
    <2>2. SliceAs(w, s, a, a)
        BY <2>1, SliceIs
    <2> HIDE DEF w
    <2> QED
        BY <2>1, <2>2 DEF SliceAs
<1> HIDE DEF w
<1>2. w = <<>>
    BY <1>1
<1> QED
    BY <1>2 DEF w
----------------------------------------------------------------------------
\* One more element is a sequence of one joined.
LEMMA PlusIs ==
    ASSUME NEW s \in Seq(Replies), NEW x \in Replies
    PROVE  /\ Plus(s, x) \in Seq(Replies) /\ <<x>> \in Seq(Replies)
           /\ Plus(<<>>, x) = <<x>> /\ Joined(s, <<x>>) = Plus(s, x)
<1> QED
    BY DEF Plus, Joined

\* Joining nothing changes nothing.
LEMMA JoinNone ==
    ASSUME NEW s \in Seq(Replies)
    PROVE  Joined(s, <<>>) = s /\ Joined(<<>>, s) = s
<1> QED
    BY DEF Joined

\* Joining is associative,
LEMMA JoinThree ==
    ASSUME NEW s \in Seq(Replies), NEW t \in Seq(Replies), NEW u \in Seq(Replies)
    PROVE  Joined(s, Joined(t, u)) = Joined(Joined(s, t), u)
<1> QED
    BY ConcatAssociative DEF Joined

\* with one element also,
LEMMA JoinPlus ==
    ASSUME NEW s \in Seq(Replies), NEW t \in Seq(Replies), NEW x \in Replies
    PROVE  Joined(s, Plus(t, x)) = Plus(Joined(s, t), x)
<1>0. PICK u : u = <<x>>
    OBVIOUS
<1>1. u \in Seq(Replies) /\ Joined(s, t) \in Seq(Replies)
    BY <1>0, PlusIs, JoinedIs DEF JoinedAs
<1>2. Joined(t, u) = Plus(t, x) /\ Joined(Joined(s, t), u) = Plus(Joined(s, t), x)
    BY <1>0, <1>1, PlusIs
<1> QED
    BY <1>1, <1>2, JoinThree

\* and with two.
LEMMA PlusTwo ==
    ASSUME NEW s \in Seq(Replies), NEW x \in Replies, NEW y \in Replies
    PROVE  <<x, y>> \in Seq(Replies) /\ Joined(s, <<x, y>>) = Plus(Plus(s, x), y)
<1> DEFINE t == <<x>>
           u == Plus(t, y)
           v == <<x, y>>
<1>1. t \in Seq(Replies) /\ Len(t) = 1 /\ t[1] = x
    OBVIOUS
<1>2. v \in Seq(Replies) /\ Len(v) = 2 /\ v[1] = x /\ v[2] = y
    OBVIOUS
<1>3. u \in Seq(Replies) /\ Len(u) = 2 /\ u[1] = x /\ u[2] = y
    BY <1>1 DEF Plus
<1>4. \A i \in 1 .. 2 : i = 1 \/ i = 2
    OBVIOUS
<1> HIDE DEF u, v
<1>5. u = v
    BY <1>2, <1>3, <1>4, SeqEqual
<1>6. Joined(s, Plus(t, y)) = Plus(Joined(s, t), y)
    BY <1>1, JoinPlus
<1>7. Joined(s, t) = Plus(s, x)
    BY PlusIs
<1>8. Joined(s, v) = Plus(Plus(s, x), y)
    BY <1>5, <1>6, <1>7 DEF u
<1> QED
    BY <1>2, <1>8 DEF v

\* The same of tags.
LEMMA PlusTags ==
    ASSUME NEW s \in Seq(Tags), NEW x \in Tags, NEW y \in Tags
    PROVE  /\ Plus(s, x) \in Seq(Tags)
           /\ Joined(s, <<x>>) = Plus(s, x) /\ Joined(s, <<>>) = s
           /\ Joined(s, <<x>> \o <<y>>) = Plus(Plus(s, x), y)
           /\ Plus(<<>>, x) = <<x>> /\ Plus(<<x>>, y) = <<x>> \o <<y>>
<1>1. /\ Plus(s, x) \in Seq(Tags) /\ Joined(s, <<x>>) = Plus(s, x) /\ Joined(s, <<>>) = s
      /\ Plus(<<>>, x) = <<x>> /\ Plus(<<x>>, y) = <<x>> \o <<y>>
    BY DEF Plus, Joined
<1> DEFINE t == <<x>>
           u == <<y>>
<1>2. t \in Seq(Tags) /\ u \in Seq(Tags)
    OBVIOUS
<1>3. Plus(s, x) \o <<y>> = Plus(Plus(s, x), y)
    BY <1>1 DEF Plus
<1>4. Plus(s, x) = s \o t
    BY DEF Plus
<1> HIDE DEF t, u
<1>5. (s \o t) \o u = s \o (t \o u)
    BY <1>2, ConcatAssociative
<1>6. Joined(s, t \o u) = Plus(Plus(s, x), y)
    BY <1>3, <1>4, <1>5, Zenon DEF Joined, u
<1> QED
    BY <1>1, <1>6 DEF t, u

----------------------------------------------------------------------------
(* What is said.                                                           *)

\* A client that reads s has heard these tags and rows; every count was right.
Hears(s, tags, rows, cols, misfits) ==
    /\ s \in Seq(Replies) /\ rows \in Nat /\ misfits \in Nat
    /\ Heard(s) = HearingAs(tags, rows, cols, 0, misfits)

\* Before the first reply.
LEMMA HearsNothing == Hears(<<>>, <<>>, 0, Unheard.cols, 0)
<1>1. Heard(<<>>) = HearingAs(<<>>, 0, Unheard.cols, 0, 0)
    BY HeardNothing DEF Unheard, HearingAs
<1>2. <<>> \in Seq(Replies)
    OBVIOUS
<1> QED
    BY <1>1, <1>2 DEF Hears

\* One reply more: a CommandComplete that counts right is no miscount, DataRows
\* with other columns are a misfit.
LEMMA SayOne ==
    ASSUME NEW s, NEW tags, NEW rows, NEW cols, NEW misfits,
           Hears(s, tags, rows, cols, misfits), NEW reply \in Replies
    PROVE  /\ reply.tag # "D" /\ (reply.tag = "C" => reply.n = rows) =>
                  Hears(Plus(s, reply), Plus(tags, reply.tag), 0,
                        IF reply.tag = "T" THEN reply.cols ELSE cols, misfits)
           /\ reply.tag = "D" =>
                  Hears(Plus(s, reply), tags, rows + reply.n, cols,
                        IF reply.cols = cols THEN misfits ELSE misfits + 1)
<1>1. s \in Seq(Replies) /\ rows \in Nat /\ misfits \in Nat
    BY DEF Hears
<1>2. Plus(s, reply) \in Seq(Replies)
    BY <1>1, PlusIs
<1>3. Heard(Plus(s, reply)) = Hear(HearingAs(tags, rows, cols, 0, misfits), reply)
    BY <1>1, HeardOneMore DEF Hears
<1>4. 0 \in Nat
    OBVIOUS
<1>5. Heard(Plus(s, reply)) =
          IF reply.tag = "D"
          THEN HearingAs(tags, rows + reply.n, cols, 0,
                         IF reply.cols = cols THEN misfits ELSE misfits + 1)
          ELSE HearingAs(Plus(tags, reply.tag), 0,
                         IF reply.tag = "T" THEN reply.cols ELSE cols,
                         IF reply.tag = "C" /\ reply.n # rows THEN 0 + 1 ELSE 0,
                         misfits)
    BY <1>1, <1>3, <1>4, HearCases
<1>6. reply.tag = "D" => reply.n \in Nat
    BY ReplyKinds DEF PlainTags
<1>7. ASSUME reply.tag = "D"
      PROVE  Hears(Plus(s, reply), tags, rows + reply.n, cols,
                   IF reply.cols = cols THEN misfits ELSE misfits + 1)
    BY <1>1, <1>2, <1>5, <1>6, <1>7 DEF Hears
<1>8. ASSUME reply.tag # "D", reply.tag = "C" => reply.n = rows
      PROVE  Hears(Plus(s, reply), Plus(tags, reply.tag), 0,
                   IF reply.tag = "T" THEN reply.cols ELSE cols, misfits)
    <2>1. Heard(Plus(s, reply)) =
              HearingAs(Plus(tags, reply.tag), 0,
                        IF reply.tag = "T" THEN reply.cols ELSE cols, 0, misfits)
        BY <1>5, <1>8
    <2> QED
        BY <1>1, <1>2, <1>4, <2>1 DEF Hears
<1> QED
    BY <1>7, <1>8

\* A plain reply is none of those with columns or a count.
LEMMA PlainIs ==
    ASSUME NEW tag \in PlainTags
    PROVE  /\ Plain(tag) \in Replies /\ Plain(tag).tag = tag
           /\ tag \notin {"D", "T", "C"}
BY DEF Plain, Replies, PlainTags

\* The same for each kind: a plain reply,
LEMMA SayPlain ==
    ASSUME NEW s, NEW tags, NEW rows, NEW cols, NEW misfits,
           Hears(s, tags, rows, cols, misfits), NEW tag \in PlainTags
    PROVE  Hears(Plus(s, Plain(tag)), Plus(tags, tag), 0, cols, misfits)
<1>1. PICK reply \in Replies : reply = Plain(tag) /\ reply.tag = tag /\ tag \notin {"D", "T", "C"}
    BY PlainIs
<1> QED
    BY <1>1, SayOne

\* a RowDescription,
LEMMA SayDescription ==
    ASSUME NEW s, NEW tags, NEW rows, NEW cols, NEW misfits,
           Hears(s, tags, rows, cols, misfits), NEW new \in Columns
    PROVE  /\ RowDescription(new) \in Replies
           /\ Hears(Plus(s, RowDescription(new)), Plus(tags, "T"), 0, new, misfits)
<1> DEFINE reply == RowDescription(new)
<1>1. reply \in Replies /\ reply.tag = "T" /\ reply.cols = new
    BY DEF RowDescription, Replies
<1> HIDE DEF reply
<1>2. Hears(Plus(s, reply), Plus(tags, "T"), 0, new, misfits)
    BY <1>1, SayOne
<1> QED
    BY <1>1, <1>2 DEF reply

\* a CommandComplete that names the rows heard,
LEMMA SayDone ==
    ASSUME NEW s, NEW tags, NEW rows, NEW cols, NEW misfits,
           Hears(s, tags, rows, cols, misfits)
    PROVE  /\ CommandComplete(rows) \in Replies
           /\ Hears(Plus(s, CommandComplete(rows)), Plus(tags, "C"), 0, cols, misfits)
<1>1. rows \in Nat
    BY DEF Hears
<1> DEFINE reply == CommandComplete(rows)
<1>2. reply \in Replies /\ reply.tag = "C" /\ reply.n = rows
    BY <1>1 DEF CommandComplete, Replies
<1> HIDE DEF reply
<1>3. Hears(Plus(s, reply), Plus(tags, "C"), 0, cols, misfits)
    BY <1>2, SayOne
<1> QED
    BY <1>2, <1>3 DEF reply

\* and rows, none at all included.
LEMMA SayRows ==
    ASSUME NEW s, NEW tags, NEW rows, NEW cols, NEW misfits,
           Hears(s, tags, rows, cols, misfits), NEW own \in Columns,
           NEW formats \in Lists, NEW n \in Nat
    PROVE  /\ DataRows(own, formats, n) \in Seq(Replies)
           /\ Hears(Joined(s, DataRows(own, formats, n)), tags, rows + n, cols,
                    IF n = 0 \/ own = cols THEN misfits ELSE misfits + 1)
<1>0. s \in Seq(Replies) /\ rows \in Nat /\ <<>> \in Seq(Replies)
    BY DEF Hears
<1>1. CASE n = 0
    <2>1. DataRows(own, formats, n) = <<>> /\ rows + n = rows
        BY <1>0, <1>1 DEF DataRows
    <2>2. Joined(s, <<>>) = s
        BY <1>0, JoinNone
    <2> QED
        BY <1>0, <1>1, <2>1, <2>2
<1>2. CASE n # 0
    <2>1. PICK reply \in Replies : /\ DataRows(own, formats, n) = <<reply>>
                                   /\ reply.tag = "D" /\ reply.cols = own /\ reply.n = n
        <3>1. RowFormats(own, formats) \in RowLists
            BY DEF RowLists
        <3> QED
            BY <1>2, <3>1 DEF DataRows, Replies
    <2>2. Joined(s, <<reply>>) = Plus(s, reply) /\ <<reply>> \in Seq(Replies)
        BY <1>0, PlusIs
    <2>3. Hears(Plus(s, reply), tags, rows + n, cols,
                IF own = cols THEN misfits ELSE misfits + 1)
        BY <2>1, SayOne
    <2> QED
        BY <1>2, <2>1, <2>2, <2>3
<1> QED
    BY <1>1, <1>2
----------------------------------------------------------------------------
\* What may be said to request r, for a portal or statement of text sql.
Proper(r, sql, formats) ==
    {x \in Replies :
        /\ x.tag = "D" =>
              \/ r.tag = "Q" /\ x.formats = RowFormats(x.cols, <<>>)
              \/ r.tag = "E" /\ x.formats = RowFormats(x.cols, formats) /\ x.cols = Binarize(ResolveCols(sql))
        /\ x.tag = "T" /\ r.tag = "D" => x.cols = Binarize(ResolveCols(sql))}

\* A row that is proper.
LEMMA ProperRow ==
    ASSUME NEW r, NEW sql, NEW formats, NEW x, x \in Proper(r, sql, formats), x.tag = "D"
    PROVE  /\ x \in Replies
           /\ \/ r.tag = "Q" /\ x.formats = RowFormats(x.cols, <<>>)
              \/ r.tag = "E" /\ x.formats = RowFormats(x.cols, formats)
<1>1. Proper(r, sql, formats) \subseteq
          {y \in Replies : y.tag = "D" =>
              \/ r.tag = "Q" /\ y.formats = RowFormats(y.cols, <<>>)
              \/ r.tag = "E" /\ y.formats = RowFormats(y.cols, formats)}
    BY Zenon DEF Proper
<1> QED
    BY <1>1, Zenon

\* The columns that the frontend resolves are columns.
LEMMA ColumnsOf ==
    ASSUME NEW sql \in Texts
    PROVE  /\ ResolveCols(sql) \in Columns /\ Binarize(ResolveCols(sql)) \in Columns
           /\ WideColumns \in Columns /\ CrushColumns(sql) \in Columns
<1>1. /\ ResolveCols(sql) \in Columns /\ WideColumns \in Columns
      /\ Binarize(ResolveCols(sql)) \in Columns
    BY DEF ResolveCols, WideColumns, Columns, Binarize
<1> QED
    BY <1>1 DEF CrushColumns

\* normal_response and execute_portal send a natural number of rows.
LEMMA RowsAreNat ==
    ASSUME NEW sql \in Texts, NEW draw \in Band, NEW budget \in Nat
    PROVE  OrdinaryRows(ShapeOf[sql], draw, budget) \in Nat
<1>1. ShapeOf[sql].limit \in Nat \cup {NoLimit} /\ draw \in Nat
    BY SessionAssumption, BandAssumption DEF Texts, Shapes, ShapesOver, Band
<1> QED
    BY <1>1 DEF OrdinaryRows, Unlimited, Least

\* Which single replies are proper,
LEMMA ProperOnes ==
    ASSUME NEW r, NEW sql, NEW formats
    PROVE  /\ \A tag \in PlainTags : Plain(tag) \in Proper(r, sql, formats)
           /\ \A n \in Nat : CommandComplete(n) \in Proper(r, sql, formats)
           /\ r.tag # "D" =>
                  \A c \in Columns : RowDescription(c) \in Proper(r, sql, formats)
           /\ Binarize(ResolveCols(sql)) \in Columns =>
                  RowDescription(Binarize(ResolveCols(sql))) \in Proper(r, sql, formats)
<1>1. \A tag \in PlainTags : Plain(tag) \in Proper(r, sql, formats)
    BY PlainIs DEF Proper
<1>2. \A n \in Nat : CommandComplete(n) \in Proper(r, sql, formats)
    BY DEF Proper, Replies, CommandComplete
<1> DEFINE bin == Binarize(ResolveCols(sql))
<1> HIDE DEF bin, Columns
<1>3. \A c \in Columns : /\ RowDescription(c) \in Replies
                         /\ RowDescription(c).tag = "T" /\ RowDescription(c).cols = c
    BY DEF Replies, RowDescription
<1>4. r.tag # "D" => \A c \in Columns : RowDescription(c) \in Proper(r, sql, formats)
    BY <1>3 DEF Proper
<1>5. bin \in Columns => RowDescription(bin) \in Proper(r, sql, formats)
    BY <1>3 DEF Proper, bin
<1> QED
    BY <1>1, <1>2, <1>4, <1>5 DEF bin

\* and which rows.
LEMMA ProperRows ==
    ASSUME NEW r, NEW sql, NEW formats, NEW cols \in Columns, NEW f \in Lists,
           NEW n \in Nat,
           \/ r.tag = "Q" /\ f = <<>>
           \/ r.tag = "E" /\ f = formats /\ cols = Binarize(ResolveCols(sql))
    PROVE  DataRows(cols, f, n) \in Seq(Proper(r, sql, formats))
<1> DEFINE bin == Binarize(ResolveCols(sql))
           x == [tag |-> "D", cols |-> cols, formats |-> RowFormats(cols, f), n |-> n]
<1>1. x \in Replies /\ x.tag = "D" /\ x.formats = RowFormats(cols, f) /\ x.cols = cols
    <2>1. RowFormats(cols, f) \in RowLists
        BY DEF RowLists
    <2> QED
        BY <2>1 DEF Replies
<1> HIDE DEF x
<1>2. x \in Proper(r, sql, formats)
    BY <1>1 DEF Proper
<1>3. DataRows(cols, f, n) = IF n = 0 THEN <<>> ELSE <<x>>
    BY DEF DataRows, x
<1> QED
    BY <1>2, <1>3

----------------------------------------------------------------------------
(* Whole answers.                                                          *)

\* An answer of three parts or of two, joined at once or one after the other.
LEMMA JoinAnswer ==
    ASSUME NEW s \in Seq(Replies), NEW x \in Replies, NEW rows \in Seq(Replies), NEW y \in Replies
    PROVE  /\ Joined(s, Joined(Joined(<<x>>, rows), <<y>>)) = Plus(Joined(Plus(s, x), rows), y)
           /\ Joined(s, Joined(rows, <<y>>)) = Plus(Joined(s, rows), y)
<1>1. <<x>> \in Seq(Replies) /\ <<y>> \in Seq(Replies)
    BY PlusIs
<1> DEFINE one == <<x>>
           last == <<y>>
           begun == Joined(one, rows)
<1>2. one \in Seq(Replies) /\ last \in Seq(Replies)
    BY <1>1
<1>3. Joined(s, one) = Plus(s, x)
    BY PlusIs
<1>4. \A t \in Seq(Replies) : Joined(t, last) = Plus(t, y)
    BY PlusIs
<1> HIDE DEF one, last
<1>5. begun \in Seq(Replies) /\ Joined(s, begun) \in Seq(Replies)
    <2>1. begun \in Seq(Replies)
        BY <1>2, JoinedIs DEF JoinedAs
    <2> HIDE DEF begun
    <2> QED
        BY <2>1, JoinedIs DEF JoinedAs
<1>6. Joined(s, begun) = Joined(Plus(s, x), rows)
    BY <1>2, <1>3, JoinThree
<1> HIDE DEF begun
<1>7. Joined(s, Joined(begun, last)) = Joined(Joined(s, begun), last)
    BY <1>2, <1>5, JoinThree
<1>8. Joined(s, Joined(begun, last)) = Plus(Joined(Plus(s, x), rows), y)
    BY <1>4, <1>5, <1>6, <1>7
<1>9. Joined(s, rows) \in Seq(Replies)
    BY JoinedIs DEF JoinedAs
<1>10. Joined(s, Joined(rows, last)) = Joined(Joined(s, rows), last)
    BY <1>2, JoinThree
<1>11. Joined(s, Joined(rows, last)) = Plus(Joined(s, rows), y)
    BY <1>4, <1>9, <1>10
<1> QED
    BY <1>8, <1>11 DEF begun, one, last

\* The tags of a statement of each kind.
LEMMA ResultTagsAre ==
    ASSUME NEW sql, NEW tags \in Seq(Tags)
    PROVE  /\ IsSelect(sql) => /\ Joined(tags, ResultTags(sql)) = Plus(Plus(tags, "T"), "C")
                               /\ DoneTags(sql) = <<"C">>
           /\ ~IsSelect(sql) /\ ShapeOf[sql].kind = "empty" =>
                  /\ Joined(tags, ResultTags(sql)) = Plus(tags, "I")
                  /\ DoneTags(sql) = <<"I">>
           /\ ~IsSelect(sql) /\ ShapeOf[sql].kind # "empty" =>
                  /\ Joined(tags, ResultTags(sql)) = Plus(tags, "C")
                  /\ DoneTags(sql) = <<"C">>
<1>1. "T" \in Tags /\ "C" \in Tags /\ "I" \in Tags
    BY DEF Tags, PlainTags
<1>2. IsSelect(sql) => ShapeOf[sql].kind # "empty"
    BY DEF IsSelect
<1>3. /\ Joined(tags, <<"T">> \o <<"C">>) = Plus(Plus(tags, "T"), "C")
      /\ Joined(tags, <<"I">>) = Plus(tags, "I") /\ Joined(tags, <<"C">>) = Plus(tags, "C")
    BY <1>1, PlusTags
<1> QED
    BY <1>2, <1>3, Zenon DEF ResultTags, DoneTags

\* A statement that is not crushed: normal_response says what is expected of it,
\* counts its rows, describes them first, and sends them as text.
LEMMA NormalAnswer ==
    ASSUME NEW s, NEW tags \in Seq(Tags), NEW cols, Hears(s, tags, 0, cols, 0),
           NEW sql \in Texts, NEW draw \in Band
    PROVE  LET t == NormalReplies(sql, draw)
           IN  /\ \A r, q, f : r.tag = "Q" => t \in Seq(Proper(r, q, f))
               /\ Hears(Joined(s, t), Joined(tags, ResultTags(sql)), 0,
                        IF IsSelect(sql) THEN ResolveCols(sql) ELSE cols, 0)
<1> DEFINE n == OrdinaryRows(ShapeOf[sql], draw, 0)
           own == ResolveCols(sql)
           rows == DataRows(own, <<>>, n)
           t == NormalReplies(sql, draw)
<1>0. s \in Seq(Replies) /\ n \in Nat /\ own \in Columns /\ <<>> \in Lists
    <2>1. 0 \in Nat
        OBVIOUS
    <2>2. n \in Nat
        BY <2>1, RowsAreNat
    <2> QED
        BY <2>2, ColumnsOf DEF Hears, Lists
<1>1. CASE IsSelect(sql)
    <2>1. t = Joined(Joined(<<RowDescription(own)>>, rows), <<CommandComplete(n)>>)
        BY <1>1 DEF NormalReplies, Joined
    <2> HIDE DEF n, own, t
    <2>2. /\ RowDescription(own) \in Replies
          /\ Hears(Plus(s, RowDescription(own)), Plus(tags, "T"), 0, own, 0)
        BY <1>0, SayDescription
    <2>3. /\ rows \in Seq(Replies)
          /\ Hears(Joined(Plus(s, RowDescription(own)), rows), Plus(tags, "T"), n, own, 0)
        <3>1. 0 + n = n
            BY <1>0
        <3>2. /\ rows \in Seq(Replies)
              /\ Hears(Joined(Plus(s, RowDescription(own)), rows), Plus(tags, "T"), 0 + n, own,
                       IF n = 0 \/ own = own THEN 0 ELSE 0 + 1)
            BY <1>0, <2>2, SayRows
        <3> QED
            BY <3>1, <3>2
    <2> HIDE DEF rows
    <2>4. /\ CommandComplete(n) \in Replies
          /\ Hears(Plus(Joined(Plus(s, RowDescription(own)), rows), CommandComplete(n)),
                   Plus(Plus(tags, "T"), "C"), 0, own, 0)
        BY <2>3, SayDone
    <2>5. Joined(s, t) = Plus(Joined(Plus(s, RowDescription(own)), rows), CommandComplete(n))
        BY <1>0, <2>1, <2>2, <2>3, <2>4, JoinAnswer
    <2>6. ASSUME NEW r, NEW q, NEW f, r.tag = "Q"
          PROVE  t \in Seq(Proper(r, q, f))
        <3>1. rows \in Seq(Proper(r, q, f))
            BY <1>0, <2>6, ProperRows DEF rows
        <3>2. RowDescription(own) \in Proper(r, q, f) /\ CommandComplete(n) \in Proper(r, q, f)
            BY <1>0, <2>6, ProperOnes
        <3> DEFINE P == Proper(r, q, f)
        <3>3. <<RowDescription(own)>> \in Seq(P) /\ <<CommandComplete(n)>> \in Seq(P)
            BY <3>2
        <3> HIDE DEF P
        <3>4. Joined(<<RowDescription(own)>>, rows) \in Seq(P)
            BY <3>1, <3>3 DEF Joined, P
        <3>5. Joined(Joined(<<RowDescription(own)>>, rows), <<CommandComplete(n)>>) \in Seq(P)
            BY <3>3, <3>4 DEF Joined
        <3> QED
            BY <2>1, <3>5 DEF P
    <2>7. Joined(tags, ResultTags(sql)) = Plus(Plus(tags, "T"), "C")
        BY <1>1, ResultTagsAre
    <2> QED
        BY <1>1, <2>4, <2>5, <2>6, <2>7 DEF t, own
<1>2. CASE ~IsSelect(sql) /\ ShapeOf[sql].kind = "empty"
    <2>1. t = <<Plain("I")>>
        BY <1>2 DEF NormalReplies
    <2> HIDE DEF t
    <2>2. "I" \in PlainTags
        BY DEF PlainTags
    <2>3. Joined(s, t) = Plus(s, Plain("I"))
        BY <1>0, <2>1, <2>2, PlainIs, PlusIs
    <2>4. Hears(Plus(s, Plain("I")), Plus(tags, "I"), 0, cols, 0)
        BY <2>2, SayPlain
    <2>5. ASSUME NEW r, NEW q, NEW f
          PROVE  t \in Seq(Proper(r, q, f))
        <3>1. Plain("I") \in Proper(r, q, f)
            BY <2>2, ProperOnes
        <3> QED
            BY <2>1, <3>1
    <2>6. Joined(tags, ResultTags(sql)) = Plus(tags, "I")
        BY <1>2, ResultTagsAre
    <2> QED
        BY <1>2, <2>3, <2>4, <2>5, <2>6 DEF t
<1>3. CASE ~IsSelect(sql) /\ ShapeOf[sql].kind # "empty"
    <2>1. t = <<CommandComplete(0)>>
        BY <1>3 DEF NormalReplies
    <2> HIDE DEF t
    <2>2. /\ CommandComplete(0) \in Replies
          /\ Hears(Plus(s, CommandComplete(0)), Plus(tags, "C"), 0, cols, 0)
        BY SayDone
    <2>3. Joined(s, t) = Plus(s, CommandComplete(0))
        BY <1>0, <2>1, <2>2, PlusIs
    <2>5. ASSUME NEW r, NEW q, NEW f
          PROVE  t \in Seq(Proper(r, q, f))
        <3>0. 0 \in Nat
            OBVIOUS
        <3>1. CommandComplete(0) \in Proper(r, q, f)
            BY <3>0, ProperOnes
        <3> QED
            BY <2>1, <3>1
    <2>6. Joined(tags, ResultTags(sql)) = Plus(tags, "C")
        BY <1>3, ResultTagsAre
    <2> QED
        BY <1>3, <2>2, <2>3, <2>5, <2>6 DEF t
<1> QED
    BY <1>1, <1>2, <1>3

\* The whole answer to an Execute that is not crushed.
LEMMA ExecuteAnswer ==
    ASSUME NEW p, p.sql \in Texts, p.formats \in Lists, NEW budget \in Nat,
           NEW draw \in Band, NEW r, r.tag = "E"
    PROVE  LET t == ExecuteReplies(p, budget, draw)
           IN  /\ t \in Seq(Proper(r, p.sql, p.formats))
               /\ \E cols, misfits : Hears(t, DoneTags(p.sql), 0, cols, misfits)
<1> DEFINE n == OrdinaryRows(ShapeOf[p.sql], draw, budget)
           own == Binarize(ResolveCols(p.sql))
           rows == DataRows(own, p.formats, n)
           t == ExecuteReplies(p, budget, draw)
           P == Proper(r, p.sql, p.formats)
           cols == Unheard.cols
           none == <<>>
<1>0. n \in Nat /\ own \in Columns /\ none \in Seq(Replies) /\ none \in Seq(Tags)
    BY RowsAreNat, ColumnsOf
<1>1. Hears(none, none, 0, cols, 0)
    BY HearsNothing
<1>2. "C" \in Tags /\ "I" \in Tags /\ "I" \in PlainTags /\ 0 \in Nat
    BY DEF Tags, PlainTags
<1>3. Plus(none, "C") = <<"C">> /\ Plus(none, "I") = <<"I">>
    BY DEF Plus
<1> HIDE DEF n, cols
<1>4. CASE IsSelect(p.sql)
    <2>1. t = Joined(rows, <<CommandComplete(n)>>)
        BY <1>4 DEF ExecuteReplies, Joined, n
    <2>2. rows \in Seq(P)
        BY <1>0, ProperRows
    <2> HIDE DEF own, t, none
    <2>3. /\ rows \in Seq(Replies)
          /\ Hears(Joined(none, rows), none, 0 + n, cols, IF n = 0 \/ own = cols THEN 0 ELSE 0 + 1)
        BY <1>0, <1>1, SayRows
    <2> HIDE DEF rows
    <2> DEFINE misfits == IF n = 0 \/ own = cols THEN 0 ELSE 0 + 1
    <2>4. 0 + n = n
        BY <1>0
    <2> HIDE DEF misfits
    <2>5. Hears(Joined(none, rows), none, n, cols, misfits)
        BY <2>3, <2>4 DEF misfits
    <2>6. /\ CommandComplete(n) \in Replies
          /\ Hears(Plus(Joined(none, rows), CommandComplete(n)), Plus(none, "C"), 0, cols, misfits)
        BY <2>5, SayDone
    <2>7. t = Plus(Joined(none, rows), CommandComplete(n))
        <3>1. Joined(none, t) = Plus(Joined(none, rows), CommandComplete(n))
            BY <1>0, <2>1, <2>3, <2>6, JoinAnswer
        <3>2. <<CommandComplete(n)>> \in Seq(Replies)
            BY <2>6, PlusIs, <1>0
        <3>3. t \in Seq(Replies)
            BY <2>1, <2>3, <3>2 DEF Joined
        <3>4. Joined(none, t) = t
            BY <3>3, JoinNone DEF none
        <3> QED
            BY <3>1, <3>4
    <2>8. CommandComplete(n) \in P
        BY <1>0, ProperOnes
    <2> HIDE DEF P
    <2>9. t \in Seq(P)
        BY <2>1, <2>2, <2>8 DEF Joined
    <2>10. DoneTags(p.sql) = Plus(none, "C")
        BY <1>0, <1>3, <1>4, ResultTagsAre
    <2>11. Hears(t, DoneTags(p.sql), 0, cols, misfits)
        BY <2>6, <2>7, <2>10
    <2> QED
        BY <2>9, <2>11 DEF t, P
<1>5. CASE ~IsSelect(p.sql) /\ ShapeOf[p.sql].kind = "empty"
    <2>1. t = <<Plain("I")>>
        BY <1>5 DEF ExecuteReplies
    <2>2. Hears(Plus(none, Plain("I")), Plus(none, "I"), 0, cols, 0)
        BY <1>1, <1>2, SayPlain
    <2>3. t = Plus(none, Plain("I"))
        BY <2>1 DEF Plus
    <2>4. t \in Seq(P)
        <3>1. Plain("I") \in P
            BY <1>2, ProperOnes
        <3> QED
            BY <2>1, <3>1
    <2>5. DoneTags(p.sql) = <<"I">>
        BY <1>0, <1>5, ResultTagsAre
    <2>6. Hears(t, DoneTags(p.sql), 0, cols, 0)
        BY <1>3, <2>2, <2>3, <2>5
    <2> QED
        BY <2>4, <2>6
<1>6. CASE ~IsSelect(p.sql) /\ ShapeOf[p.sql].kind # "empty"
    <2>1. t = <<CommandComplete(0)>>
        BY <1>6 DEF ExecuteReplies
    <2>2. Hears(Plus(none, CommandComplete(0)), Plus(none, "C"), 0, cols, 0)
        BY <1>1, SayDone
    <2>3. t = Plus(none, CommandComplete(0))
        BY <2>1 DEF Plus
    <2>4. t \in Seq(P)
        <3>1. CommandComplete(0) \in P
            BY <1>2, ProperOnes
        <3> QED
            BY <2>1, <3>1
    <2>5. DoneTags(p.sql) = <<"C">>
        BY <1>0, <1>6, ResultTagsAre
    <2>6. Hears(t, DoneTags(p.sql), 0, cols, 0)
        BY <1>3, <2>2, <2>3, <2>5
    <2> QED
        BY <2>4, <2>6
<1> QED
    BY <1>4, <1>5, <1>6

----------------------------------------------------------------------------
(* What the log says of a name.                                            *)

\* The fields of the requests.
LEMMA RequestKinds ==
    ASSUME NEW r \in Requests
    PROVE  \/ r.tag = "Q" /\ r.stmts \in Queries
           \/ r.tag = "P" /\ r.name \in Names /\ r.sql \in Sqls
           \/ r.tag = "B" /\ r.portal \in Names /\ r.name \in Names /\ r.formats \in Formats
           \/ r.tag = "D" /\ r.kind \in {"S", "P"} /\ r.name \in Names
           \/ r.tag = "C" /\ r.kind \in {"S", "P"} /\ r.name \in Names
           \/ r.tag = "E" /\ r.portal \in Names /\ r.budget \in Budgets
           \/ r.tag = "S"
           \/ r.tag = "H"
BY DEF Requests

\* Latest is the greatest element, of any finite set of positions.
LEMMA LatestIs ==
    ASSUME NEW n \in Nat, NEW T, T \subseteq 1 .. n
    PROVE  /\ T = {} => Latest(T) = 0
           /\ T # {} => Latest(T) \in T /\ \A k \in T : k <= Latest(T)
<1>1. CASE T = {}
    BY <1>1 DEF Latest
<1>2. CASE T # {}
    <2>1. T \in SUBSET (0 .. n)
        OBVIOUS
    <2>2. \E x \in T : \A y \in T : y <= x
        BY <1>2, <2>1, HasGreatest
    <2> QED
        BY <1>2, <2>2 DEF Latest
<1> QED
    BY <1>1, <1>2

\* The greatest element is the latest.
LEMMA LatestUnique ==
    ASSUME NEW n \in Nat, NEW T, T \subseteq 1 .. n, NEW j \in T, \A k \in T : k <= j
    PROVE  Latest(T) = j
<1>1. Latest(T) \in T /\ j <= Latest(T) /\ Latest(T) <= j
    BY LatestIs
<1>2. Latest(T) \in 1 .. n /\ j \in 1 .. n
    BY <1>1
<1> QED
    BY <1>1, <1>2

\* The requests before i that define or close a name.
Touches(name, i) == {k \in 1 .. i - 1 : OfStatement(log[k], name)}
Moves(name, i) == {k \in 1 .. i - 1 : OfPortal(log[k], name)}

\* One request more touches one name at most.
LEMMA TouchesNext ==
    ASSUME NEW name, NEW i \in Nat \ {0}
    PROVE  /\ Touches(name, i + 1) =
                 IF OfStatement(log[i], name) THEN Touches(name, i) \cup {i} ELSE Touches(name, i)
           /\ Moves(name, i + 1) =
                 IF OfPortal(log[i], name) THEN Moves(name, i) \cup {i} ELSE Moves(name, i)
<1> DEFINE P == {k \in 1 .. i : OfStatement(log[k], name)}
<1>1. 1 .. (i + 1) - 1 = (1 .. i - 1) \cup {i} /\ i \notin 1 .. i - 1
    OBVIOUS
<1> QED
    BY <1>1 DEF Touches, Moves

\* The latest request that touched a name, one request later.
LEMMA LatestNext ==
    ASSUME NEW name, NEW i \in Nat \ {0}
    PROVE  /\ Latest(Touches(name, i + 1)) =
                  IF OfStatement(log[i], name) THEN i ELSE Latest(Touches(name, i))
           /\ Latest(Moves(name, i + 1)) =
                  IF OfPortal(log[i], name) THEN i ELSE Latest(Moves(name, i))
<1>1. /\ Touches(name, i) \subseteq 1 .. i - 1 /\ Moves(name, i) \subseteq 1 .. i - 1
      /\ i - 1 \in Nat
    BY DEF Touches, Moves
<1>2. ASSUME NEW T, T \subseteq 1 .. i - 1
      PROVE  Latest(T \cup {i}) = i
    <2>1. T \cup {i} \subseteq 1 .. i /\ i \in T \cup {i} /\ \A k \in T \cup {i} : k <= i
        BY <1>2
    <2> QED
        BY <2>1, LatestUnique
<1> HIDE DEF Touches, Moves, Latest, OfStatement, OfPortal
<1> QED
    BY <1>1, <1>2, TouchesNext

\* What a statement name stands for after request i: Parse sets it, Close clears
\* it, nothing else does.
LEMMA StatementNext ==
    ASSUME NEW name, NEW i \in Nat \ {0}
    PROVE  SqlOfStatement(name, i + 1) =
               IF OfStatement(log[i], name)
               THEN IF log[i].tag = "C" THEN EmptySql ELSE log[i].sql
               ELSE SqlOfStatement(name, i)
<1> DEFINE Read(j) == IF j = 0 \/ log[j].tag = "C" THEN EmptySql ELSE log[j].sql
<1>1. /\ SqlOfStatement(name, i + 1) = Read(Latest(Touches(name, i + 1)))
      /\ SqlOfStatement(name, i) = Read(Latest(Touches(name, i)))
    BY DEF SqlOfStatement, Touches
<1>2. Read(i) = IF log[i].tag = "C" THEN EmptySql ELSE log[i].sql
    OBVIOUS
<1> HIDE DEF Read
<1> QED
    BY <1>1, <1>2, LatestNext

\* The Bind that a portal stems from after request i,
LEMMA BindNext ==
    ASSUME NEW name, NEW i \in Nat \ {0}
    PROVE  BindOfPortal(name, i + 1) =
               IF OfPortal(log[i], name)
               THEN IF log[i].tag = "C" THEN 0 ELSE i
               ELSE BindOfPortal(name, i)
<1> DEFINE Read(j) == IF j = 0 \/ log[j].tag = "C" THEN 0 ELSE j
<1>1. /\ BindOfPortal(name, i + 1) = Read(Latest(Moves(name, i + 1)))
      /\ BindOfPortal(name, i) = Read(Latest(Moves(name, i)))
    BY DEF BindOfPortal, Moves
<1>2. Read(i) = IF log[i].tag = "C" THEN 0 ELSE i
    OBVIOUS
<1> HIDE DEF Read
<1> QED
    BY <1>1, <1>2, LatestNext

\* and the text and formats that it stands for: the text its statement had then.
LEMMA PortalNext ==
    ASSUME NEW name, NEW i \in Nat \ {0}, i <= Len(log), log \in Seq(Requests)
    PROVE  /\ SqlOfPortal(name, i + 1) =
                  IF OfPortal(log[i], name)
                  THEN IF log[i].tag = "C" THEN EmptySql ELSE SqlOfStatement(log[i].name, i)
                  ELSE SqlOfPortal(name, i)
           /\ FormatsOfPortal(name, i + 1) =
                  IF OfPortal(log[i], name)
                  THEN IF log[i].tag = "C" THEN <<>> ELSE log[i].formats
                  ELSE FormatsOfPortal(name, i)
<1> QED
    BY BindNext DEF SqlOfPortal, FormatsOfPortal

\* The values of these functions.
LEMMA NamesStandFor ==
    ASSUME NEW name, NEW i \in Nat, log \in Seq(Requests), i <= Len(log) + 1
    PROVE  /\ SqlOfStatement(name, i) \in Texts
           /\ SqlOfPortal(name, i) \in Texts
           /\ FormatsOfPortal(name, i) \in Lists
           /\ BindOfPortal(name, i) \in 0 .. i - 1 \/ BindOfPortal(name, i) = 0
           /\ BindOfPortal(name, i) # 0 =>
                  LET j == BindOfPortal(name, i)
                  IN  /\ j \in 1 .. i - 1 /\ log[j].tag = "B" /\ log[j].portal = name
                      /\ \A k \in j + 1 .. i - 1 : ~OfPortal(log[k], name)
<1>1. ASSUME NEW any, NEW l \in Nat, l <= Len(log) + 1
      PROVE  SqlOfStatement(any, l) \in Texts
    <2> DEFINE j == Latest(Touches(any, l))
    <2>1. SqlOfStatement(any, l) = IF j = 0 \/ log[j].tag = "C" THEN EmptySql ELSE log[j].sql
        BY DEF SqlOfStatement, Touches
    <2>2. j = 0 \/ j \in Touches(any, l)
        <3>1. Touches(any, l) \subseteq 1 .. Len(log) /\ Len(log) \in Nat
            BY <1>1 DEF Touches
        <3> HIDE DEF Touches
        <3> QED
            BY <3>1, LatestIs
    <2> HIDE DEF j
    <2>3. CASE j = 0 \/ log[j].tag = "C"
        BY <2>1, <2>3 DEF Texts
    <2>4. CASE j # 0 /\ log[j].tag # "C"
        <3>1. j \in 1 .. Len(log) /\ log[j].tag = "P"
            BY <1>1, <2>2, <2>4 DEF Touches, OfStatement
        <3>2. log[j] \in Requests
            BY <3>1
        <3>3. log[j].sql \in Sqls
            BY <3>1, <3>2, RequestKinds
        <3> QED
            BY <2>1, <2>4, <3>3 DEF Texts
    <2> QED
        BY <2>3, <2>4
<1> DEFINE m == Latest(Moves(name, i))
           j == BindOfPortal(name, i)
<1>2. j = IF m = 0 \/ log[m].tag = "C" THEN 0 ELSE m
    BY DEF BindOfPortal, Moves
<1>3. m = 0 \/ (m \in Moves(name, i) /\ \A k \in Moves(name, i) : k <= m)
    <2>1. Moves(name, i) \subseteq 1 .. Len(log) /\ Len(log) \in Nat
        BY DEF Moves
    <2> HIDE DEF Moves
    <2> QED
        BY <2>1, LatestIs
<1>4. /\ SqlOfPortal(name, i) = IF j = 0 THEN EmptySql ELSE SqlOfStatement(log[j].name, j)
      /\ FormatsOfPortal(name, i) = IF j = 0 THEN <<>> ELSE log[j].formats
    BY DEF SqlOfPortal, FormatsOfPortal
<1> HIDE DEF m, j
<1>0. SqlOfStatement(name, i) \in Texts
    BY <1>1
<1>5. CASE j = 0
    <2>1. EmptySql \in Texts
        BY DEF Texts
    <2> QED
        BY <1>0, <1>4, <1>5, <2>1 DEF j, Lists
<1>6. CASE j # 0
    <2>1. j = m /\ log[j].tag # "C" /\ j \in Moves(name, i)
        BY <1>2, <1>3, <1>6
    <2>2. j \in 1 .. i - 1 /\ OfPortal(log[j], name) /\ j \in 1 .. Len(log)
        BY <2>1 DEF Moves
    <2>3. log[j].tag = "B" /\ log[j].portal = name
        BY <2>1, <2>2 DEF OfPortal
    <2>4. log[j].formats \in Formats
        <3>1. log[j] \in Requests
            BY <2>2
        <3> QED
            BY <2>3, <3>1, RequestKinds
    <2>5. SqlOfStatement(log[j].name, j) \in Texts
        BY <1>1, <2>2
    <2>6. ASSUME NEW k \in j + 1 .. i - 1
          PROVE  ~OfPortal(log[k], name)
        <3>1. SUFFICES ASSUME OfPortal(log[k], name) PROVE FALSE
            OBVIOUS
        <3>2. k \in Moves(name, i)
            BY <2>2, <3>1 DEF Moves
        <3>3. k <= j
            BY <1>3, <1>6, <2>1, <3>2, <1>2
        <3> QED
            BY <2>2, <3>3
    <2> QED
        BY <1>0, <1>4, <1>6, <2>2, <2>3, <2>4, <2>5, <2>6 DEF j, Lists
<1> QED
    BY <1>5, <1>6

\* A portal that is not touched between two requests stands for the same.
LEMMA BoundBefore ==
    ASSUME NEW name, NEW i \in Nat, log \in Seq(Requests), i <= Len(log) + 1,
           NEW j \in 1 .. i - 1, BindOfPortal(name, i) \in 1 .. j - 1
    PROVE  /\ BindOfPortal(name, j) = BindOfPortal(name, i)
           /\ SqlOfPortal(name, j) = SqlOfPortal(name, i)
<1> DEFINE b == BindOfPortal(name, i)
<1>1. /\ b \in 1 .. i - 1 /\ log[b].tag = "B" /\ log[b].portal = name
      /\ \A k \in b + 1 .. i - 1 : ~OfPortal(log[k], name)
    BY NamesStandFor
<1> HIDE DEF b
<1>2. b \in 1 .. j - 1
    BY DEF b
<1>3. b \in Moves(name, j) /\ \A k \in Moves(name, j) : k <= b
    BY <1>1, <1>2 DEF Moves, OfPortal
<1>4. Moves(name, j) \subseteq 1 .. j - 1 /\ j - 1 \in Nat
    BY DEF Moves
<1>5. Latest(Moves(name, j)) = b
    <2> HIDE DEF Moves
    <2> QED
        BY <1>3, <1>4, LatestUnique
<1>6. BindOfPortal(name, j) = b
    BY <1>1, <1>2, <1>5 DEF BindOfPortal, Moves
<1> QED
    BY <1>6 DEF b, SqlOfPortal

----------------------------------------------------------------------------
(* The invariant.                                                          *)

\* The text that request i is about, and the formats it asks for.
Asked(i) ==
    IF log[i].tag = "E" THEN SqlOfPortal(log[i].portal, i)
    ELSE IF log[i].tag = "D" THEN DescribedSql(i) ELSE EmptySql

AskedFormats(i) == IF log[i].tag = "E" THEN FormatsOfPortal(log[i].portal, i) ELSE <<>>

\* What may be said to request i.
ProperTo(i) == Proper(log[i], Asked(i), AskedFormats(i))

\* The replies s are proper ones, and what they say is expected or haunted.
Fits(r, proper, expected, haunted, s) ==
    /\ s \in Seq(proper)
    /\ \E tags, rows, cols, misfits :
          /\ Hears(s, tags, rows, cols, misfits)
          /\ r.tag = "Q" => misfits = 0
          /\ \/ tags = expected
             \/ r.tag \in {"Q", "E"} /\ "error" \in Ghosts /\ s = haunted

\* The replies s are a whole answer to request i.
Answer(i, s) == Fits(log[i], ProperTo(i), ExpectedTags(i), HauntedReplies(i), s)

Current == Len(ends) + 1

\* The replies to the current request, written or not.
Pending == Joined(Slice(wire, Begin(Current), Len(wire)), out)

\* What has been written, asked and answered.
Written ==
    /\ wire \in Seq(Replies) /\ out \in Seq(Replies)
    /\ log \in Seq(Requests) /\ ends \in Seq(Nat) /\ Len(ends) <= Len(log)
    /\ \A i \in 1 .. Len(ends) : Begin(i) <= ends[i] /\ ends[i] <= Len(wire)

\* Every finished answer is a whole one.
Answered == \A i \in 1 .. Len(ends) : Answer(i, Segment(i))

\* The maps of the server are what the client takes them to be.
Known ==
    \A name \in Names :
        /\ Get(statements, name, EmptySql) = SqlOfStatement(name, Current)
        /\ Get(portals, name, NoPortal) =
              [sql |-> SqlOfPortal(name, Current), formats |-> FormatsOfPortal(name, Current)]

\* Nothing has been said to the current request.
Idle == Pending = <<>> /\ out = <<>>

\* A simple query: what was done of it has been answered.
Split(stmts, done, rest) ==
    done \in Seq(Texts) /\ rest \in Seq(Texts) /\ stmts = done \o rest

Acting(r, rest, pending) ==
    /\ pending \in Seq(Proper(r, EmptySql, <<>>))
    /\ \E done, cols : Split(r.stmts, done, rest) /\ Hears(pending, AnswerTags(done), 0, cols, 0)

\* The same with a statement that is crushed, its tail missing.
Crushing(r, rest, pending, cols, sent) ==
    /\ pending \in Seq(Proper(r, EmptySql, <<>>))
    /\ \E done, sql :
          /\ done \in Seq(Texts) /\ sql \in Texts /\ IsSelect(sql)
          /\ Split(r.stmts, Plus(done, sql), rest)
          /\ Hears(pending, Plus(AnswerTags(done), "T"), sent, cols, 0)

\* A portal that is crushed.
Draining(proper, pending, sent) ==
    /\ pending \in Seq(proper)
    /\ \E cols, misfits : Hears(pending, <<>>, sent, cols, misfits)

\* The stream of a portal has the columns and the formats that were asked for.
StreamsPortal ==
    /\ IsSelect(Asked(Current))
    /\ stream.formats = AskedFormats(Current)
    /\ stream.cols = Binarize(ResolveCols(Asked(Current)))
    /\ Draining(ProperTo(Current), Pending, stream.sent)

\* The stream of a statement is text.
StreamsQuery ==
    stream.formats = <<>> /\ Crushing(request, todo, Pending, stream.cols, stream.sent)

\* The crush streams under way.
Streams == [cols : Columns, formats : Lists, sent : 0 .. MaxRows]

\* The current request is being served.
Serves == Len(log) = Current /\ request = log[Current]

\* How far the session has come with it.
Doing ==
    \/ pc = "closed"
    \/ pc = "ready" /\ Len(log) = Len(ends) /\ Idle
    \/ /\ pc = "haunt" /\ Serves /\ Idle
       /\ \/ request.tag = "Q" /\ todo = request.stmts
          \/ request.tag = "E"
    \/ /\ pc = "act" /\ Serves
       /\ \/ request.tag = "Q" /\ Acting(request, todo, Pending)
          \/ request.tag # "Q" /\ Idle
    \/ /\ pc = "stream" /\ Serves
       /\ out = <<>> /\ stream \in Streams
       /\ \/ request.tag = "Q" /\ StreamsQuery
          \/ request.tag = "E" /\ StreamsPortal

PgInv == Written /\ Answered /\ Known /\ Doing

----------------------------------------------------------------------------
(* Requests that come later change nothing.                                *)

\* What a name stands for before request i does not depend on later ones,
LEMMA NamesKept ==
    ASSUME NEW name, NEW i \in Nat, \A k \in 1 .. i - 1 : log'[k] = log[k],
           log \in Seq(Requests), i <= Len(log) + 1
    PROVE  /\ SqlOfStatement(name, i)' = SqlOfStatement(name, i)
           /\ BindOfPortal(name, i)' = BindOfPortal(name, i)
           /\ SqlOfPortal(name, i)' = SqlOfPortal(name, i)
           /\ FormatsOfPortal(name, i)' = FormatsOfPortal(name, i)
<1>1. ASSUME NEW any, NEW l \in Nat, l <= i
      PROVE  SqlOfStatement(any, l)' = SqlOfStatement(any, l)
    <2> DEFINE T == Touches(any, l)
               j == Latest(T)
    <2>1. {k \in 1 .. l - 1 : OfStatement(log'[k], any)} = T
        BY <1>1 DEF Touches
    <2>2. SqlOfStatement(any, l)' = IF j = 0 \/ log'[j].tag = "C" THEN EmptySql ELSE log'[j].sql
        BY <2>1 DEF SqlOfStatement
    <2>3. SqlOfStatement(any, l) = IF j = 0 \/ log[j].tag = "C" THEN EmptySql ELSE log[j].sql
        BY DEF SqlOfStatement, Touches
    <2>4. j = 0 \/ j \in 1 .. i - 1
        <3>1. T \subseteq 1 .. l - 1 /\ (T # {} => l - 1 \in Nat)
            BY DEF Touches
        <3>2. T \subseteq 1 .. l /\ T \subseteq 1 .. i - 1
            BY <1>1, <3>1
        <3> HIDE DEF T
        <3>3. j = 0 \/ j \in T
            BY <3>2, LatestIs
        <3> QED
            BY <3>2, <3>3
    <2> HIDE DEF j
    <2>5. j = 0 \/ log'[j] = log[j]
        BY <2>4
    <2> QED
        BY <2>2, <2>3, <2>5
<1> DEFINE T == Moves(name, i)
           m == Latest(T)
           j == IF m = 0 \/ log[m].tag = "C" THEN 0 ELSE m
<1>2. {k \in 1 .. i - 1 : OfPortal(log'[k], name)} = T
    BY DEF Moves
<1>3. BindOfPortal(name, i)' = IF m = 0 \/ log'[m].tag = "C" THEN 0 ELSE m
    BY <1>2 DEF BindOfPortal
<1>4. BindOfPortal(name, i) = j
    BY DEF BindOfPortal, Moves
<1>5. m = 0 \/ m \in 1 .. i - 1
    <2>1. T \subseteq 1 .. i - 1 /\ T \subseteq 1 .. i
        BY DEF Moves
    <2> HIDE DEF T
    <2>2. m = 0 \/ m \in T
        BY <2>1, LatestIs
    <2> QED
        BY <2>1, <2>2
<1> HIDE DEF m
<1>6. BindOfPortal(name, i)' = j
    BY <1>3, <1>5
<1>7. j = 0 \/ (j \in 1 .. i - 1 /\ log'[j] = log[j])
    BY <1>5
<1>8. PICK bound : bound = j
    OBVIOUS
<1> HIDE DEF j
<1>9. BindOfPortal(name, i)' = bound /\ BindOfPortal(name, i) = bound
    BY <1>4, <1>6, <1>8
<1>10. bound = 0 \/ (bound \in 1 .. i - 1 /\ log'[bound] = log[bound])
    BY <1>7, <1>8
<1>11. /\ SqlOfPortal(name, i)' =
              IF bound = 0 THEN EmptySql ELSE SqlOfStatement(log[bound].name, bound)'
       /\ FormatsOfPortal(name, i)' = IF bound = 0 THEN <<>> ELSE log'[bound].formats
    BY <1>9 DEF SqlOfPortal, FormatsOfPortal
<1>12. /\ SqlOfPortal(name, i) =
              IF bound = 0 THEN EmptySql ELSE SqlOfStatement(log[bound].name, bound)
       /\ FormatsOfPortal(name, i) = IF bound = 0 THEN <<>> ELSE log[bound].formats
    BY <1>9 DEF SqlOfPortal, FormatsOfPortal
<1>13. ASSUME bound # 0
       PROVE  SqlOfStatement(log[bound].name, bound)' = SqlOfStatement(log[bound].name, bound)
    <2>1. bound \in Nat /\ bound <= i /\ log'[bound] = log[bound]
        BY <1>10, <1>13
    <2>2. PICK any : any = log[bound].name
        OBVIOUS
    <2>3. SqlOfStatement(any, bound)' = SqlOfStatement(any, bound)
        BY <1>1, <2>1
    <2>4. SqlOfStatement(log[bound].name, bound)' = SqlOfStatement(any, bound)'
        BY <2>1, <2>2 DEF SqlOfStatement
    <2> QED
        BY <2>2, <2>3, <2>4
<1>14. SqlOfStatement(name, i)' = SqlOfStatement(name, i)
    BY <1>1
<1> QED
    BY <1>9, <1>10, <1>11, <1>12, <1>13, <1>14

\* nor does what request i is owed.
LEMMA RequestKept ==
    ASSUME NEW i \in Nat \ {0}, \A k \in 1 .. i : log'[k] = log[k],
           log \in Seq(Requests), i <= Len(log)
    PROVE  /\ log'[i] = log[i] /\ Asked(i)' = Asked(i) /\ AskedFormats(i)' = AskedFormats(i)
           /\ ProperTo(i)' = ProperTo(i) /\ HauntedReplies(i)' = HauntedReplies(i)
           /\ ExpectedTags(i)' = ExpectedTags(i)
<1>1. \A k \in 1 .. i - 1 : log'[k] = log[k]
    OBVIOUS
<1>2. log'[i] = log[i] /\ i \in Nat /\ i <= Len(log) + 1
    OBVIOUS
<1>3. PICK r : r = log[i]
    OBVIOUS
<1>4. ASSUME NEW name
      PROVE  /\ SqlOfStatement(name, i)' = SqlOfStatement(name, i)
             /\ SqlOfPortal(name, i)' = SqlOfPortal(name, i)
             /\ FormatsOfPortal(name, i)' = FormatsOfPortal(name, i)
    BY <1>1, <1>2, NamesKept
<1>5. PICK name, portal : name = r.name /\ portal = r.portal
    OBVIOUS
<1>6. /\ SqlOfStatement(name, i)' = SqlOfStatement(name, i)
      /\ SqlOfPortal(name, i)' = SqlOfPortal(name, i)
      /\ SqlOfPortal(portal, i)' = SqlOfPortal(portal, i)
      /\ FormatsOfPortal(portal, i)' = FormatsOfPortal(portal, i)
    BY <1>4
<1>7. /\ SqlOfStatement(log[i].name, i)' = SqlOfStatement(log[i].name, i)
      /\ SqlOfPortal(log[i].name, i)' = SqlOfPortal(log[i].name, i)
      /\ SqlOfPortal(log[i].portal, i)' = SqlOfPortal(log[i].portal, i)
      /\ FormatsOfPortal(log[i].portal, i)' = FormatsOfPortal(log[i].portal, i)
    <2>1. /\ log'[i].name = name /\ log[i].name = name
          /\ log'[i].portal = portal /\ log[i].portal = portal
        BY <1>2, <1>3, <1>5
    <2>2. /\ SqlOfStatement(log[i].name, i)' = SqlOfStatement(name, i)'
          /\ SqlOfPortal(log[i].name, i)' = SqlOfPortal(name, i)'
        BY <2>1 DEF SqlOfStatement, SqlOfPortal, BindOfPortal
    <2>3. /\ SqlOfPortal(log[i].portal, i)' = SqlOfPortal(portal, i)'
          /\ FormatsOfPortal(log[i].portal, i)' = FormatsOfPortal(portal, i)'
        BY <2>1 DEF FormatsOfPortal, SqlOfPortal, BindOfPortal
    <2> QED
        BY <1>6, <2>1, <2>2, <2>3
<1>8. DescribedSql(i)' = DescribedSql(i)
    BY <1>2, <1>7 DEF DescribedSql
<1>9. Asked(i)' = Asked(i) /\ AskedFormats(i)' = AskedFormats(i)
    BY <1>2, <1>7, <1>8 DEF Asked, AskedFormats
<1>10. ProperTo(i)' = ProperTo(i)
    BY <1>2, <1>9 DEF ProperTo
<1>11. HauntedReplies(i)' = HauntedReplies(i)
    BY <1>2 DEF HauntedReplies
<1>12. ExpectedTags(i)' = ExpectedTags(i)
    BY <1>2, <1>7, <1>8 DEF ExpectedTags
<1> QED
    BY <1>2, <1>9, <1>10, <1>11, <1>12

----------------------------------------------------------------------------
(* What is written stays.                                                  *)

\* A step that ends an answer, or receives a request, or does neither.
EndsGrow == ends' = ends \/ \E n : ends' = Append(ends, n)
LogGrows == log' = log \/ \E r : log' = Append(log, r)

\* Where an answer begins has been written.
LEMMA BeginIs ==
    ASSUME Written
    PROVE  /\ Len(ends) \in Nat /\ Current \in Nat \ {0} /\ Current = Len(ends) + 1
           /\ \A i \in 1 .. Current : Begin(i) \in Nat /\ Begin(i) <= Len(wire)
           /\ \A i \in 1 .. Len(ends) : ends[i] \in Nat
<1>1. Len(ends) \in Nat /\ Len(wire) \in Nat /\ \A i \in 1 .. Len(ends) : ends[i] \in Nat
    BY DEF Written
<1>2. ASSUME NEW i \in 1 .. Current
      PROVE  Begin(i) \in Nat /\ Begin(i) <= Len(wire)
    <2>1. CASE i = 1
        BY <1>1, <2>1 DEF Begin
    <2>2. CASE i # 1
        <3>1. i - 1 \in 1 .. Len(ends)
            BY <1>1, <1>2, <2>2 DEF Current
        <3>2. ends[i - 1] \in Nat /\ ends[i - 1] <= Len(wire)
            BY <1>1, <3>1 DEF Written
        <3> QED
            BY <2>2, <3>2 DEF Begin
    <2> QED
        BY <2>1, <2>2
<1> QED
    BY <1>1, <1>2 DEF Current

\* Answers keep their place,
LEMMA OldEnds ==
    ASSUME Written, EndsGrow
    PROVE  /\ \A i \in 1 .. Len(ends) : ends'[i] = ends[i]
           /\ \A i \in 1 .. Current : Begin(i)' = Begin(i)
<1>1. ends \in Seq(Nat) /\ Len(ends) \in Nat
    BY DEF Written
<1>2. \A i \in 1 .. Len(ends) : ends'[i] = ends[i]
    BY <1>1 DEF EndsGrow
<1>3. ASSUME NEW i \in 1 .. Current
      PROVE  Begin(i)' = Begin(i)
    <2>1. CASE i = 1
        BY <2>1 DEF Begin
    <2>2. CASE i # 1
        <3>1. i - 1 \in 1 .. Len(ends)
            BY <1>1, <1>3, <2>2 DEF Current
        <3> QED
            BY <1>2, <2>2, <3>1 DEF Begin
    <2> QED
        BY <2>1, <2>2
<1> QED
    BY <1>2, <1>3

\* requests theirs,
LEMMA OldLog ==
    ASSUME Written, LogGrows
    PROVE  \A k \in 1 .. Len(log) : log'[k] = log[k]
BY DEF Written, LogGrows

\* what was written stays as it was,
LEMMA OldSegments ==
    ASSUME Written, EndsGrow, NEW more \in Seq(Replies), wire' = Joined(wire, more),
           NEW i \in 1 .. Len(ends)
    PROVE  Segment(i)' = Segment(i)
<1>1. /\ Len(ends) \in Nat /\ Begin(i) \in Nat /\ ends[i] \in Nat
      /\ Begin(i) <= ends[i] /\ ends[i] <= Len(wire) /\ wire \in Seq(Replies)
    BY BeginIs DEF Written
<1>2. ends'[i] = ends[i] /\ Begin(i)' = Begin(i)
    BY <1>1, OldEnds, BeginIs
<1>3. Slice(Joined(wire, more), Begin(i), ends[i]) = Slice(wire, Begin(i), ends[i])
    BY <1>1, SliceKept
<1>4. Segment(i) = Slice(wire, Begin(i), ends[i])
    BY DEF Segment, Slice
<1>5. Segment(i)' = Slice(Joined(wire, more), Begin(i), ends[i])
    BY <1>2 DEF Segment, Slice
<1> QED
    BY <1>3, <1>4, <1>5

\* and a whole answer is one for ever.
LEMMA OldAnswers ==
    ASSUME Written, Answered, EndsGrow, LogGrows,
           NEW more \in Seq(Replies), wire' = Joined(wire, more)
    PROVE  \A i \in 1 .. Len(ends) : Answer(i, Segment(i))'
<1> SUFFICES ASSUME NEW i \in 1 .. Len(ends)
             PROVE  Answer(i, Segment(i))'
    OBVIOUS
<1>1. /\ i \in Nat \ {0} /\ i <= Len(log) /\ log \in Seq(Requests)
      /\ \A k \in 1 .. i : log'[k] = log[k]
    <2>1. /\ ends \in Seq(Nat) /\ log \in Seq(Requests)
          /\ Len(ends) <= Len(log)
        BY DEF Written
    <2>2. Len(ends) \in Nat /\ Len(log) \in Nat
        BY <2>1
    <2>3. \A k \in 1 .. Len(log) : log'[k] = log[k]
        BY OldLog
    <2> QED
        BY <2>1, <2>2, <2>3
<1>2. /\ log'[i] = log[i] /\ ProperTo(i)' = ProperTo(i)
      /\ ExpectedTags(i)' = ExpectedTags(i) /\ HauntedReplies(i)' = HauntedReplies(i)
    BY <1>1, RequestKept
<1>3. Segment(i)' = Segment(i)
    BY OldSegments
<1>4. Answer(i, Segment(i))
    BY DEF Answered
<1> QED
    BY <1>2, <1>3, <1>4 DEF Answer
----------------------------------------------------------------------------
\* What is said to the current request while it is served.
LEMMA PendingGrows ==
    ASSUME Written, ends' = ends, NEW more \in Seq(Replies),
           \/ wire' = wire /\ out' = Joined(out, more)
           \/ wire' = Joined(Joined(wire, out), more) /\ out' = <<>>
           \/ wire' = Joined(wire, more) /\ out = <<>> /\ out' = out
    PROVE  Pending' = Joined(Pending, more) /\ Pending \in Seq(Replies)
<1> DEFINE a == Begin(Current)
           w == Slice(wire, a, Len(wire))
<1>1. /\ wire \in Seq(Replies) /\ out \in Seq(Replies)
      /\ Begin(Current) \in Nat /\ Begin(Current) <= Len(wire)
    BY BeginIs DEF Written
<1>2. Pending' = Joined(Slice(wire', a, Len(wire')), out') /\ Pending = Joined(w, out)
    <2>1. Begin(Current)' = Begin(Current)
        BY DEF Begin, Current
    <2> QED
        BY <2>1 DEF Pending
<1>3. w \in Seq(Replies)
    <2>1. Len(wire) \in Nat /\ Len(wire) <= Len(wire)
        BY <1>1
    <2>2. SliceAs(w, wire, a, Len(wire))
        BY <1>1, <2>1, SliceIs
    <2> HIDE DEF w
    <2> QED
        BY <2>2 DEF SliceAs
<1>4. Joined(w, out) \in Seq(Replies)
    <2> HIDE DEF w
    <2> QED
        BY <1>1, <1>3, JoinedIs DEF JoinedAs
<1>5. CASE wire' = wire /\ out' = Joined(out, more)
    <2>1. Pending' = Joined(w, Joined(out, more))
        BY <1>2, <1>5
    <2> HIDE DEF w
    <2>2. Joined(w, Joined(out, more)) = Joined(Joined(w, out), more)
        BY <1>1, <1>3, JoinThree
    <2> QED
        BY <1>2, <1>4, <2>1, <2>2
<1>6. CASE wire' = Joined(Joined(wire, out), more) /\ out' = <<>>
    <2> DEFINE t == Joined(out, more)
    <2>1. t \in Seq(Replies)
        BY <1>1, JoinedIs DEF JoinedAs
    <2>2. wire' = Joined(wire, t)
        BY <1>1, <1>6, JoinThree
    <2>3. t = Joined(out, more)
        OBVIOUS
    <2> HIDE DEF t
    <2>4. Slice(wire', a, Len(wire')) = Joined(w, t)
        BY <1>1, <2>1, <2>2, SliceGrows
    <2> HIDE DEF w
    <2>5. Joined(w, t) = Joined(Joined(w, out), more)
        BY <1>1, <1>3, <2>3, JoinThree
    <2>6. Joined(w, t) \in Seq(Replies)
        BY <1>3, <2>1, JoinedIs DEF JoinedAs
    <2>7. Pending' = Joined(w, t)
        BY <1>2, <1>6, <2>4, <2>6, JoinNone
    <2> QED
        BY <1>2, <1>4, <2>5, <2>7
<1>7. CASE wire' = Joined(wire, more) /\ out = <<>> /\ out' = out
    <2>1. Slice(wire', a, Len(wire')) = Joined(w, more)
        BY <1>1, <1>7, SliceGrows
    <2> HIDE DEF w
    <2>2. Joined(w, more) \in Seq(Replies)
        BY <1>3, JoinedIs DEF JoinedAs
    <2>3. Pending' = Joined(w, more) /\ Pending = w
        BY <1>2, <1>3, <1>7, <2>1, <2>2, JoinNone
    <2> QED
        BY <1>3, <2>3
<1> QED
    BY <1>5, <1>6, <1>7

\* A write that does not end an answer.
LEMMA WriteKeeps ==
    ASSUME Written, Answered, ends' = ends, log' = log, NEW more \in Seq(Replies),
           \/ wire' = wire /\ out' = Joined(out, more)
           \/ wire' = Joined(Joined(wire, out), more) /\ out' = <<>>
           \/ wire' = Joined(wire, more) /\ out = <<>> /\ out' = out
    PROVE  Written' /\ Answered'
<1>1. wire \in Seq(Replies) /\ out \in Seq(Replies) /\ <<>> \in Seq(Replies)
    BY DEF Written
<1>2. PICK t \in Seq(Replies) : wire' = Joined(wire, t)
    <2>1. Joined(wire, <<>>) = wire /\ Joined(out, more) \in Seq(Replies)
        BY <1>1, JoinNone, JoinedIs DEF JoinedAs
    <2>2. Joined(Joined(wire, out), more) = Joined(wire, Joined(out, more))
        BY <1>1, JoinThree
    <2> QED
        BY <1>1, <2>1, <2>2
<1>3. JoinedAs(wire', wire, t)
    BY <1>1, <1>2, JoinedIs
<1>4. wire' \in Seq(Replies) /\ Len(wire') >= Len(wire) /\ Len(wire) \in Nat /\ Len(wire') \in Nat
    BY <1>3 DEF JoinedAs
<1>5. out' \in Seq(Replies)
    BY <1>1, JoinedIs DEF JoinedAs
<1>6. \A i \in 1 .. Len(ends) : Begin(i)' = Begin(i) /\ ends[i] \in Nat
    BY BeginIs, OldEnds DEF EndsGrow
<1>7. Written'
    BY <1>4, <1>5, <1>6 DEF Written
<1>8. \A i \in 1 .. Len(ends) : Answer(i, Segment(i))'
    BY <1>2, OldAnswers DEF EndsGrow, LogGrows
<1>9. Answered'
    BY <1>8 DEF Answered
<1> QED
    BY <1>7, <1>9

\* The end of an answer.
LEMMA FinishKeeps ==
    ASSUME Written, Answered, Serves, log' = log, NEW replies \in Seq(Replies), Finish(replies),
           Answer(Current, Joined(Pending, replies))
    PROVE  Written' /\ Answered' /\ Doing' /\ Current' = Current + 1
<1>1. wire \in Seq(Replies) /\ out \in Seq(Replies) /\ ends \in Seq(Nat) /\ log \in Seq(Requests)
    BY DEF Written
<1> DEFINE t == Joined(out, replies)
<1>2. t \in Seq(Replies)
    BY <1>1, JoinedIs DEF JoinedAs
<1>3. wire' = Joined(wire, t)
    <2>1. wire' = Joined(Joined(wire, out), replies)
        BY DEF Finish, Joined
    <2> QED
        BY <1>1, <2>1, JoinThree
<1>4. JoinedAs(wire', wire, t)
    BY <1>1, <1>2, <1>3, JoinedIs
<1>5. t = Joined(out, replies)
    OBVIOUS
<1> HIDE DEF t
<1>6. /\ wire' \in Seq(Replies) /\ Len(wire') >= Len(wire) /\ Len(wire) \in Nat
      /\ Len(wire') \in Nat
    BY <1>4 DEF JoinedAs
<1>7. /\ ends' = Append(ends, Len(wire')) /\ EndsGrow /\ LogGrows
      /\ out' = <<>> /\ pc' = "ready"
    BY DEF Finish, EndsGrow, LogGrows
<1>8. /\ Len(ends) \in Nat /\ Current = Len(ends) + 1
      /\ Begin(Current) \in Nat /\ Begin(Current) <= Len(wire)
      /\ \A i \in 1 .. Len(ends) : ends[i] \in Nat
    BY BeginIs
<1>9. /\ ends' \in Seq(Nat) /\ Len(ends') = Len(ends) + 1 /\ ends'[Current] = Len(wire')
      /\ Current' = Current + 1
    BY <1>1, <1>6, <1>7, <1>8 DEF Current
<1>10. /\ \A i \in 1 .. Len(ends) : ends'[i] = ends[i]
       /\ \A i \in 1 .. Current : Begin(i)' = Begin(i)
    BY <1>7, OldEnds
<1>11. Written'
    <2>1. Len(log) = Current
        BY DEF Serves
    <2>2. ASSUME NEW i \in 1 .. Len(ends')
          PROVE  Begin(i)' <= ends'[i] /\ ends'[i] <= Len(wire')
        <3>1. CASE i = Current
            <4>1. Current \in 1 .. Current
                BY <1>8
            <4>2. Begin(i)' = Begin(Current)
                BY <1>10, <3>1, <4>1
            <4> QED
                BY <1>6, <1>8, <1>9, <3>1, <4>2
        <3>2. CASE i # Current
            <4>1. i \in 1 .. Len(ends) /\ i \in 1 .. Current
                BY <1>8, <1>9, <3>2
            <4>2. Begin(i) <= ends[i] /\ ends[i] <= Len(wire) /\ ends[i] \in Nat
                BY <1>8, <4>1 DEF Written
            <4> QED
                BY <1>6, <1>10, <4>1, <4>2
        <3> QED
            BY <3>1, <3>2
    <2>3. out' \in Seq(Replies)
        BY <1>7
    <2>4. Len(ends') <= Len(log')
        BY <1>8, <1>9, <2>1
    <2> QED
        BY <1>1, <1>6, <1>9, <2>2, <2>3, <2>4 DEF Written
<1>12. Slice(wire', Begin(Current), Len(wire')) = Joined(Pending, replies)
    <2> DEFINE w == Slice(wire, Begin(Current), Len(wire))
    <2>1. Slice(wire', Begin(Current), Len(wire')) = Joined(w, t)
        BY <1>1, <1>2, <1>3, <1>8, SliceGrows
    <2>2. w \in Seq(Replies)
        <3>1. SliceAs(w, wire, Begin(Current), Len(wire))
            BY <1>1, <1>6, <1>8, SliceIs
        <3> HIDE DEF w
        <3> QED
            BY <3>1 DEF SliceAs
    <2>3. Pending = Joined(w, out)
        BY DEF Pending
    <2> HIDE DEF w
    <2> QED
        BY <1>1, <1>5, <2>1, <2>2, <2>3, JoinThree
<1>13. Answered'
    <2>1. \A i \in 1 .. Len(ends) : Answer(i, Segment(i))'
        BY <1>2, <1>3, <1>7, OldAnswers
    <2>2. PICK c : c = Current
        OBVIOUS
    <2>3. Segment(c)' = Joined(Pending, replies)
        <3>1. Segment(c)' = Slice(wire', Begin(c)', ends'[c])
            BY DEF Segment, Slice
        <3>2. c \in 1 .. Current
            BY <1>8, <2>2
        <3>3. Begin(c)' = Begin(c)
            BY <1>10, <3>2
        <3>4. Begin(c) = Begin(Current) /\ ends'[c] = Len(wire')
            BY <1>9, <2>2
        <3> QED
            BY <1>12, <3>1, <3>3, <3>4
    <2>4. /\ log'[c] = log[c] /\ ProperTo(c)' = ProperTo(c)
          /\ ExpectedTags(c)' = ExpectedTags(c) /\ HauntedReplies(c)' = HauntedReplies(c)
        <3>1. c \in Nat \ {0} /\ c <= Len(log) /\ \A k \in 1 .. c : log'[k] = log[k]
            BY <1>8, <2>2 DEF Serves
        <3> QED
            BY <1>1, <3>1, RequestKept
    <2>5. Answer(c, Joined(Pending, replies))
        BY <2>2
    <2>6. Answer(c, Segment(c))'
        BY <2>3, <2>4, <2>5 DEF Answer
    <2>7. \A i \in 1 .. Len(ends') : i \in 1 .. Len(ends) \/ i = c
        BY <1>8, <1>9, <2>2
    <2> QED
        BY <2>1, <2>6, <2>7 DEF Answered
<1>14. Pending' = <<>>
    <2>1. Begin(Current)' = Len(wire')
        BY <1>8, <1>9 DEF Begin
    <2>2. Slice(wire', Len(wire'), Len(wire')) = <<>>
        BY <1>6, SliceNone
    <2>3. Pending' = Joined(<<>>, <<>>)
        BY <1>7, <2>1, <2>2 DEF Pending
    <2>4. Joined(<<>>, <<>>) = <<>>
        BY <1>1 DEF Joined
    <2> QED
        BY <2>3, <2>4
<1>15. Doing'
    BY <1>7, <1>8, <1>9, <1>14 DEF Doing, Idle, Serves
<1> QED
    BY <1>9, <1>11, <1>13, <1>15

----------------------------------------------------------------------------
(* What the client and the server know after a request.                    *)

\* What the client knows after the current request, in terms of the maps of the
\* server before it.
LEMMA KnownNext ==
    ASSUME Written, Known, Serves, log' = log, Current' = Current + 1
    PROVE  \A name \in Names :
               /\ SqlOfStatement(name, Current)' =
                      IF OfStatement(request, name)
                      THEN IF request.tag = "C" THEN EmptySql ELSE request.sql
                      ELSE Get(statements, name, EmptySql)
               /\ [sql |-> SqlOfPortal(name, Current), formats |-> FormatsOfPortal(name, Current)]' =
                      IF OfPortal(request, name)
                      THEN IF request.tag = "C" THEN NoPortal
                           ELSE [sql |-> Get(statements, request.name, EmptySql),
                                 formats |-> request.formats]
                      ELSE Get(portals, name, NoPortal)
<1> SUFFICES ASSUME NEW name \in Names
             PROVE  /\ SqlOfStatement(name, Current)' =
                           IF OfStatement(request, name)
                           THEN IF request.tag = "C" THEN EmptySql ELSE request.sql
                           ELSE Get(statements, name, EmptySql)
                    /\ [sql |-> SqlOfPortal(name, Current)',
                        formats |-> FormatsOfPortal(name, Current)'] =
                           IF OfPortal(request, name)
                           THEN IF request.tag = "C" THEN NoPortal
                                ELSE [sql |-> Get(statements, request.name, EmptySql),
                                      formats |-> request.formats]
                           ELSE Get(portals, name, NoPortal)
    OBVIOUS
<1>1. PICK c : c = Current
    OBVIOUS
<1>2. /\ c \in Nat \ {0} /\ log \in Seq(Requests) /\ c <= Len(log) /\ c = Len(log)
      /\ request = log[c] /\ request \in Requests
    <2>1. /\ c \in Nat \ {0} /\ log \in Seq(Requests)
          /\ c <= Len(log) /\ c = Len(log) /\ request = log[c]
        BY <1>1, BeginIs DEF Written, Serves
    <2> QED
        BY <2>1
<1>3. /\ SqlOfStatement(name, Current)' = SqlOfStatement(name, c + 1)
      /\ SqlOfPortal(name, Current)' = SqlOfPortal(name, c + 1)
      /\ FormatsOfPortal(name, Current)' = FormatsOfPortal(name, c + 1)
    BY <1>1 DEF SqlOfStatement, SqlOfPortal, FormatsOfPortal, BindOfPortal
<1>4. SqlOfStatement(name, c + 1) =
          IF OfStatement(request, name)
          THEN IF request.tag = "C" THEN EmptySql ELSE request.sql
          ELSE SqlOfStatement(name, c)
    BY <1>2, StatementNext
<1>5. /\ SqlOfPortal(name, c + 1) =
             IF OfPortal(request, name)
             THEN IF request.tag = "C" THEN EmptySql ELSE SqlOfStatement(request.name, c)
             ELSE SqlOfPortal(name, c)
      /\ FormatsOfPortal(name, c + 1) =
             IF OfPortal(request, name)
             THEN IF request.tag = "C" THEN <<>> ELSE request.formats
             ELSE FormatsOfPortal(name, c)
    BY <1>2, PortalNext
<1>6. /\ Get(statements, name, EmptySql) = SqlOfStatement(name, c)
      /\ Get(portals, name, NoPortal) =
             [sql |-> SqlOfPortal(name, c), formats |-> FormatsOfPortal(name, c)]
    BY <1>1 DEF Known
<1>7. OfPortal(request, name) /\ request.tag # "C" =>
          Get(statements, request.name, EmptySql) = SqlOfStatement(request.name, c)
    <2> SUFFICES ASSUME OfPortal(request, name), request.tag # "C"
                 PROVE  Get(statements, request.name, EmptySql) = SqlOfStatement(request.name, c)
        OBVIOUS
    <2>1. request.name \in Names
        BY <1>2, RequestKinds DEF OfPortal
    <2> QED
        BY <1>1, <2>1 DEF Known
<1> HIDE DEF Get
<1>8. SqlOfStatement(name, Current)' =
          IF OfStatement(request, name)
          THEN IF request.tag = "C" THEN EmptySql ELSE request.sql
          ELSE Get(statements, name, EmptySql)
    BY <1>3, <1>4, <1>6
<1> DEFINE sql == SqlOfPortal(name, c + 1)
           formats == FormatsOfPortal(name, c + 1)
<1>9. CASE OfPortal(request, name) /\ request.tag = "C"
    <2>1. sql = EmptySql /\ formats = <<>>
        BY <1>5, <1>9
    <2> QED
        BY <1>3, <1>8, <1>9, <2>1 DEF NoPortal
<1>10. CASE OfPortal(request, name) /\ request.tag # "C"
    <2>1. sql = Get(statements, request.name, EmptySql) /\ formats = request.formats
        BY <1>5, <1>7, <1>10
    <2> QED
        BY <1>3, <1>8, <1>10, <2>1
<1>11. CASE ~OfPortal(request, name)
    <2>1. sql = SqlOfPortal(name, c) /\ formats = FormatsOfPortal(name, c)
        BY <1>5, <1>11
    <2> QED
        BY <1>3, <1>6, <1>8, <1>11, <2>1
<1> QED
    BY <1>9, <1>10, <1>11

\* A request that touches no name leaves client and server agreed,
LEMMA KnownSame ==
    ASSUME Written, Known, Serves, log' = log, Current' = Current + 1,
           statements' = statements, portals' = portals, request.tag \notin {"P", "B", "C"}
    PROVE  Known'
<1>1. \A name : ~OfStatement(request, name) /\ ~OfPortal(request, name)
    BY DEF OfStatement, OfPortal
<1>2. ASSUME NEW name \in Names
      PROVE  /\ SqlOfStatement(name, Current)' = Get(statements, name, EmptySql)
             /\ [sql |-> SqlOfPortal(name, Current), formats |-> FormatsOfPortal(name, Current)]' =
                    Get(portals, name, NoPortal)
    BY <1>1, KnownNext
<1> QED
    BY <1>2 DEF Known

\* and so does a step within a request.
LEMMA KnownStill ==
    ASSUME Known, log' = log, Current' = Current, statements' = statements, portals' = portals
    PROVE  Known'
<1>1. ASSUME NEW name \in Names
      PROVE  /\ SqlOfStatement(name, Current)' = SqlOfStatement(name, Current)
             /\ BindOfPortal(name, Current)' = BindOfPortal(name, Current)
    BY DEF SqlOfStatement, BindOfPortal
<1>2. ASSUME NEW name \in Names
      PROVE  /\ SqlOfPortal(name, Current)' = SqlOfPortal(name, Current)
             /\ FormatsOfPortal(name, Current)' = FormatsOfPortal(name, Current)
    BY <1>1 DEF SqlOfPortal, FormatsOfPortal, SqlOfStatement
<1> QED
    BY <1>1, <1>2 DEF Known

\* Finishing an answer moves on to the next request.
LEMMA FinishCounts ==
    ASSUME Written, NEW n, ends' = Append(ends, n)
    PROVE  Current' = Current + 1
BY DEF Written, Current

\* Reading a map after an insertion or a removal.
LEMMA GetOf ==
    ASSUME NEW f, NEW name, NEW other, NEW value, NEW default
    PROVE  /\ Get(Put(f, name, value), other, default) =
                  IF other = name THEN value ELSE Get(f, other, default)
           /\ Get(Without(f, name), other, default) =
                  IF other = name THEN default ELSE Get(f, other, default)
BY DEF Get, Put, Without
----------------------------------------------------------------------------
(* Answers of one or two plain replies.                                    *)

\* A plain reply alone,
LEMMA OnePlain ==
    ASSUME NEW tag \in PlainTags
    PROVE  /\ Hears(<<Plain(tag)>>, <<tag>>, 0, Unheard.cols, 0)
           /\ \A r, sql, formats : <<Plain(tag)>> \in Seq(Proper(r, sql, formats))
<1>1. Hears(Plus(<<>>, Plain(tag)), Plus(<<>>, tag), 0, Unheard.cols, 0)
    BY HearsNothing, SayPlain
<1>2. Plus(<<>>, Plain(tag)) = <<Plain(tag)>> /\ Plus(<<>>, tag) = <<tag>>
    BY DEF Plus
<1>3. ASSUME NEW r, NEW sql, NEW formats
      PROVE  <<Plain(tag)>> \in Seq(Proper(r, sql, formats))
    <2>1. Plain(tag) \in Proper(r, sql, formats)
        BY ProperOnes
    <2> QED
        BY <2>1
<1> QED
    BY <1>1, <1>2, <1>3

\* and two of them.
LEMMA TwoPlain ==
    ASSUME NEW tag \in PlainTags, NEW next \in PlainTags
    PROVE  /\ Hears(<<Plain(tag), Plain(next)>>, <<tag>> \o <<next>>, 0, Unheard.cols, 0)
           /\ \A r, sql, formats :
                  <<Plain(tag), Plain(next)>> \in Seq(Proper(r, sql, formats))
<1> DEFINE s == <<Plain(tag)>>
           t == <<tag>>
<1>1. Hears(s, t, 0, Unheard.cols, 0)
    BY OnePlain
<1> HIDE DEF s, t
<1>2. Hears(Plus(s, Plain(next)), Plus(t, next), 0, Unheard.cols, 0)
    BY <1>1, SayPlain
<1>3. Plus(s, Plain(next)) = <<Plain(tag), Plain(next)>> /\ Plus(t, next) = <<tag>> \o <<next>>
    <2> DEFINE x == Plain(tag)
               y == Plain(next)
               none == <<>>
    <2>1. x \in Replies /\ y \in Replies
        BY PlainIs
    <2> HIDE DEF x, y
    <2>3. none \in Seq(Replies)
        OBVIOUS
    <2>4. <<x, y>> \in Seq(Replies) /\ Joined(none, <<x, y>>) = Plus(Plus(none, x), y)
        BY <2>1, <2>3, PlusTwo
    <2> DEFINE two == <<x, y>>
    <2> HIDE DEF two
    <2>5. Joined(none, two) = two
        <3>1. two \in Seq(Replies)
            BY <2>4 DEF two
        <3> QED
            BY <3>1, JoinNone
    <2>6. Plus(none, x) = <<x>>
        BY <2>1, <2>3, PlusIs
    <2> HIDE DEF none
    <2>2. Append(t, next) = t \o <<next>>
        BY DEF t
    <2>7. Plus(s, Plain(next)) = <<Plain(tag), Plain(next)>>
        <3>1. two = Plus(Plus(none, x), y)
            BY <2>4, <2>5 DEF two
        <3>2. Plus(s, y) = two
            BY <2>6, <3>1 DEF s, x
        <3> QED
            BY <3>2, Zenon DEF two, x, y
    <2>8. Plus(t, next) = <<tag>> \o <<next>>
        BY <2>2 DEF Plus, t
    <2> QED
        BY <2>7, <2>8
<1>4. ASSUME NEW r, NEW sql, NEW formats
      PROVE  <<Plain(tag), Plain(next)>> \in Seq(Proper(r, sql, formats))
    <2>1. Plain(tag) \in Proper(r, sql, formats) /\ Plain(next) \in Proper(r, sql, formats)
        BY ProperOnes
    <2> HIDE DEF Proper, Plain
    <2> QED
        BY <2>1
<1> QED
    BY <1>2, <1>3, <1>4

\* An answer in one step.
LEMMA IdleFinish ==
    ASSUME Written, Answered, Known, Serves, Idle, log' = log,
           NEW replies \in Seq(Replies), Finish(replies), Answer(Current, replies), Known'
    PROVE  PgInv'
<1>1. Joined(Pending, replies) = replies
    BY JoinNone DEF Idle
<1> QED
    BY <1>1, FinishKeeps DEF PgInv

\* Replies that are proper and say what is expected, or a ghost, are an answer.
LEMMA AnswerIs ==
    ASSUME NEW s, NEW tags, NEW rows, NEW cols, NEW misfits, NEW i,
           Hears(s, tags, rows, cols, misfits),
           s \in Seq(ProperTo(i)), log[i].tag = "Q" => misfits = 0,
           \/ tags = ExpectedTags(i)
           \/ log[i].tag \in {"Q", "E"} /\ "error" \in Ghosts /\ s = HauntedReplies(i)
    PROVE  Answer(i, s) /\ s \in Seq(Replies)
BY DEF Answer, Fits, Hears

----------------------------------------------------------------------------
(* A simple query, statement by statement.                                 *)

\* One statement more is done.
LEMMA SplitNext ==
    ASSUME NEW stmts, NEW done, NEW rest, Split(stmts, done, rest), rest # <<>>
    PROVE  Head(rest) \in Texts /\ Split(stmts, Plus(done, Head(rest)), Tail(rest))
<1>1. done \in Seq(Texts) /\ rest \in Seq(Texts) /\ stmts = done \o rest
    BY DEF Split
<1> HIDE DEF Texts
<1>2. Head(rest) \in Texts /\ Tail(rest) \in Seq(Texts)
    BY <1>1
<1> DEFINE x == Head(rest)
           t == Tail(rest)
           one == <<x>>
<1>3. x \in Texts /\ t \in Seq(Texts)
    BY <1>2
<1>4. rest = one \o t
    BY <1>1, HeadTailProperties
<1> HIDE DEF x, t
<1>5. one \in Seq(Texts) /\ done \o one = Plus(done, x) /\ Plus(done, x) \in Seq(Texts)
    BY <1>1, <1>3 DEF Plus
<1> HIDE DEF one
<1>6. (done \o one) \o t = done \o (one \o t)
    <2>1. done \in Seq(Texts) /\ one \in Seq(Texts) /\ t \in Seq(Texts)
        BY <1>1, <1>3, <1>5
    <2> QED
        BY <2>1, ConcatAssociative
<1>7. Split(stmts, Plus(done, x), t)
    BY <1>1, <1>3, <1>4, <1>5, <1>6 DEF Split
<1> QED
    BY <1>2, <1>7 DEF x, t

\* A simple query begins with nothing done.
LEMMA ActBegins ==
    ASSUME NEW r \in Requests, r.tag = "Q"
    PROVE  Acting(r, r.stmts, <<>>)
<1>1. r.stmts \in Seq(Texts)
    BY RequestKinds, SessionAssumption DEF Texts
<1> DEFINE none == <<>>
<1>2. none \in Seq(Texts) /\ r.stmts = none \o r.stmts
    <2> HIDE DEF Texts
    <2> QED
        BY <1>1
<1>3. Hears(none, AnswerTags(none), 0, Unheard.cols, 0)
    BY HearsNothing, AnswerTagsOfNone
<1>4. none \in Seq(Proper(r, EmptySql, <<>>))
    OBVIOUS
<1> HIDE DEF none
<1>5. Split(r.stmts, none, r.stmts)
    BY <1>1, <1>2 DEF Split
<1>6. Acting(r, r.stmts, none)
    BY <1>3, <1>4, <1>5 DEF Acting
<1> QED
    BY <1>6 DEF none

\* AnswerStatement: one statement answered,
LEMMA ActAnswers ==
    ASSUME NEW r, r.tag = "Q", NEW rest, NEW pending, Acting(r, rest, pending), rest # <<>>,
           NEW draw \in Band
    PROVE  LET t == NormalReplies(Head(rest), draw)
           IN  t \in Seq(Replies) /\ Acting(r, Tail(rest), Joined(pending, t))
<1> DEFINE sql == Head(rest)
           t == NormalReplies(sql, draw)
           P == Proper(r, EmptySql, <<>>)
<1>1. PICK done, cols : Split(r.stmts, done, rest) /\ Hears(pending, AnswerTags(done), 0, cols, 0)
    BY DEF Acting
<1>2. sql \in Texts /\ Split(r.stmts, Plus(done, sql), Tail(rest))
    BY <1>1, SplitNext
<1>3. done \in Seq(Texts)
    BY <1>1 DEF Split
<1> HIDE DEF sql
<1>4. AnswerTags(done) \in Seq(Tags)
    BY <1>3, AnswerTagsIsFold
<1>5. AnswerTags(Plus(done, sql)) = Joined(AnswerTags(done), ResultTags(sql))
    BY <1>2, <1>3, AnswerTagsOneMore
<1> DEFINE new == IF IsSelect(sql) THEN ResolveCols(sql) ELSE cols
<1>6. /\ t \in Seq(P)
      /\ Hears(Joined(pending, t), Joined(AnswerTags(done), ResultTags(sql)), 0, new, 0)
    <2> HIDE DEF P
    <2>1. /\ \A any, q, f : any.tag = "Q" => t \in Seq(Proper(any, q, f))
          /\ Hears(Joined(pending, t), Joined(AnswerTags(done), ResultTags(sql)), 0, new, 0)
        BY <1>1, <1>2, <1>4, NormalAnswer
    <2> QED
        BY <2>1 DEF P
<1> HIDE DEF new, t
<1>7. pending \in Seq(P)
    BY DEF Acting
<1>8. P \subseteq Replies
    BY DEF Proper
<1> HIDE DEF P
<1>9. Joined(pending, t) \in Seq(P) /\ t \in Seq(Replies)
    BY <1>6, <1>7, <1>8 DEF Joined
<1>10. Acting(r, Tail(rest), Joined(pending, t))
    BY <1>2, <1>5, <1>6, <1>9 DEF Acting, P
<1> QED
    BY <1>9, <1>10 DEF t, sql

\* CrushStatement: one described and crushed,
LEMMA ActCrushes ==
    ASSUME NEW r, r.tag = "Q", NEW rest, NEW pending, Acting(r, rest, pending), rest # <<>>,
           MustCrush(Head(rest))
    PROVE  LET own == CrushColumns(Head(rest))
           IN  /\ own \in Columns /\ RowDescription(own) \in Replies
               /\ Crushing(r, Tail(rest), Plus(pending, RowDescription(own)), own, 0)
<1> DEFINE sql == Head(rest)
           own == CrushColumns(sql)
           x == RowDescription(own)
           P == Proper(r, EmptySql, <<>>)
<1>1. PICK done, cols : Split(r.stmts, done, rest) /\ Hears(pending, AnswerTags(done), 0, cols, 0)
    BY DEF Acting
<1>2. sql \in Texts /\ Split(r.stmts, Plus(done, sql), Tail(rest))
    BY <1>1, SplitNext
<1>3. IsSelect(sql)
    BY DEF MustCrush, CrushClass, Exempt, IsSelect
<1>4. done \in Seq(Texts) /\ pending \in Seq(P)
    BY <1>1 DEF Split, Acting
<1> HIDE DEF sql
<1>5. own \in Columns
    BY <1>2, ColumnsOf
<1> HIDE DEF own
<1>6. x \in Replies /\ Hears(Plus(pending, x), Plus(AnswerTags(done), "T"), 0, own, 0)
    BY <1>1, <1>5, SayDescription
<1>7. x \in P
    BY <1>5, ProperOnes
<1> HIDE DEF x, P
<1>8. Plus(pending, x) \in Seq(P)
    BY <1>4, <1>7 DEF Plus
<1>9. Crushing(r, Tail(rest), Plus(pending, x), own, 0)
    BY <1>2, <1>3, <1>4, <1>6, <1>8 DEF Crushing, P
<1> QED
    BY <1>5, <1>6, <1>9 DEF x, own, sql

\* StreamChunk: some of its rows,
LEMMA CrushGoesOn ==
    ASSUME NEW r, r.tag = "Q", NEW rest, NEW pending, NEW cols \in Columns, NEW sent,
           Crushing(r, rest, pending, cols, sent), NEW n \in Nat
    PROVE  LET t == DataRows(cols, <<>>, n)
           IN  t \in Seq(Replies) /\ Crushing(r, rest, Joined(pending, t), cols, sent + n)
<1> DEFINE t == DataRows(cols, <<>>, n)
           P == Proper(r, EmptySql, <<>>)
<1>1. PICK done, sql :
          /\ done \in Seq(Texts) /\ sql \in Texts /\ IsSelect(sql)
          /\ Split(r.stmts, Plus(done, sql), rest)
          /\ Hears(pending, Plus(AnswerTags(done), "T"), sent, cols, 0)
    BY DEF Crushing
<1>2. pending \in Seq(P) /\ <<>> \in Lists
    BY DEF Crushing, Lists
<1>3. t \in Seq(P)
    BY <1>2, ProperRows
<1> HIDE DEF t
<1>4. /\ t \in Seq(Replies)
      /\ Hears(Joined(pending, t), Plus(AnswerTags(done), "T"), sent + n, cols, 0)
    <2>1. /\ t \in Seq(Replies)
          /\ Hears(Joined(pending, t), Plus(AnswerTags(done), "T"), sent + n, cols,
                   IF n = 0 \/ cols = cols THEN 0 ELSE 0 + 1)
        BY <1>1, <1>2, SayRows DEF t
    <2> QED
        BY <2>1
<1> HIDE DEF P
<1>5. Joined(pending, t) \in Seq(P)
    BY <1>2, <1>3 DEF Joined
<1>6. Crushing(r, rest, Joined(pending, t), cols, sent + n)
    BY <1>1, <1>4, <1>5 DEF Crushing, P
<1> QED
    BY <1>4, <1>6 DEF t

\* StreamTail: it has all been answered.
LEMMA CrushIsAnswered ==
    ASSUME NEW r, r.tag = "Q", NEW rest, NEW pending, NEW cols, NEW sent \in Nat,
           Crushing(r, rest, pending, cols, sent)
    PROVE  LET x == CommandComplete(sent)
           IN  x \in Replies /\ Acting(r, rest, Plus(pending, x))
<1> DEFINE x == CommandComplete(sent)
           P == Proper(r, EmptySql, <<>>)
<1>1. PICK done, sql :
          /\ done \in Seq(Texts) /\ sql \in Texts /\ IsSelect(sql)
          /\ Split(r.stmts, Plus(done, sql), rest)
          /\ Hears(pending, Plus(AnswerTags(done), "T"), sent, cols, 0)
    BY DEF Crushing
<1>2. pending \in Seq(P)
    BY DEF Crushing
<1>3. x \in P
    BY ProperOnes
<1>4. /\ x \in Replies
      /\ Hears(Plus(pending, x), Plus(Plus(AnswerTags(done), "T"), "C"), 0, cols, 0)
    BY <1>1, SayDone
<1>5. AnswerTags(Plus(done, sql)) = Plus(Plus(AnswerTags(done), "T"), "C")
    <2>1. AnswerTags(done) \in Seq(Tags)
        BY <1>1, AnswerTagsIsFold
    <2>2. Joined(AnswerTags(done), ResultTags(sql)) = Plus(Plus(AnswerTags(done), "T"), "C")
        BY <1>1, <2>1, ResultTagsAre
    <2> QED
        BY <1>1, <2>2, AnswerTagsOneMore
<1> HIDE DEF P, x
<1>6. Plus(pending, x) \in Seq(P)
    BY <1>2, <1>3 DEF Plus
<1>7. Acting(r, rest, Plus(pending, x))
    BY <1>1, <1>4, <1>5, <1>6 DEF Acting, P
<1> QED
    BY <1>4, <1>7 DEF x
----------------------------------------------------------------------------
(* A crushed portal.                                                       *)

\* CrushPortal: the stream of a portal begins with no rows,
LEMMA DrainBegins ==
    ASSUME NEW proper
    PROVE  Draining(proper, <<>>, 0)
<1>1. Hears(<<>>, <<>>, 0, Unheard.cols, 0)
    BY HearsNothing
<1>2. <<>> \in Seq(proper)
    OBVIOUS
<1> QED
    BY <1>1, <1>2 DEF Draining

\* StreamChunk: more of them,
LEMMA DrainGoesOn ==
    ASSUME NEW r, r.tag = "E", NEW sql \in Texts, NEW formats \in Lists,
           NEW pending, NEW sent, Draining(Proper(r, sql, formats), pending, sent), NEW n \in Nat
    PROVE  LET t == DataRows(Binarize(ResolveCols(sql)), formats, n)
           IN  /\ t \in Seq(Replies)
               /\ Draining(Proper(r, sql, formats), Joined(pending, t), sent + n)
<1> DEFINE own == Binarize(ResolveCols(sql))
           t == DataRows(own, formats, n)
           P == Proper(r, sql, formats)
<1>1. PICK cols, misfits : Hears(pending, <<>>, sent, cols, misfits)
    BY DEF Draining
<1>2. pending \in Seq(P) /\ own \in Columns
    BY ColumnsOf DEF Draining
<1>3. t \in Seq(P)
    BY <1>2, ProperRows
<1> HIDE DEF own
<1> DEFINE more == IF n = 0 \/ own = cols THEN misfits ELSE misfits + 1
<1>4. t \in Seq(Replies) /\ Hears(Joined(pending, t), <<>>, sent + n, cols, more)
    BY <1>1, <1>2, SayRows
<1> HIDE DEF P, t, more
<1>5. Joined(pending, t) \in Seq(P)
    BY <1>2, <1>3 DEF Joined
<1>6. Draining(P, Joined(pending, t), sent + n)
    BY <1>4, <1>5 DEF Draining
<1> QED
    BY <1>4, <1>6 DEF P, t, own

\* StreamTail: the completion names them all.
LEMMA DrainIsAnswered ==
    ASSUME NEW r, NEW sql, NEW formats, IsSelect(sql),
           NEW pending, NEW sent \in Nat, Draining(Proper(r, sql, formats), pending, sent)
    PROVE  LET x == CommandComplete(sent)
           IN  /\ <<x>> \in Seq(Replies)
               /\ Joined(pending, <<x>>) \in Seq(Proper(r, sql, formats))
               /\ \E cols, misfits : Hears(Joined(pending, <<x>>), DoneTags(sql), 0, cols, misfits)
<1> DEFINE x == CommandComplete(sent)
           P == Proper(r, sql, formats)
<1>1. PICK cols, misfits : Hears(pending, <<>>, sent, cols, misfits)
    BY DEF Draining
<1>2. pending \in Seq(P) /\ pending \in Seq(Replies)
    BY <1>1 DEF Draining, Hears
<1>3. x \in P
    BY ProperOnes
<1>4. x \in Replies /\ Hears(Plus(pending, x), Plus(<<>>, "C"), 0, cols, misfits)
    BY <1>1, SayDone
<1> HIDE DEF P, x
<1>5. Joined(pending, <<x>>) = Plus(pending, x) /\ <<x>> \in Seq(Replies)
    BY <1>2, <1>4, PlusIs
<1>6. Plus(pending, x) \in Seq(P)
    BY <1>2, <1>3 DEF Plus
<1>7. DoneTags(sql) = Plus(<<>>, "C")
    <2>1. ShapeOf[sql].kind # "empty"
        BY DEF IsSelect
    <2>2. Plus(<<>>, "C") = <<"C">>
        BY DEF Plus
    <2> QED
        BY <2>1, <2>2 DEF DoneTags
<1> QED
    BY <1>4, <1>5, <1>6, <1>7 DEF P, x

----------------------------------------------------------------------------
(* The steps.                                                              *)

\* ExpectedTags, by the kind of request.
LEMMA ExpectedIs ==
    ASSUME NEW i
    PROVE  /\ log[i].tag = "Q" => ExpectedTags(i) =
                  (IF log[i].stmts = <<>> THEN <<"I">> ELSE AnswerTags(log[i].stmts)) \o <<"Z">>
           /\ log[i].tag = "P" => ExpectedTags(i) = <<"1">>
           /\ log[i].tag = "B" => ExpectedTags(i) = <<"2">>
           /\ log[i].tag = "D" => ExpectedTags(i) =
                  (IF log[i].kind = "S" THEN <<"t">> ELSE <<>>)
                  \o (IF IsSelect(DescribedSql(i)) THEN <<"T">> ELSE <<"n">>)
           /\ log[i].tag = "E" => ExpectedTags(i) = DoneTags(SqlOfPortal(log[i].portal, i))
           /\ log[i].tag = "C" => ExpectedTags(i) = <<"3">>
           /\ log[i].tag = "S" => ExpectedTags(i) = <<"Z">>
           /\ log[i].tag = "H" => ExpectedTags(i) = <<>>
<1> HIDE DEF AnswerTags, DescribedSql, IsSelect, DoneTags, SqlOfPortal
<1> QED
    BY DEF ExpectedTags

\* The state in which a request is served.
LEMMA AtWork ==
    ASSUME PgInv, pc \in {"haunt", "act", "stream"}
    PROVE  /\ Serves /\ Current \in Nat \ {0} /\ Current <= Len(log) /\ log \in Seq(Requests)
           /\ request \in Requests /\ log[Current] = request
           /\ pc = "haunt" => Idle /\ request.tag \in {"Q", "E"}
           /\ pc = "haunt" /\ request.tag = "Q" => todo = request.stmts
           /\ pc = "act" /\ request.tag # "Q" => Idle
           /\ pc = "act" /\ request.tag = "Q" => Acting(request, todo, Pending)
           /\ pc = "stream" =>
                  /\ out = <<>> /\ stream \in Streams
                  /\ \/ request.tag = "Q" /\ StreamsQuery
                     \/ request.tag = "E" /\ StreamsPortal
<1>1. Serves /\ log \in Seq(Requests)
    BY DEF PgInv, Doing, Written
<1>2. Current \in Nat \ {0} /\ Current <= Len(log) /\ log[Current] = request
    BY <1>1, BeginIs DEF PgInv, Serves
<1>3. request \in Requests
    BY <1>1, <1>2
<1> QED
    BY <1>1, <1>2, <1>3 DEF PgInv, Doing

\* A request whose answer is one plain reply.
LEMMA PlainAnswer ==
    ASSUME PgInv, pc = "act", request.tag # "Q", log' = log,
           NEW tag \in PlainTags, ExpectedTags(Current) = <<tag>>, Finish(<<Plain(tag)>>), Known'
    PROVE  PgInv'
<1>1. Serves /\ Idle /\ log[Current] = request
    BY AtWork
<1>2. /\ Hears(<<Plain(tag)>>, <<tag>>, 0, Unheard.cols, 0)
      /\ <<Plain(tag)>> \in Seq(ProperTo(Current))
    BY OnePlain DEF ProperTo
<1>3. Answer(Current, <<Plain(tag)>>) /\ <<Plain(tag)>> \in Seq(Replies)
    BY <1>1, <1>2, AnswerIs
<1> QED
    BY <1>1, <1>3, IdleFinish DEF PgInv

\* Parse replaces the statement of that name, on both sides,
LEMMA ParseStep ==
    ASSUME PgInv, Parse
    PROVE  PgInv'
<1>1. Serves /\ log[Current] = request /\ request.tag = "P" /\ pc = "act" /\ Known /\ Written
    BY AtWork DEF Parse, Serving, PgInv
<1>2. log' = log /\ portals' = portals /\ Finish(<<Plain("1")>>) /\ Current' = Current + 1
    BY <1>1, FinishCounts DEF Parse, Finish
<1>3. ExpectedTags(Current) = <<"1">> /\ "1" \in PlainTags
    BY <1>1, ExpectedIs DEF PlainTags
<1>4. \A name : /\ OfStatement(request, name) <=> name = request.name
                /\ ~OfPortal(request, name)
    BY <1>1 DEF OfStatement, OfPortal
<1>5. ASSUME NEW name \in Names
      PROVE  /\ SqlOfStatement(name, Current)' = Get(statements', name, EmptySql)
             /\ [sql |-> SqlOfPortal(name, Current), formats |-> FormatsOfPortal(name, Current)]' =
                    Get(portals', name, NoPortal)
    <2>1. /\ SqlOfStatement(name, Current)' =
                 IF name = request.name THEN request.sql ELSE Get(statements, name, EmptySql)
          /\ [sql |-> SqlOfPortal(name, Current), formats |-> FormatsOfPortal(name, Current)]' =
                 Get(portals, name, NoPortal)
        BY <1>1, <1>2, <1>4, KnownNext
    <2>2. Get(statements', name, EmptySql) =
              IF name = request.name THEN request.sql ELSE Get(statements, name, EmptySql)
        BY GetOf DEF Parse
    <2> QED
        BY <1>2, <2>1, <2>2
<1>6. Known'
    BY <1>5 DEF Known
<1> QED
    BY <1>1, <1>2, <1>3, <1>6, PlainAnswer

\* Bind takes the text the statement has now, on both sides,
LEMMA BindStep ==
    ASSUME PgInv, Bind
    PROVE  PgInv'
<1>1. Serves /\ log[Current] = request /\ request.tag = "B" /\ pc = "act" /\ Known /\ Written
    BY AtWork DEF Bind, Serving, PgInv
<1>2. /\ log' = log /\ statements' = statements /\ Finish(<<Plain("2")>>)
      /\ Current' = Current + 1
    BY <1>1, FinishCounts DEF Bind, Finish
<1>3. ExpectedTags(Current) = <<"2">> /\ "2" \in PlainTags
    BY <1>1, ExpectedIs DEF PlainTags
<1>4. \A name : /\ OfPortal(request, name) <=> name = request.portal
                /\ ~OfStatement(request, name)
    BY <1>1 DEF OfStatement, OfPortal
<1> DEFINE value == [sql |-> Get(statements, request.name, EmptySql), formats |-> request.formats]
<1> HIDE DEF value
<1>5. ASSUME NEW name \in Names
      PROVE  /\ SqlOfStatement(name, Current)' = Get(statements', name, EmptySql)
             /\ [sql |-> SqlOfPortal(name, Current), formats |-> FormatsOfPortal(name, Current)]' =
                    Get(portals', name, NoPortal)
    <2>1. /\ SqlOfStatement(name, Current)' = Get(statements, name, EmptySql)
          /\ [sql |-> SqlOfPortal(name, Current), formats |-> FormatsOfPortal(name, Current)]' =
                 IF name = request.portal THEN value ELSE Get(portals, name, NoPortal)
        BY <1>1, <1>2, <1>4, KnownNext DEF value
    <2>2. portals' = Put(portals, request.portal, value)
        BY DEF Bind, value
    <2>3. Get(portals', name, NoPortal) =
              IF name = request.portal THEN value ELSE Get(portals, name, NoPortal)
        BY <2>2, GetOf
    <2> QED
        BY <1>2, <2>1, <2>3
<1>6. Known'
    BY <1>5 DEF Known
<1> QED
    BY <1>1, <1>2, <1>3, <1>6, PlainAnswer

\* CloseName forgets the one of that kind, on both sides.
LEMMA CloseStep ==
    ASSUME PgInv, CloseName
    PROVE  PgInv'
<1>1. /\ Serves /\ log[Current] = request /\ request.tag = "C" /\ pc = "act" /\ Known /\ Written
      /\ request.kind \in {"S", "P"}
    <2>1. /\ Serves /\ log[Current] = request /\ request.tag = "C"
          /\ pc = "act" /\ request \in Requests
        BY AtWork DEF CloseName, Serving
    <2>2. request.kind \in {"S", "P"}
        BY <2>1, RequestKinds
    <2> QED
        BY <2>1, <2>2 DEF PgInv
<1>2. log' = log /\ Finish(<<Plain("3")>>) /\ Current' = Current + 1
    BY <1>1, FinishCounts DEF CloseName, Finish
<1>3. ExpectedTags(Current) = <<"3">> /\ "3" \in PlainTags
    BY <1>1, ExpectedIs DEF PlainTags
<1>4. \A name : /\ OfStatement(request, name) <=> (request.kind = "S" /\ name = request.name)
                /\ OfPortal(request, name) <=> (request.kind = "P" /\ name = request.name)
    BY <1>1 DEF OfStatement, OfPortal
<1>5. ASSUME NEW name \in Names
      PROVE  /\ SqlOfStatement(name, Current)' = Get(statements', name, EmptySql)
             /\ [sql |-> SqlOfPortal(name, Current), formats |-> FormatsOfPortal(name, Current)]' =
                    Get(portals', name, NoPortal)
    <2>1. /\ SqlOfStatement(name, Current)' =
                 IF request.kind = "S" /\ name = request.name THEN EmptySql
                 ELSE Get(statements, name, EmptySql)
          /\ [sql |-> SqlOfPortal(name, Current), formats |-> FormatsOfPortal(name, Current)]' =
                 IF request.kind = "P" /\ name = request.name THEN NoPortal
                 ELSE Get(portals, name, NoPortal)
        <3> HIDE DEF Get, NoPortal
        <3> QED
            BY <1>1, <1>2, <1>4, KnownNext
    <2>2. CASE request.kind = "S"
        <3>1. statements' = Without(statements, request.name) /\ portals' = portals
            BY <2>2 DEF CloseName
        <3>2. Get(statements', name, EmptySql) =
                  IF name = request.name THEN EmptySql ELSE Get(statements, name, EmptySql)
            BY <3>1, GetOf
        <3> QED
            BY <2>1, <2>2, <3>1, <3>2
    <2>3. CASE request.kind = "P"
        <3>1. portals' = Without(portals, request.name) /\ statements' = statements
            BY <2>3 DEF CloseName
        <3>2. Get(portals', name, NoPortal) =
                  IF name = request.name THEN NoPortal ELSE Get(portals, name, NoPortal)
            BY <3>1, GetOf
        <3> QED
            BY <2>1, <2>3, <3>1, <3>2
    <2> QED
        BY <1>1, <2>2, <2>3
<1>6. Known'
    BY <1>5 DEF Known
<1> QED
    BY <1>1, <1>2, <1>3, <1>6, PlainAnswer

\* Sync answers ReadyForQuery,
LEMMA SyncStep ==
    ASSUME PgInv, Sync
    PROVE  PgInv'
<1>1. Serves /\ log[Current] = request /\ request.tag = "S" /\ pc = "act" /\ Known /\ Written
    BY AtWork DEF Sync, Serving, PgInv
<1>2. log' = log /\ Finish(<<Plain("Z")>>) /\ Current' = Current + 1
    BY <1>1, FinishCounts DEF Sync, Finish
<1>3. ExpectedTags(Current) = <<"Z">> /\ "Z" \in PlainTags
    BY <1>1, ExpectedIs DEF PlainTags
<1>4. Known'
    BY <1>1, <1>2, KnownSame DEF Sync
<1> QED
    BY <1>1, <1>2, <1>3, <1>4, PlainAnswer

\* Flush nothing.
LEMMA FlushStep ==
    ASSUME PgInv, Flush
    PROVE  PgInv'
<1>1. /\ Serves /\ log[Current] = request /\ request.tag = "H" /\ pc = "act" /\ Known /\ Written
      /\ Answered /\ Idle
    BY AtWork DEF Flush, Serving, PgInv
<1>2. log' = log /\ Finish(<<>>) /\ Current' = Current + 1
    BY <1>1, FinishCounts DEF Flush, Finish
<1>3. ExpectedTags(Current) = <<>>
    BY <1>1, ExpectedIs
<1>4. Known'
    BY <1>1, <1>2, KnownSame DEF Flush
<1>5. Hears(<<>>, <<>>, 0, Unheard.cols, 0) /\ <<>> \in Seq(ProperTo(Current))
    BY HearsNothing
<1>6. Answer(Current, <<>>) /\ <<>> \in Seq(Replies)
    BY <1>3, <1>5, AnswerIs
<1> QED
    BY <1>1, <1>2, <1>4, <1>6, IdleFinish

----------------------------------------------------------------------------
\* Within a request what it asks for is the same.
LEMMA StillAsked ==
    ASSUME log' = log, ends' = ends
    PROVE  /\ Current' = Current /\ Asked(Current)' = Asked(Current)
           /\ AskedFormats(Current)' = AskedFormats(Current)
           /\ log[Current]' = log[Current] /\ ProperTo(Current)' = ProperTo(Current)
<1>1. Current' = Current /\ log[Current]' = log[Current]
    BY DEF Current
<1>2. Asked(Current)' = Asked(Current)
    BY DEF Current, Asked, SqlOfPortal, DescribedSql, SqlOfStatement, BindOfPortal
<1>3. AskedFormats(Current)' = AskedFormats(Current)
    BY DEF Current, AskedFormats, FormatsOfPortal, BindOfPortal
<1>4. ProperTo(Current)' = ProperTo(Current)
    BY <1>1, <1>2, <1>3 DEF ProperTo
<1> QED
    BY <1>1, <1>2, <1>3, <1>4

\* The answer to a Describe announces the binary columns of its text.
LEMMA DescribeAnswer ==
    ASSUME NEW r, NEW sql \in Texts, r.tag = "D"
    PROVE  LET parameters == IF r.kind = "S" THEN <<Plain("t")>> ELSE <<>>
               rows == IF IsSelect(sql)
                       THEN RowDescription(Binarize(ResolveCols(sql))) ELSE Plain("n")
               tags == (IF r.kind = "S" THEN <<"t">> ELSE <<>>)
                       \o (IF IsSelect(sql) THEN <<"T">> ELSE <<"n">>)
           IN  /\ Append(parameters, rows) \in Seq(Proper(r, sql, <<>>))
               /\ \E cols : Hears(Append(parameters, rows), tags, 0, cols, 0)
<1> DEFINE pre == IF r.kind = "S" THEN <<Plain("t")>> ELSE <<>>
           own == Binarize(ResolveCols(sql))
           x == IF IsSelect(sql) THEN RowDescription(own) ELSE Plain("n")
           P == Proper(r, sql, <<>>)
           before == IF r.kind = "S" THEN <<"t">> ELSE <<>>
           tag == IF IsSelect(sql) THEN "T" ELSE "n"
           cols == IF IsSelect(sql) THEN own ELSE Unheard.cols
<1>0. "t" \in PlainTags /\ "n" \in PlainTags /\ own \in Columns
    BY ColumnsOf DEF PlainTags
<1>1. pre \in Seq(P) /\ Hears(pre, before, 0, Unheard.cols, 0)
    <2>1. CASE r.kind = "S"
        BY <1>0, <2>1, OnePlain
    <2>2. CASE r.kind # "S"
        BY <2>2, HearsNothing
    <2> QED
        BY <2>1, <2>2
<1>2. x \in P
    BY <1>0, ProperOnes
<1>3. Hears(Plus(pre, x), Plus(before, tag), 0, cols, 0)
    <2> HIDE DEF pre, before
    <2>1. CASE IsSelect(sql)
        BY <1>0, <1>1, <2>1, SayDescription
    <2>2. CASE ~IsSelect(sql)
        BY <1>0, <1>1, <2>2, SayPlain
    <2> QED
        BY <2>1, <2>2
<1>4. Plus(before, tag) = before \o (IF IsSelect(sql) THEN <<"T">> ELSE <<"n">>)
    <2>1. before \in Seq({"t"})
        <3>1. <<>> \in Seq({"t"}) /\ <<"t">> \in Seq({"t"})
            OBVIOUS
        <3>2. before = <<>> \/ before = <<"t">>
            OBVIOUS
        <3> QED
            BY <3>1, <3>2
    <2> HIDE DEF before
    <2>2. before \o <<tag>> = Append(before, tag)
        BY <2>1
    <2> QED
        BY <2>2 DEF Plus
<1> HIDE DEF P, x
<1>5. Append(pre, x) \in Seq(P)
    <2> HIDE DEF pre
    <2> QED
        BY <1>1, <1>2
<1> QED
    BY <1>3, <1>4, <1>5 DEF P, x, Plus

\* Describe answers for the text that the client means,
LEMMA DescribeStep ==
    ASSUME PgInv, Describe
    PROVE  PgInv'
<1>1. /\ Serves /\ log[Current] = request /\ request.tag = "D" /\ pc = "act" /\ Known /\ Written
      /\ Answered /\ Idle /\ request.kind \in {"S", "P"} /\ request.name \in Names
      /\ log \in Seq(Requests) /\ Current \in Nat /\ Current <= Len(log) + 1
    <2>1. /\ Serves /\ log[Current] = request /\ request.tag = "D" /\ pc = "act"
          /\ request \in Requests /\ Idle
          /\ log \in Seq(Requests) /\ Current \in Nat /\ Current <= Len(log)
        BY AtWork DEF Describe, Serving
    <2>2. request.kind \in {"S", "P"} /\ request.name \in Names
        BY <2>1, RequestKinds
    <2>3. Current <= Len(log) + 1
        BY <2>1
    <2> QED
        BY <2>1, <2>2, <2>3 DEF PgInv
<1>2. Described = DescribedSql(Current)
    BY <1>1 DEF Described, DescribedSql, Known
<1>3. DescribedSql(Current) \in Texts
    BY <1>1, NamesStandFor DEF DescribedSql
<1> DEFINE sql == DescribedSql(Current)
           pre == IF request.kind = "S" THEN <<Plain("t")>> ELSE <<>>
           x == IF IsSelect(sql) THEN RowDescription(Binarize(ResolveCols(sql))) ELSE Plain("n")
           s == Append(pre, x)
<1>4. log' = log /\ Finish(s)
    BY <1>2 DEF Describe
<1>5. Current' = Current + 1
    BY <1>1, <1>4, FinishCounts DEF Finish
<1>6. ProperTo(Current) = Proper(request, sql, <<>>)
    BY <1>1 DEF ProperTo, Asked, AskedFormats
<1>7. ExpectedTags(Current) = (IF request.kind = "S" THEN <<"t">> ELSE <<>>)
                              \o (IF IsSelect(sql) THEN <<"T">> ELSE <<"n">>)
    BY <1>1, ExpectedIs
<1> HIDE DEF sql
<1>8. /\ s \in Seq(Proper(request, sql, <<>>))
      /\ \E cols : Hears(s, ExpectedTags(Current), 0, cols, 0)
    BY <1>1, <1>3, <1>7, DescribeAnswer DEF sql
<1> HIDE DEF s
<1>9. Answer(Current, s) /\ s \in Seq(Replies)
    BY <1>1, <1>6, <1>8, AnswerIs
<1>10. Known'
    BY <1>1, <1>4, <1>5, KnownSame DEF Describe
<1> QED
    BY <1>1, <1>4, <1>9, <1>10, IdleFinish

\* The portal that an Execute names.
LEMMA PortalIs ==
    ASSUME PgInv, pc \in {"haunt", "act", "stream"}, request.tag = "E"
    PROVE  /\ Portal = [sql |-> Asked(Current), formats |-> AskedFormats(Current)]
           /\ Asked(Current) \in Texts /\ AskedFormats(Current) \in Lists
           /\ ExpectedTags(Current) = DoneTags(Asked(Current))
           /\ ProperTo(Current) = Proper(request, Asked(Current), AskedFormats(Current))
           /\ request.budget \in Nat
<1>1. /\ log[Current] = request /\ request \in Requests /\ log \in Seq(Requests)
      /\ Current \in Nat /\ Current <= Len(log) + 1
    <2>1. /\ log[Current] = request /\ request \in Requests /\ log \in Seq(Requests)
          /\ Current \in Nat /\ Current <= Len(log)
        BY AtWork
    <2>2. Current <= Len(log) + 1
        BY <2>1
    <2> QED
        BY <2>1, <2>2
<1>2. request.portal \in Names /\ request.budget \in Nat
    BY <1>1, RequestKinds, SessionAssumption
<1>3. /\ Asked(Current) = SqlOfPortal(request.portal, Current)
      /\ AskedFormats(Current) = FormatsOfPortal(request.portal, Current)
    BY <1>1 DEF Asked, AskedFormats
<1>4. /\ SqlOfPortal(request.portal, Current) \in Texts
      /\ FormatsOfPortal(request.portal, Current) \in Lists
    BY <1>1, NamesStandFor
<1>5. Portal = [sql |-> Asked(Current), formats |-> AskedFormats(Current)]
    BY <1>2, <1>3 DEF Portal, PgInv, Known
<1>6. ExpectedTags(Current) = DoneTags(Asked(Current))
    BY <1>1, <1>3, ExpectedIs
<1>7. ProperTo(Current) = Proper(request, Asked(Current), AskedFormats(Current))
    BY <1>1 DEF ProperTo
<1> QED
    BY <1>2, <1>3, <1>4, <1>5, <1>6, <1>7

\* and Execute, not crushed, too.
LEMMA ExecuteStep ==
    ASSUME PgInv, Execute
    PROVE  PgInv'
<1>1. /\ Serves /\ log[Current] = request /\ request.tag = "E" /\ pc = "act" /\ Known /\ Written
      /\ Answered /\ Idle
    BY AtWork DEF Execute, Serving, PgInv
<1>2. PICK draw \in Band : Finish(ExecuteReplies(Portal, request.budget, draw))
    BY DEF Execute
<1> DEFINE s == ExecuteReplies(Portal, request.budget, draw)
<1>3. log' = log /\ Finish(s) /\ Current' = Current + 1
    BY <1>1, <1>2, FinishCounts DEF Execute, Finish
<1>4. /\ Portal = [sql |-> Asked(Current), formats |-> AskedFormats(Current)]
      /\ Asked(Current) \in Texts /\ AskedFormats(Current) \in Lists
      /\ ExpectedTags(Current) = DoneTags(Asked(Current))
      /\ ProperTo(Current) = Proper(request, Asked(Current), AskedFormats(Current))
      /\ request.budget \in Nat
    BY <1>1, PortalIs
<1>5. Portal.sql = Asked(Current) /\ Portal.formats = AskedFormats(Current)
    BY <1>4
<1>6. /\ s \in Seq(Proper(request, Portal.sql, Portal.formats))
      /\ \E cols, misfits : Hears(s, DoneTags(Portal.sql), 0, cols, misfits)
    <2>1. Portal.sql \in Texts /\ Portal.formats \in Lists
        BY <1>4, <1>5
    <2> QED
        BY <1>1, <1>4, <2>1, ExecuteAnswer
<1> HIDE DEF s
<1>7. PICK cols, misfits : Hears(s, ExpectedTags(Current), 0, cols, misfits)
    BY <1>4, <1>5, <1>6
<1>8. s \in Seq(ProperTo(Current))
    BY <1>4, <1>5, <1>6
<1>9. Answer(Current, s) /\ s \in Seq(Replies)
    BY <1>1, <1>7, <1>8, AnswerIs
<1>10. Known'
    BY <1>1, <1>3, KnownSame DEF Execute
<1> QED
    BY <1>1, <1>3, <1>9, <1>10, IdleFinish

----------------------------------------------------------------------------
\* The state when a write has not ended an answer.
LEMMA StillServes ==
    ASSUME Serves, log' = log, ends' = ends, request' = request
    PROVE  Serves' /\ Current' = Current
BY DEF Serves, Current

\* Receive begins an answer.
LEMMA ReceiveStep ==
    ASSUME PgInv, Receive
    PROVE  PgInv'
<1>1. PICK r \in Requests :
          /\ request' = r /\ log' = Append(log, r)
          /\ todo' = IF r.tag = "Q" THEN r.stmts ELSE <<>>
          /\ pc' = IF Ghosts # {} /\ r.tag \in {"Q", "E"} THEN "haunt" ELSE "act"
    BY DEF Receive
<1>2. /\ pc = "ready" /\ UNCHANGED <<statements, portals, out, stream, wire, ends>>
      /\ Written /\ Answered /\ Known
    BY DEF Receive, PgInv
<1>3. Len(log) = Len(ends) /\ Idle /\ log \in Seq(Requests) /\ wire \in Seq(Replies)
    BY <1>2 DEF PgInv, Doing, Written
<1>4. Current \in Nat \ {0} /\ Current = Len(log) + 1 /\ Current' = Current /\ Len(log) \in Nat
    BY <1>2, <1>3, BeginIs DEF Current
<1>5. /\ log' \in Seq(Requests) /\ Len(log') = Len(log) + 1 /\ log'[Current] = r
      /\ \A k \in 1 .. Len(log) : log'[k] = log[k]
    BY <1>1, <1>3, <1>4
<1>6. Written'
    <2>1. \A i \in 1 .. Len(ends) : Begin(i)' = Begin(i)
        BY <1>2 DEF Begin
    <2>2. Len(ends) <= Len(log')
        BY <1>3, <1>4, <1>5
    <2> QED
        BY <1>2, <1>5, <2>1, <2>2 DEF Written
<1>7. Answered'
    <2>1. EndsGrow /\ LogGrows /\ <<>> \in Seq(Replies) /\ wire' = Joined(wire, <<>>)
        BY <1>1, <1>2, <1>3, JoinNone DEF EndsGrow, LogGrows
    <2>2. \A i \in 1 .. Len(ends) : Answer(i, Segment(i))'
        BY <1>2, <2>1, OldAnswers
    <2> QED
        BY <1>2, <2>2 DEF Answered
<1>8. Known'
    <2>1. PICK c : c = Current
        OBVIOUS
    <2>2. ASSUME NEW name \in Names
          PROVE  /\ SqlOfStatement(name, Current)' = SqlOfStatement(name, Current)
                 /\ SqlOfPortal(name, Current)' = SqlOfPortal(name, Current)
                 /\ FormatsOfPortal(name, Current)' = FormatsOfPortal(name, Current)
        <3>1. c \in Nat /\ c <= Len(log) + 1 /\ \A k \in 1 .. c - 1 : log'[k] = log[k]
            BY <1>4, <1>5, <2>1
        <3>2. /\ SqlOfStatement(name, c)' = SqlOfStatement(name, c)
              /\ SqlOfPortal(name, c)' = SqlOfPortal(name, c)
              /\ FormatsOfPortal(name, c)' = FormatsOfPortal(name, c)
            BY <1>3, <3>1, NamesKept
        <3>3. /\ SqlOfStatement(name, Current)' = SqlOfStatement(name, c)'
              /\ SqlOfPortal(name, Current)' = SqlOfPortal(name, c)'
              /\ FormatsOfPortal(name, Current)' = FormatsOfPortal(name, c)'
            BY <1>4, <2>1 DEF SqlOfStatement, SqlOfPortal, FormatsOfPortal, BindOfPortal
        <3> QED
            BY <2>1, <3>2, <3>3
    <2> QED
        BY <1>2, <2>2 DEF Known
<1>9. Doing'
    <2>1. Serves'
        BY <1>1, <1>4, <1>5 DEF Serves
    <2>2. Pending' = Pending
        BY <1>2, <1>4 DEF Pending, Begin
    <2>3. Idle'
        BY <1>2, <1>3, <2>2 DEF Idle
    <2>4. Pending' = <<>>
        BY <1>3, <2>2 DEF Idle
    <2>5. CASE r.tag = "Q"
        <3>1. Acting(r, r.stmts, <<>>)
            BY <2>5, ActBegins
        <3>2. Acting(request, todo, Pending)'
            BY <1>1, <2>4, <2>5, <3>1 DEF Acting
        <3> QED
            BY <1>1, <2>1, <2>3, <2>5, <3>2 DEF Doing
    <2>6. CASE r.tag # "Q"
        BY <1>1, <2>1, <2>3, <2>6 DEF Doing
    <2> QED
        BY <2>5, <2>6
<1> QED
    BY <1>6, <1>7, <1>8, <1>9 DEF PgInv

\* Nothing of the answers changes.
LEMMA QuietStep ==
    ASSUME PgInv, UNCHANGED <<request, todo, statements, portals, out, stream, wire, log, ends>>,
           Doing'
    PROVE  PgInv'
<1>1. Written'
    BY DEF PgInv, Written, Begin
<1>2. Answered'
    <2>1. EndsGrow /\ LogGrows /\ <<>> \in Seq(Replies) /\ wire' = Joined(wire, <<>>)
        BY JoinNone DEF PgInv, Written, EndsGrow, LogGrows
    <2>2. \A i \in 1 .. Len(ends) : Answer(i, Segment(i))'
        BY <2>1, OldAnswers DEF PgInv
    <2> QED
        BY <2>2 DEF Answered
<1>3. Known'
    BY KnownStill DEF PgInv, Current
<1> QED
    BY <1>1, <1>2, <1>3 DEF PgInv

\* A ghost that only delays or drops, and Terminate, say nothing.
LEMMA PassStep ==
    ASSUME PgInv, GhostPass \/ GhostDrop \/ Terminate
    PROVE  PgInv'
<1>1. UNCHANGED <<request, todo, statements, portals, out, stream, wire, log, ends>>
    BY DEF GhostPass, GhostDrop, Terminate
<1>2. CASE GhostDrop \/ Terminate
    <2>1. Doing'
        BY <1>2 DEF GhostDrop, Terminate, Doing
    <2> QED
        BY <1>1, <2>1, QuietStep
<1>3. CASE GhostPass
    <2>1. pc = "haunt" /\ pc' = "act"
        BY <1>3 DEF GhostPass
    <2>2. /\ Serves /\ Idle /\ request \in Requests
          /\ request.tag = "Q" => todo = request.stmts
        BY <2>1, AtWork
    <2>3. Serves'
        BY <1>1, <2>2, StillServes
    <2>4. Pending' = Pending
        BY <1>1 DEF Pending, Current, Begin
    <2>5. Idle'
        BY <1>1, <2>2, <2>4 DEF Idle
    <2>6. request.tag = "Q" => Acting(request, todo, Pending)'
        <3> SUFFICES ASSUME request.tag = "Q" PROVE Acting(request, todo, Pending)'
            OBVIOUS
        <3>1. Acting(request, request.stmts, <<>>)
            BY <2>2, ActBegins
        <3>2. todo' = request.stmts /\ request' = request /\ Pending' = <<>>
            BY <1>1, <2>2, <2>4 DEF Idle
        <3> QED
            BY <3>1, <3>2 DEF Acting
    <2>7. Doing'
        BY <1>1, <2>1, <2>3, <2>5, <2>6 DEF Doing
    <2> QED
        BY <1>1, <2>7, QuietStep
<1> QED
    BY <1>2, <1>3

\* A ghost error is a whole answer.
LEMMA GhostStep ==
    ASSUME PgInv, GhostError
    PROVE  PgInv'
<1>1. /\ pc = "haunt" /\ Serves /\ Idle /\ log[Current] = request /\ request.tag \in {"Q", "E"}
      /\ Written /\ Answered /\ Known
    BY AtWork DEF GhostError, PgInv
<1> DEFINE s == IF request.tag = "Q" THEN <<Plain("E"), Plain("Z")>> ELSE <<Plain("E")>>
<1>2. log' = log /\ Finish(s) /\ Current' = Current + 1 /\ "error" \in Ghosts
    BY <1>1, FinishCounts DEF GhostError, Finish
<1>3. s = HauntedReplies(Current)
    BY <1>1 DEF HauntedReplies
<1>4. /\ s \in Seq(ProperTo(Current))
      /\ \E tags : Hears(s, tags, 0, Unheard.cols, 0)
    <2>1. "E" \in PlainTags /\ "Z" \in PlainTags
        BY DEF PlainTags
    <2>2. CASE request.tag = "Q"
        BY <2>1, <2>2, TwoPlain DEF ProperTo
    <2>3. CASE request.tag # "Q"
        BY <2>1, <2>3, OnePlain DEF ProperTo
    <2> QED
        BY <2>2, <2>3
<1> HIDE DEF s
<1>5. Answer(Current, s) /\ s \in Seq(Replies)
    BY <1>1, <1>2, <1>3, <1>4, AnswerIs
<1>6. Known'
    BY <1>1, <1>2, KnownSame DEF GhostError
<1> QED
    BY <1>1, <1>2, <1>5, <1>6, IdleFinish

----------------------------------------------------------------------------
\* What is known does not change while a request is served.
LEMMA ServingStep ==
    ASSUME PgInv, UNCHANGED <<request, statements, portals, log, ends>>, Serves,
           NEW more \in Seq(Replies),
           \/ wire' = wire /\ out' = Joined(out, more)
           \/ wire' = Joined(Joined(wire, out), more) /\ out' = <<>>
           \/ wire' = Joined(wire, more) /\ out = <<>> /\ out' = out
    PROVE  /\ Written' /\ Answered' /\ Known' /\ Serves' /\ Current' = Current
           /\ Pending' = Joined(Pending, more) /\ Pending \in Seq(Replies)
<1>1. Written /\ Answered /\ Known
    BY DEF PgInv
<1>2. Written' /\ Answered'
    BY <1>1, WriteKeeps
<1>3. Serves' /\ Current' = Current
    BY StillServes
<1>4. Known'
    BY <1>1, <1>3, KnownStill
<1>5. Pending' = Joined(Pending, more) /\ Pending \in Seq(Replies)
    BY <1>1, PendingGrows
<1> QED
    BY <1>2, <1>3, <1>4, <1>5

\* AnswerStatement adds the answer of one statement to the buffer.
LEMMA StatementStep ==
    ASSUME PgInv, AnswerStatement
    PROVE  PgInv'
<1>1. /\ pc = "act" /\ request.tag = "Q" /\ Serves /\ Acting(request, todo, Pending)
      /\ todo # <<>>
    BY AtWork DEF AnswerStatement, Serving
<1>2. PICK draw \in Band : out' = out \o NormalReplies(Head(todo), draw)
    BY DEF AnswerStatement
<1> DEFINE t == NormalReplies(Head(todo), draw)
<1>3. t \in Seq(Replies) /\ Acting(request, Tail(todo), Joined(Pending, t))
    BY <1>1, ActAnswers
<1>4. out' = Joined(out, t)
    BY <1>2 DEF Joined
<1>5. /\ UNCHANGED <<request, statements, portals, log, ends>> /\ wire' = wire
      /\ todo' = Tail(todo) /\ pc' = "act"
    BY <1>1 DEF AnswerStatement
<1> HIDE DEF t
<1>6. /\ Written' /\ Answered' /\ Known' /\ Serves' /\ Current' = Current
      /\ Pending' = Joined(Pending, t) /\ Pending \in Seq(Replies)
    BY <1>1, <1>3, <1>4, <1>5, ServingStep
<1>7. Acting(request, todo, Pending)'
    BY <1>3, <1>5, <1>6 DEF Acting
<1> QED
    BY <1>1, <1>5, <1>6, <1>7 DEF PgInv, Doing

\* FinishQuery: all the statements are done, ReadyForQuery follows.
LEMMA QueryEnds ==
    ASSUME PgInv, FinishQuery
    PROVE  PgInv'
<1>1. /\ pc = "act" /\ request.tag = "Q" /\ Serves /\ Acting(request, todo, Pending)
      /\ log[Current] = request /\ Written /\ Answered /\ Known /\ todo = <<>>
    BY AtWork DEF FinishQuery, Serving, PgInv
<1> DEFINE s == IF request.stmts = <<>> THEN <<Plain("I"), Plain("Z")>> ELSE <<Plain("Z")>>
<1>2. log' = log /\ Finish(s) /\ Current' = Current + 1
    BY <1>1, FinishCounts DEF FinishQuery, Finish
<1>3. PICK done, cols :
          Split(request.stmts, done, todo) /\ Hears(Pending, AnswerTags(done), 0, cols, 0)
    BY <1>1 DEF Acting
<1>4. done \in Seq(Texts) /\ request.stmts = done
    <2>1. done \in Seq(Texts) /\ request.stmts = done \o <<>>
        BY <1>1, <1>3 DEF Split
    <2> HIDE DEF Texts
    <2> QED
        BY <2>1
<1>5. AnswerTags(done) \in Seq(Tags)
    BY <1>4, AnswerTagsIsFold
<1>6. "I" \in PlainTags /\ "Z" \in PlainTags /\ "I" \in Tags /\ "Z" \in Tags
    BY DEF PlainTags, Tags
<1> DEFINE P == ProperTo(Current)
<1>7. P = Proper(request, EmptySql, <<>>) /\ Pending \in Seq(P) /\ Pending \in Seq(Replies)
    BY <1>1, <1>3 DEF ProperTo, Asked, AskedFormats, Acting, Hears
<1>8. Plain("I") \in P /\ Plain("Z") \in P /\ Plain("I") \in Replies /\ Plain("Z") \in Replies
    <2>1. Plain("I") \in P /\ Plain("Z") \in P
        BY <1>6, <1>7, ProperOnes
    <2> QED
        BY <1>6, <2>1, PlainIs
<1>9. ExpectedTags(Current) =
          (IF request.stmts = <<>> THEN <<"I">> ELSE AnswerTags(request.stmts)) \o <<"Z">>
    BY <1>1, ExpectedIs
<1> HIDE DEF P
<1>10. CASE request.stmts = <<>>
    <2>1. AnswerTags(done) = <<>>
        BY <1>4, <1>10, AnswerTagsOfNone
    <2>2. Hears(Plus(Pending, Plain("I")), Plus(AnswerTags(done), "I"), 0, cols, 0)
        BY <1>3, <1>6, SayPlain
    <2>3. Hears(Plus(Plus(Pending, Plain("I")), Plain("Z")),
                Plus(Plus(AnswerTags(done), "I"), "Z"), 0, cols, 0)
        BY <1>6, <2>2, SayPlain
    <2>4. Joined(Pending, s) = Plus(Plus(Pending, Plain("I")), Plain("Z")) /\ s \in Seq(Replies)
        BY <1>7, <1>8, <1>10, PlusTwo
    <2>5. Plus(Plus(AnswerTags(done), "I"), "Z") = ExpectedTags(Current)
        <3>1. Plus(<<>>, "I") = <<"I">> /\ Plus(<<"I">>, "Z") = <<"I">> \o <<"Z">>
            BY <1>5, <1>6, PlusTags
        <3> QED
            BY <1>9, <1>10, <2>1, <3>1
    <2>6. Plus(Plus(Pending, Plain("I")), Plain("Z")) \in Seq(P)
        <3>1. Plus(Pending, Plain("I")) \in Seq(P)
            BY <1>7, <1>8 DEF Plus
        <3> HIDE DEF Plus
        <3>2. Append(Plus(Pending, Plain("I")), Plain("Z")) \in Seq(P)
            BY <1>8, <3>1
        <3> QED
            BY <3>2 DEF Plus
    <2>7. Answer(Current, Joined(Pending, s))
        BY <2>3, <2>4, <2>5, <2>6, AnswerIs DEF P
    <2>8. Written' /\ Answered' /\ Doing'
        BY <1>1, <1>2, <2>4, <2>7, FinishKeeps
    <2>9. Known'
        BY <1>1, <1>2, KnownSame DEF FinishQuery
    <2> QED
        BY <2>8, <2>9 DEF PgInv
<1>11. CASE request.stmts # <<>>
    <2>1. Hears(Plus(Pending, Plain("Z")), Plus(AnswerTags(done), "Z"), 0, cols, 0)
        BY <1>3, <1>6, SayPlain
    <2>2. Joined(Pending, s) = Plus(Pending, Plain("Z")) /\ s \in Seq(Replies)
        BY <1>7, <1>8, <1>11, PlusIs
    <2>3. Plus(AnswerTags(done), "Z") = ExpectedTags(Current)
        <3>1. Plus(AnswerTags(done), "Z") = Joined(AnswerTags(done), <<"Z">>)
            BY <1>5, <1>6, PlusTags
        <3> QED
            BY <1>4, <1>9, <1>11, <3>1 DEF Joined
    <2>4. Plus(Pending, Plain("Z")) \in Seq(P)
        BY <1>7, <1>8 DEF Plus
    <2>5. Answer(Current, Joined(Pending, s))
        BY <2>1, <2>2, <2>3, <2>4, AnswerIs DEF P
    <2>6. Written' /\ Answered' /\ Doing'
        BY <1>1, <1>2, <2>2, <2>5, FinishKeeps
    <2>7. Known'
        BY <1>1, <1>2, KnownSame DEF FinishQuery
    <2> QED
        BY <2>6, <2>7 DEF PgInv
<1> QED
    BY <1>10, <1>11

\* CrushStatement flushes the buffer before its RowDescription,
LEMMA CrushStep ==
    ASSUME PgInv, CrushStatement
    PROVE  PgInv'
<1>1. /\ pc = "act" /\ request.tag = "Q" /\ Serves /\ Acting(request, todo, Pending)
      /\ todo # <<>> /\ MustCrush(Head(todo))
    BY AtWork DEF CrushStatement, Serving
<1> DEFINE own == CrushColumns(Head(todo))
           x == RowDescription(own)
           new == [cols |-> own, formats |-> <<>>, sent |-> 0]
<1>2. /\ own \in Columns /\ x \in Replies
      /\ Crushing(request, Tail(todo), Plus(Pending, x), own, 0)
    BY <1>1, ActCrushes
<1>3. /\ UNCHANGED <<request, statements, portals, log, ends>> /\ wire' = wire \o out \o <<x>>
      /\ todo' = Tail(todo) /\ pc' = "stream" /\ out' = <<>> /\ stream' = new
    BY DEF CrushStatement, StartStream
<1> HIDE DEF own, x
<1>4. new \in Streams /\ new.cols = own /\ new.sent = 0 /\ new.formats = <<>>
    <2>1. 0 \in 0 .. MaxRows
        BY SessionAssumption
    <2> QED
        BY <1>2, <2>1 DEF Streams, Lists
<1> HIDE DEF new
<1>5. <<x>> \in Seq(Replies) /\ wire' = Joined(Joined(wire, out), <<x>>)
    BY <1>2, <1>3 DEF Joined
<1>6. /\ Written' /\ Answered' /\ Known' /\ Serves' /\ Current' = Current
      /\ Pending' = Joined(Pending, <<x>>) /\ Pending \in Seq(Replies)
    BY <1>1, <1>3, <1>5, ServingStep
<1>7. Pending' = Plus(Pending, x)
    BY <1>2, <1>6, PlusIs
<1>8. StreamsQuery'
    BY <1>2, <1>3, <1>4, <1>7 DEF StreamsQuery
<1> QED
    BY <1>1, <1>3, <1>4, <1>6, <1>8 DEF PgInv, Doing

\* CrushPortal before its rows, which have no description.
LEMMA CrushPortalStep ==
    ASSUME PgInv, CrushPortal
    PROVE  PgInv'
<1>1. /\ pc = "act" /\ request.tag = "E" /\ Serves /\ Idle /\ MustCrush(Portal.sql)
    BY AtWork DEF CrushPortal, Serving
<1>2. /\ Portal = [sql |-> Asked(Current), formats |-> AskedFormats(Current)]
      /\ Asked(Current) \in Texts /\ AskedFormats(Current) \in Lists
    BY <1>1, PortalIs
<1>3. Portal.sql = Asked(Current) /\ Portal.formats = AskedFormats(Current)
    BY <1>2
<1> DEFINE own == Binarize(ResolveCols(Portal.sql))
           new == [cols |-> own, formats |-> Portal.formats, sent |-> 0]
<1>4. /\ UNCHANGED <<request, statements, portals, log, ends>> /\ wire' = wire \o out
      /\ pc' = "stream" /\ out' = <<>> /\ stream' = new
    BY DEF CrushPortal, StartStream
<1>5. own \in Columns /\ own = Binarize(ResolveCols(Asked(Current)))
    BY <1>2, <1>3, ColumnsOf
<1> HIDE DEF own
<1>6. new \in Streams /\ new.cols = own /\ new.sent = 0 /\ new.formats = AskedFormats(Current)
    <2>1. 0 \in 0 .. MaxRows
        BY SessionAssumption
    <2> QED
        BY <1>2, <1>3, <1>5, <2>1 DEF Streams
<1> HIDE DEF new
<1>7. IsSelect(Asked(Current))
    BY <1>1, <1>3 DEF MustCrush, CrushClass, Exempt, IsSelect
<1>8. wire' = Joined(Joined(wire, out), <<>>) /\ <<>> \in Seq(Replies) /\ Joined(<<>>, <<>>) = <<>>
    <2>1. wire \in Seq(Replies) /\ out \in Seq(Replies) /\ <<>> \in Seq(Replies)
        BY DEF PgInv, Written
    <2>2. Joined(wire, out) \in Seq(Replies)
        BY <2>1, JoinedIs DEF JoinedAs
    <2>3. Joined(<<>>, <<>>) = <<>>
        BY <2>1, JoinNone
    <2> QED
        BY <1>4, <2>1, <2>2, <2>3, JoinNone DEF Joined
<1>9. /\ Written' /\ Answered' /\ Known' /\ Serves' /\ Current' = Current
      /\ Pending' = Joined(Pending, <<>>)
    BY <1>1, <1>4, <1>8, ServingStep
<1>10. Pending' = <<>>
    BY <1>1, <1>8, <1>9 DEF Idle
<1>11. /\ Asked(Current)' = Asked(Current) /\ AskedFormats(Current)' = AskedFormats(Current)
       /\ ProperTo(Current)' = ProperTo(Current)
    BY <1>4, StillAsked
<1>12. Draining(ProperTo(Current), <<>>, 0)
    BY DrainBegins
<1>13. StreamsPortal'
    BY <1>4, <1>5, <1>6, <1>7, <1>10, <1>11, <1>12 DEF StreamsPortal
<1> QED
    BY <1>1, <1>4, <1>6, <1>9, <1>13 DEF PgInv, Doing

----------------------------------------------------------------------------
\* StreamChunk adds rows of the stream to the answer under way,
LEMMA ChunkStep ==
    ASSUME PgInv, StreamChunk
    PROVE  PgInv'
<1>1. /\ pc = "stream" /\ Serves /\ out = <<>> /\ stream \in Streams
      /\ \/ request.tag = "Q" /\ StreamsQuery
         \/ request.tag = "E" /\ StreamsPortal
    BY AtWork DEF StreamChunk
<1> DEFINE this == Least(Chunk, MaxRows - stream.sent)
           new == [stream EXCEPT !.sent = @ + this]
           t == DataRows(stream.cols, stream.formats, this)
<1>2. /\ UNCHANGED <<pc, request, todo, statements, portals, out, log, ends>>
      /\ wire' = Joined(wire, t) /\ stream' = new /\ stream.sent < MaxRows
    BY DEF StreamChunk, Joined
<1>3. /\ stream.cols \in Columns /\ stream.formats \in Lists
      /\ stream.sent \in 0 .. MaxRows
    BY <1>1 DEF Streams
<1>4. this \in Nat /\ stream.sent + this \in 0 .. MaxRows
    BY <1>2, <1>3, SessionAssumption DEF Least
<1> HIDE DEF this
<1>5. /\ new \in Streams /\ new.cols = stream.cols /\ new.formats = stream.formats
      /\ new.sent = stream.sent + this
    <2> HIDE DEF Columns
    <2> QED
        BY <1>1, <1>4 DEF Streams
<1> HIDE DEF new
<1>6. CASE request.tag = "Q"
    <2>1. stream.formats = <<>> /\ Crushing(request, todo, Pending, stream.cols, stream.sent)
        BY <1>1, <1>6 DEF StreamsQuery
    <2>2. /\ t \in Seq(Replies)
          /\ Crushing(request, todo, Joined(Pending, t), stream.cols, stream.sent + this)
        BY <1>3, <1>4, <1>6, <2>1, CrushGoesOn
    <2> HIDE DEF t
    <2>3. /\ Written' /\ Answered' /\ Known' /\ Serves' /\ Current' = Current
          /\ Pending' = Joined(Pending, t)
        BY <1>1, <1>2, <2>2, ServingStep
    <2>4. StreamsQuery'
        BY <1>2, <1>5, <2>1, <2>2, <2>3 DEF StreamsQuery
    <2> QED
        BY <1>1, <1>2, <1>5, <1>6, <2>3, <2>4 DEF PgInv, Doing
<1>7. CASE request.tag = "E"
    <2>1. /\ IsSelect(Asked(Current)) /\ stream.formats = AskedFormats(Current)
          /\ stream.cols = Binarize(ResolveCols(Asked(Current)))
          /\ Draining(ProperTo(Current), Pending, stream.sent)
        BY <1>1, <1>7 DEF StreamsPortal
    <2>2. /\ Asked(Current) \in Texts /\ AskedFormats(Current) \in Lists
          /\ ProperTo(Current) = Proper(request, Asked(Current), AskedFormats(Current))
        BY <1>1, <1>7, PortalIs
    <2>3. t = DataRows(Binarize(ResolveCols(Asked(Current))), AskedFormats(Current), this)
        BY <2>1
    <2>4. /\ t \in Seq(Replies)
          /\ Draining(ProperTo(Current), Joined(Pending, t), stream.sent + this)
        <3> DEFINE sql == Asked(Current)
                   formats == AskedFormats(Current)
        <3>1. /\ sql \in Texts /\ formats \in Lists
              /\ ProperTo(Current) = Proper(request, sql, formats)
              /\ Draining(Proper(request, sql, formats), Pending, stream.sent)
            BY <2>1, <2>2
        <3>2. t = DataRows(Binarize(ResolveCols(sql)), formats, this)
            BY <2>3
        <3> HIDE DEF t, sql, formats
        <3>3. LET rows == DataRows(Binarize(ResolveCols(sql)), formats, this)
              IN  /\ rows \in Seq(Replies)
                  /\ Draining(Proper(request, sql, formats), Joined(Pending, rows),
                              stream.sent + this)
            BY <1>4, <1>7, <3>1, DrainGoesOn
        <3> QED
            BY <3>1, <3>2, <3>3
    <2> HIDE DEF t
    <2>5. /\ Written' /\ Answered' /\ Known' /\ Serves' /\ Current' = Current
          /\ Pending' = Joined(Pending, t)
        BY <1>1, <1>2, <2>4, ServingStep
    <2>6. /\ Asked(Current)' = Asked(Current) /\ AskedFormats(Current)' = AskedFormats(Current)
          /\ ProperTo(Current)' = ProperTo(Current)
        BY <1>2, StillAsked
    <2>7. StreamsPortal'
        BY <1>2, <1>5, <2>1, <2>4, <2>5, <2>6 DEF StreamsPortal
    <2> QED
        BY <1>1, <1>2, <1>5, <1>7, <2>5, <2>7 DEF PgInv, Doing
<1> QED
    BY <1>1, <1>6, <1>7

\* StreamTail its completion; a simple query goes on, an Execute ends.
LEMMA TailStep ==
    ASSUME PgInv, StreamTail
    PROVE  PgInv'
<1>1. /\ pc = "stream" /\ Serves /\ out = <<>> /\ stream \in Streams /\ log[Current] = request
      /\ \/ request.tag = "Q" /\ StreamsQuery
         \/ request.tag = "E" /\ StreamsPortal
      /\ Written /\ Answered /\ Known
    BY AtWork DEF StreamTail, PgInv
<1>2. UNCHANGED <<request, todo, statements, portals, log>>
    BY DEF StreamTail
<1>3. stream.sent \in Nat
    BY <1>1, SessionAssumption DEF Streams
<1> DEFINE x == CommandComplete(stream.sent)
<1>4. CASE request.tag = "Q"
    <2>1. wire' = Append(wire, x) /\ pc' = "act" /\ out' = out /\ ends' = ends
        BY <1>4 DEF StreamTail
    <2>2. x \in Replies /\ Acting(request, todo, Plus(Pending, x))
        BY <1>1, <1>3, <1>4, CrushIsAnswered DEF StreamsQuery
    <2> HIDE DEF x
    <2>3. <<x>> \in Seq(Replies) /\ wire' = Joined(wire, <<x>>)
        BY <1>1, <2>1, <2>2, PlusIs DEF Written, Plus
    <2>4. /\ Written' /\ Answered' /\ Known' /\ Serves' /\ Current' = Current
          /\ Pending' = Joined(Pending, <<x>>) /\ Pending \in Seq(Replies)
        BY <1>1, <1>2, <2>1, <2>3, ServingStep
    <2>5. Pending' = Plus(Pending, x)
        BY <2>2, <2>4, PlusIs
    <2>6. Acting(request, todo, Pending)'
        BY <1>2, <2>2, <2>5 DEF Acting
    <2> QED
        BY <1>2, <1>4, <2>1, <2>4, <2>6 DEF PgInv, Doing
<1>5. CASE request.tag = "E"
    <2>1. Finish(<<x>>) /\ Current' = Current + 1
        BY <1>1, <1>5, FinishCounts DEF StreamTail, Finish
    <2>2. /\ ExpectedTags(Current) = DoneTags(Asked(Current))
          /\ ProperTo(Current) = Proper(request, Asked(Current), AskedFormats(Current))
        BY <1>1, <1>5, PortalIs
    <2>3. IsSelect(Asked(Current)) /\ Draining(ProperTo(Current), Pending, stream.sent)
        BY <1>1, <1>5 DEF StreamsPortal
    <2>4. /\ <<x>> \in Seq(Replies) /\ Joined(Pending, <<x>>) \in Seq(ProperTo(Current))
          /\ \E cols, misfits :
                Hears(Joined(Pending, <<x>>), ExpectedTags(Current), 0, cols, misfits)
        BY <1>3, <2>2, <2>3, DrainIsAnswered
    <2> HIDE DEF x
    <2>5. Answer(Current, Joined(Pending, <<x>>))
        BY <1>1, <1>5, <2>4, AnswerIs
    <2>6. Written' /\ Answered' /\ Doing'
        BY <1>1, <1>2, <2>1, <2>4, <2>5, FinishKeeps
    <2>7. Known'
        BY <1>1, <1>2, <1>5, <2>1, KnownSame
    <2> QED
        BY <2>6, <2>7 DEF PgInv
<1> QED
    BY <1>1, <1>4, <1>5

\* The inductive invariant: what a client can compute from its requests is what
\* the maps of the server hold, every finished answer is whole and stays so, and
\* the replies to the current request, in the buffer or on the wire, are those of
\* the statements done so far.
THEOREM SessionInductive == Spec => []PgInv
<1>1. Init => PgInv
    <2> SUFFICES ASSUME Init PROVE PgInv
        OBVIOUS
    <2>1. /\ wire = <<>> /\ out = <<>> /\ log = <<>> /\ ends = <<>> /\ pc = "ready"
          /\ statements = <<>> /\ portals = <<>>
        BY DEF Init
    <2>2. Written
        <3>1. /\ <<>> \in Seq(Replies) /\ <<>> \in Seq(Requests) /\ <<>> \in Seq(Nat)
              /\ 1 .. Len(<<>>) = {} /\ Len(<<>>) <= Len(<<>>)
            OBVIOUS
        <3> HIDE DEF Requests, Replies
        <3> QED
            BY <2>1, <3>1, Zenon DEF Written
    <2>3. 1 .. Len(ends) = {} /\ Current = 1
        BY <2>1 DEF Current
    <2>4. Answered
        BY <2>3 DEF Answered
    <2>5. Known
        <3>1. ASSUME NEW name \in Names
              PROVE  /\ SqlOfStatement(name, 1) = EmptySql /\ BindOfPortal(name, 1) = 0
            <4>1. 1 .. 1 - 1 = {} /\ Latest({}) = 0
                BY DEF Latest
            <4> QED
                BY <4>1 DEF SqlOfStatement, BindOfPortal
        <3>2. ASSUME NEW name \in Names
              PROVE  SqlOfPortal(name, 1) = EmptySql /\ FormatsOfPortal(name, 1) = <<>>
            BY <3>1 DEF SqlOfPortal, FormatsOfPortal
        <3>3. \A name, default : Get(<<>>, name, default) = default
            BY DEF Get
        <3> HIDE DEF Get
        <3> QED
            BY <2>1, <2>3, <3>1, <3>2, <3>3 DEF Known, NoPortal
    <2>6. Doing
        <3>1. Begin(Current) = 0 /\ Len(wire) = 0 /\ Len(log) = Len(ends)
            BY <2>1, <2>3 DEF Begin
        <3>2. Slice(wire, 0, 0) = <<>>
            <4>1. wire \in Seq(Replies) /\ 0 \in Nat /\ 0 <= Len(wire)
                BY <2>2, <3>1 DEF Written
            <4> QED
                BY <4>1, SliceNone
        <3>3. Joined(<<>>, <<>>) = <<>>
            BY DEF Joined
        <3>4. Idle
            BY <2>1, <3>1, <3>2, <3>3 DEF Idle, Pending
        <3> QED
            BY <2>1, <3>1, <3>4 DEF Doing
    <2> QED
        BY <2>2, <2>4, <2>5, <2>6 DEF PgInv
<1>2. PgInv /\ [Next]_vars => PgInv'
    <2> SUFFICES ASSUME PgInv, [Next]_vars PROVE PgInv'
        OBVIOUS
    <2>1. CASE UNCHANGED vars
        <3>1. /\ UNCHANGED <<request, todo, statements, portals, out, stream, wire, log, ends>>
              /\ pc' = pc
            BY <2>1 DEF vars
        <3>2. /\ Current' = Current /\ Pending' = Pending /\ Asked(Current)' = Asked(Current)
              /\ AskedFormats(Current)' = AskedFormats(Current)
              /\ ProperTo(Current)' = ProperTo(Current)
            BY <3>1, StillAsked DEF Pending, Begin, Current
        <3>3. Idle' = Idle /\ Serves' = Serves
            BY <3>1, <3>2 DEF Idle, Serves
        <3>4. /\ StreamsQuery' = StreamsQuery /\ StreamsPortal' = StreamsPortal
              /\ Acting(request, todo, Pending)' = Acting(request, todo, Pending)
            BY <3>1, <3>2 DEF StreamsQuery, StreamsPortal, Acting
        <3>5. Doing'
            BY <3>1, <3>3, <3>4 DEF PgInv, Doing
        <3> QED
            BY <3>1, <3>5, QuietStep
    <2>2. CASE Receive
        BY <2>2, ReceiveStep
    <2>3. CASE GhostPass \/ GhostDrop \/ Terminate
        BY <2>3, PassStep
    <2>4. CASE GhostError
        BY <2>4, GhostStep
    <2>5. CASE Parse
        BY <2>5, ParseStep
    <2>6. CASE Bind
        BY <2>6, BindStep
    <2>7. CASE Describe
        BY <2>7, DescribeStep
    <2>8. CASE CloseName
        BY <2>8, CloseStep
    <2>9. CASE Sync \/ Flush
        BY <2>9, SyncStep, FlushStep
    <2>10. CASE AnswerStatement
        BY <2>10, StatementStep
    <2>11. CASE FinishQuery
        BY <2>11, QueryEnds
    <2>12. CASE Execute
        BY <2>12, ExecuteStep
    <2>13. CASE CrushStatement
        BY <2>13, CrushStep
    <2>14. CASE CrushPortal
        BY <2>14, CrushPortalStep
    <2>15. CASE StreamChunk
        BY <2>15, ChunkStep
    <2>16. CASE StreamTail
        BY <2>16, TailStep
    <2> QED
        BY <2>1, <2>2, <2>3, <2>4, <2>5, <2>6, <2>7, <2>8, <2>9, <2>10, <2>11, <2>12, <2>13,
           <2>14, <2>15, <2>16 DEF Next, Serve
<1> QED
    BY <1>1, <1>2, PTL DEF Spec

\* What an answer is, in terms of the properties.
LEMMA AnswersAre ==
    ASSUME PgInv, NEW i \in Served
    PROVE  /\ i \in 1 .. Len(ends) /\ i \in Nat \ {0} /\ i <= Len(log) /\ log \in Seq(Requests)
           /\ log[i] \in Requests
           /\ Segment(i) \in Seq(ProperTo(i))
           /\ \A k \in DOMAIN Segment(i) : Segment(i)[k] \in ProperTo(i)
           /\ Heard(Segment(i)).miscounts = 0
           /\ log[i].tag = "Q" => Heard(Segment(i)).misfits = 0
           /\ \/ Heard(Segment(i)).tags = ExpectedTags(i)
              \/ /\ log[i].tag \in {"Q", "E"} /\ "error" \in Ghosts
                 /\ Segment(i) = HauntedReplies(i)
<1>1. ends \in Seq(Nat) /\ log \in Seq(Requests) /\ Len(ends) <= Len(log)
    BY DEF PgInv, Written
<1>2. i \in 1 .. Len(ends) /\ i \in Nat \ {0} /\ i <= Len(log) /\ i \in 1 .. Len(log)
    BY <1>1 DEF Served
<1>3. Answer(i, Segment(i))
    BY <1>2 DEF PgInv, Answered
<1> DEFINE s == Segment(i)
           P == ProperTo(i)
<1>4. PICK tags, rows, cols, misfits :
          /\ Hears(s, tags, rows, cols, misfits)
          /\ log[i].tag = "Q" => misfits = 0
          /\ \/ tags = ExpectedTags(i)
             \/ log[i].tag \in {"Q", "E"} /\ "error" \in Ghosts /\ s = HauntedReplies(i)
    BY <1>3 DEF Answer, Fits
<1>5. s \in Seq(P)
    BY <1>3 DEF Answer, Fits
<1>6. Heard(s).miscounts = 0 /\ Heard(s).misfits = misfits /\ Heard(s).tags = tags
    BY <1>4 DEF Hears, HearingAs
<1> HIDE DEF s, P
<1>7. \A k \in DOMAIN s : s[k] \in P
    BY <1>5
<1> QED
    BY <1>1, <1>2, <1>4, <1>5, <1>6, <1>7 DEF s, P

\* For every pipeline, every ghost and every crush: each request gets the replies
\* it is owed, in order, before the next one is looked at (handle,
\* respond_statement, execute_portal in pg.rs).
THEOREM RepliesMatch == Spec => []RepliesMatchRequests
<1>1. PgInv => RepliesMatchRequests
    BY AnswersAre DEF RepliesMatchRequests
<1> QED
    BY <1>1, SessionInductive, PTL

\* For every pipeline: a CommandComplete names the rows sent since the reply
\* before them, a crush stream with a short last chunk included (normal_response,
\* execute_portal, stream_rows in pg.rs).
THEOREM RowsAreCounted == Spec => []TagCountsRows
<1>1. PgInv => TagCountsRows
    BY AnswersAre DEF TagCountsRows
<1> QED
    BY <1>1, SessionInductive, PTL

\* A row for a list of formats is what the client means by the list.
LEMMA RowsAsAsked ==
    ASSUME NEW cols \in Columns, NEW formats \in Lists
    PROVE  AsAsked(RowFormats(cols, formats), formats)
<1> DEFINE row == RowFormats(cols, formats)
           w == WidthOf[cols.of]
           n == Len(formats)
<1>1. w \in Nat
    <2>1. cols.of \in Sqls \cup {EmptySql, "wide"}
        BY DEF Columns, Texts
    <2> QED
        BY <2>1, SessionAssumption
<1>2. formats \in Seq({"text", "binary"}) /\ n \in Nat
    <2>1. Formats \subseteq Seq({"text", "binary"})
        BY SessionAssumption
    <2>2. <<>> \in Seq({"text", "binary"})
        OBVIOUS
    <2>3. formats \in Seq({"text", "binary"})
        BY <2>1, <2>2, Zenon DEF Lists
    <2> QED
        BY <2>3
<1>3. /\ DOMAIN row = 1 .. w /\ \A i \in 1 .. w : row[i] = FormatFor(formats, i)
      /\ row = [i \in 1 .. w |-> FormatFor(formats, i)]
    BY DEF RowFormats
<1>4. Len(row) = w
    BY <1>1, <1>3
<1>5. CASE formats = <<>>
    <2>1. n = 0
        BY <1>5
    <2>2. \A i \in 1 .. w : row[i] = "text"
        BY <1>3, <2>1 DEF FormatFor
    <2> QED
        BY <1>3, <1>5, <2>1, <2>2 DEF AsAsked
<1>6. CASE n = 1
    <2>1. \A i \in 1 .. w : row[i] = formats[1]
        BY <1>3, <1>6 DEF FormatFor
    <2> QED
        BY <1>3, <1>6, <2>1 DEF AsAsked
<1>7. CASE n > 1
    <2>1. ASSUME n = w
          PROVE  row = formats
        <3>1. \A i \in 1 .. w : row[i] = formats[i]
            BY <1>2, <1>3, <1>7, <2>1 DEF FormatFor
        <3>2. formats = [i \in 1 .. w |-> formats[i]]
            BY <1>2, <2>1
        <3> HIDE DEF row
        <3>3. row = [i \in 1 .. w |-> row[i]]
            BY <1>3
        <3> QED
            BY <3>1, <3>2, <3>3, Zenon
    <2> QED
        BY <1>2, <1>4, <1>7, <2>1 DEF AsAsked
<1>8. n = 0 => formats = <<>>
    BY <1>2
<1> HIDE DEF n, row
<1> QED
    BY <1>2, <1>5, <1>6, <1>7, <1>8

\* For every pipeline: each column of the rows of an Execute has the format that
\* its Bind asked for, those of a simple query are text (execute_portal,
\* format_for and put_data_row_fmt in pg.rs).
THEOREM RowsInFormat == Spec => []RowsInAskedFormat
<1>1. PgInv => RowsInAskedFormat
    <2> SUFFICES ASSUME PgInv, NEW i \in Served, NEW k \in DOMAIN Segment(i),
                        Segment(i)[k].tag = "D"
                 PROVE  AsAsked(Segment(i)[k].formats,
                            IF log[i].tag = "Q" THEN <<>> ELSE FormatsOfPortal(log[i].portal, i))
        BY DEF RowsInAskedFormat
    <2>1. Segment(i)[k] \in Proper(log[i], Asked(i), AskedFormats(i))
        BY AnswersAre DEF ProperTo
    <2> DEFINE row == Segment(i)[k]
               formats == AskedFormats(i)
    <2> HIDE DEF row, formats
    <2>r. row \in Proper(log[i], Asked(i), formats) /\ row.tag = "D"
        BY <2>1 DEF row, formats
    <2>c. row \in Replies
        BY <2>r, ProperRow
    <2>2. /\ row.cols \in Columns
          /\ \/ log[i].tag = "Q" /\ row.formats = RowFormats(row.cols, <<>>)
             \/ log[i].tag = "E" /\ row.formats = RowFormats(row.cols, formats)
        <3>1. row.cols \in Columns
            BY <2>r, <2>c, ReplyKinds DEF PlainTags
        <3>2. \/ log[i].tag = "Q" /\ row.formats = RowFormats(row.cols, <<>>)
              \/ log[i].tag = "E" /\ row.formats = RowFormats(row.cols, formats)
            BY <2>r, ProperRow
        <3> QED
            BY <3>1, <3>2
    <2>3. formats \in Lists /\ <<>> \in Lists
        <3>1. i \in Nat /\ i <= Len(log) + 1 /\ log \in Seq(Requests)
            BY AnswersAre
        <3> QED
            BY <3>1, NamesStandFor DEF AskedFormats, Lists, formats
    <2>4. AsAsked(row.formats, IF log[i].tag = "Q" THEN <<>> ELSE formats)
        BY <2>2, <2>3, RowsAsAsked
    <2>5. log[i].tag # "Q" => formats = FormatsOfPortal(log[i].portal, i)
        BY <2>2 DEF AskedFormats, formats
    <2> QED
        BY <2>4, <2>5 DEF row
<1> QED
    BY <1>1, SessionInductive, PTL

\* For every pipeline: rows have the columns of the description that the client
\* holds for them, a Describe of the portal or of its statement however many
\* requests ago, crushed or not (execute_portal, binarize in pg.rs).
THEOREM RowsFit == Spec => []RowsFitDescription
<1>1. PgInv => RowsFitDescription
    <2> SUFFICES ASSUME PgInv, NEW i \in Served
                 PROVE  /\ log[i].tag = "Q" => Heard(Segment(i)).misfits = 0
                        /\ log[i].tag = "E" =>
                              \A j \in 1 .. i - 1 : DescribedBy(j, i) =>
                                  \A k \in DOMAIN Segment(j), l \in DOMAIN Segment(i) :
                                      Segment(j)[k].tag = "T" /\ Segment(i)[l].tag = "D" =>
                                          Segment(j)[k].cols = Segment(i)[l].cols
        BY DEF RowsFitDescription
    <2>1. log[i].tag = "Q" => Heard(Segment(i)).misfits = 0
        BY AnswersAre
    <2>2. ASSUME log[i].tag = "E", NEW j \in 1 .. i - 1, DescribedBy(j, i),
                 NEW k \in DOMAIN Segment(j), NEW l \in DOMAIN Segment(i),
                 Segment(j)[k].tag = "T", Segment(i)[l].tag = "D"
          PROVE  Segment(j)[k].cols = Segment(i)[l].cols
        <3> DEFINE portal == log[i].portal
        <3>1. /\ i \in 1 .. Len(ends) /\ i \in Nat \ {0} /\ i <= Len(log) /\ log \in Seq(Requests)
              /\ Segment(i)[l] \in ProperTo(i) /\ ends \in Seq(Nat)
            BY AnswersAre DEF PgInv, Written
        <3>2. j \in Served /\ i <= Len(log) + 1 /\ i \in Nat
            BY <2>2, <3>1 DEF Served
        <3>3. Segment(j)[k] \in ProperTo(j) /\ log[j].tag = "D"
            BY <2>2, <3>2, AnswersAre DEF DescribedBy
        <3>4. Segment(i)[l].cols = Binarize(ResolveCols(SqlOfPortal(portal, i)))
            <4>1. Segment(i)[l].cols = Binarize(ResolveCols(Asked(i)))
                BY <2>2, <3>1 DEF ProperTo, Proper
            <4> QED
                BY <2>2, <4>1 DEF Asked
        <3>5. Segment(j)[k].cols = Binarize(ResolveCols(DescribedSql(j)))
            <4>1. Segment(j)[k].cols = Binarize(ResolveCols(Asked(j)))
                BY <2>2, <3>3 DEF ProperTo, Proper
            <4> QED
                BY <3>3, <4>1 DEF Asked
        <3>6. DescribedSql(j) = SqlOfPortal(portal, i)
            <4> DEFINE bound == BindOfPortal(portal, i)
            <4>1. CASE log[j].kind = "P" /\ log[j].name = portal /\ 0 < bound /\ bound < j
                <5>1. bound \in 1 .. j - 1
                    <6>1. bound \in 0 .. i - 1 \/ bound = 0
                        BY <3>1, <3>2, NamesStandFor
                    <6> HIDE DEF bound
                    <6> QED
                        BY <3>1, <4>1, <6>1
                <5>2. SqlOfPortal(portal, j) = SqlOfPortal(portal, i)
                    BY <2>2, <3>1, <3>2, <5>1, BoundBefore
                <5> QED
                    BY <4>1, <5>2 DEF DescribedSql
            <4>2. CASE /\ log[j].kind = "S"
                       /\ SqlOfStatement(log[j].name, j) = SqlOfPortal(portal, i)
                BY <4>2 DEF DescribedSql
            <4> QED
                BY <2>2, <4>1, <4>2 DEF DescribedBy
        <3> QED
            BY <3>4, <3>5, <3>6
    <2> QED
        BY <2>1, <2>2
<1> QED
    BY <1>1, SessionInductive, PTL
=============================================================================
