------------------------ MODULE CrushRestraintProofs ------------------------
(***************************************************************************)
(* The verdicts of crush_class, for every LIMIT, budget and row band, and  *)
(* for every text of a query: QueryText implements CrushRestraint, so what *)
(* is proved of every shape holds of every text that is written for it.    *)
(* And the splitting of a batch, for every statement whose texts close all *)
(* they open: the contexts of the tokens and the pieces of a text are      *)
(* folds, a closed text leaves what follows it as it is alone, so one more *)
(* separator is one more piece.                                            *)
(***************************************************************************)
EXTENDS QueryText, Induction, SequenceTheorems, TLAPS

\* A query is rewritten, but stays one that extract can return.
Typed == shape \in Extracted /\ threshold \in Thresholds

\* The fields of a shape that extract can return.
LEMMA ExtractedFields ==
    ASSUME NEW s \in Extracted
    PROVE  /\ s.kind \in Kinds
           /\ s.table \in BOOLEAN /\ s.agg \in BOOLEAN /\ s.catalog \in BOOLEAN
           /\ s.star \in BOOLEAN /\ s.where \in BOOLEAN
           /\ s.limit \in Nat \cup {NoLimit}
           /\ s.star => ~s.agg
BY BoundsAssumption DEF Extracted, ShapesOver

\* No rewriting leads out of the shapes that extract returns.
THEOREM TypedInvariant == Spec => []Typed
<1>1. Init => Typed
    BY DEF Init, Typed
<1>2. Typed /\ [Next]_vars => Typed'
    <2> SUFFICES ASSUME Typed, [Next]_vars PROVE Typed'
        OBVIOUS
    <2> USE DEF Typed, Extracted, ShapesOver
    <2>1. CASE AddWhere
        BY <2>1 DEF AddWhere
    <2>2. CASE AddLimit
        BY <2>2 DEF AddLimit
    <2>3. CASE NameColumns
        BY <2>3 DEF NameColumns
    <2>4. CASE UNCHANGED vars
        BY <2>4 DEF vars
    <2> QED
        BY <2>1, <2>2, <2>3, <2>4 DEF Next
<1> QED
    BY <1>1, <1>2, PTL DEF Spec

\* Whatever all3 crushes, every other threshold crushes (AllThreeIsMildest).
THEOREM Mildest == Spec => []AllThreeIsMildest
<1>1. Typed => AllThreeIsMildest
    BY ExtractedFields
    DEF Typed, AllThreeIsMildest, CrushClass, Triggered, MissingSignals, Bit, Broad,
        NoWhere, Unlimited, Thresholds
<1> QED
    BY <1>1, TypedInvariant, PTL

\* Two missing signals are never overlooked, three restraints never held
\* against a query (SignalsAreNoticed).
THEOREM Noticed == Spec => []SignalsAreNoticed
<1>1. Typed => SignalsAreNoticed
    BY ExtractedFields
    DEF Typed, SignalsAreNoticed, CrushClass, Triggered, Exempt, MissingSignals, Bit, Broad,
        NoWhere, Unlimited, Thresholds
<1> QED
    BY <1>1, TypedInvariant, PTL

\* A restraint added to a query never makes the verdict on it worse
\* (RestraintNeverEscalates).
THEOREM RestraintPays == Spec => RestraintNeverEscalates
<1>1. ASSUME Typed, Next
      PROVE  Severity(CrushClass(shape', threshold')) <= Severity(CrushClass(shape, threshold))
    <2>0. /\ threshold' = threshold
          /\ shape \in Extracted
        BY <1>1 DEF Typed, Next, AddWhere, AddLimit, NameColumns
    <2> USE ExtractedFields, <2>0
        DEF Severity, CrushClass, Triggered, MissingSignals, Bit, Broad, NoWhere,
            Unlimited, Exempt, Extracted, ShapesOver
    <2>1. CASE AddWhere
        BY <2>1 DEF AddWhere
    <2>2. CASE AddLimit
        BY <2>2, NoLimitAssumption, BoundsAssumption DEF AddLimit
    <2>3. CASE NameColumns
        BY <2>3 DEF NameColumns
    <2> QED
        BY <1>1, <2>1, <2>2, <2>3 DEF Next
<1>2. Typed /\ [Next]_vars
        => [Severity(CrushClass(shape', threshold'))
              <= Severity(CrushClass(shape, threshold))]_vars
    BY <1>1
<1> QED
    BY <1>2, TypedInvariant, PTL DEF Spec, RestraintNeverEscalates

\* An ordinary answer never exceeds the LIMIT or the budget (AnswerFits).
THEOREM AnswersFit == Spec => []AnswerFits
<1>1. Typed => AnswerFits
    <2> SUFFICES ASSUME Typed, NEW draw \in Band, NEW budget \in 0..MaxBudget
                 PROVE  LET rows == OrdinaryRows(shape, draw, budget)
                        IN  /\ ~Unlimited(shape) => rows <= shape.limit
                            /\ budget > 0 => rows <= budget
                            /\ shape.kind = "select" /\ ~shape.catalog /\ shape.limit # 0
                               /\ (~shape.table \/ shape.agg) => rows = 1
        BY DEF AnswerFits
    <2>1. draw \in Nat /\ budget \in Nat
        BY BandAssumption, BoundsAssumption DEF Band
    <2> QED
        BY <2>1, ExtractedFields DEF Typed, OrdinaryRows, Least, Unlimited
<1> QED
    BY <1>1, TypedInvariant, PTL

\* A client that writes queries is a client that asks for shapes: a rewriting
\* adds to the shape exactly the restraint it adds to the text.
THEOREM TextsImplementShapes == WriteSpec => Spec
<1>1. WriteInit => Init
    BY DEF WriteInit
<1>2. [WriteNext]_<<writing, shape, threshold>> => [Next]_vars
    BY DEF WriteNext, WriteWhere, WriteLimit, WriteColumns, Next, vars
<1> QED
    BY <1>1, <1>2, PTL DEF WriteSpec, Spec

----------------------------------------------------------------------------
(* What is left of a sequence.                                             *)

\* Dropping as a step of a fold.
DropStep(E, bad) ==
    [x \in Seq(E) \X E |-> IF x[2] \in bad THEN x[1] ELSE Append(x[1], x[2])]

\* Dropping is a fold over the elements,
LEMMA DropFoldable ==
    ASSUME NEW E, NEW bad, NEW seq \in Seq(E)
    PROVE  Foldable(seq, <<>>, DropStep(E, bad), Seq(E), E)
BY DEF Foldable, DropStep

\* so that Without is one: the recursive definition and the fold agree,
LEMMA WithoutIsFold ==
    ASSUME NEW E, NEW bad, NEW seq \in Seq(E)
    PROVE  /\ Without(seq, bad) = Fold(seq, <<>>, DropStep(E, bad))
           /\ Without(seq, bad) \in Seq(E)
<1> DEFINE S == Seq(E)
           step == DropStep(E, bad)
<1>0. Foldable(seq, <<>>, step, S, E)
    BY DropFoldable
<1>2. Len(seq) \in Nat /\ \A k \in 1 .. Len(seq) : seq[k] \in E
    OBVIOUS
<1>3. \A s \in S, e \in E : step[<<s, e>>] = IF e \in bad THEN s ELSE Append(s, e)
    BY DEF DropStep
<1> DEFINE body(h) == [i \in 0 .. Len(seq) |->
                          IF i = 0 THEN <<>>
                          ELSE IF seq[i] \in bad THEN h[i - 1]
                          ELSE Append(h[i - 1], seq[i])]
           upTo == CHOOSE h : h = body(h)
<1>5. Without(seq, bad) = upTo[Len(seq)]
    BY DEF Without
<1> HIDE DEF S, step
<1>1. PICK f : Follows(f, seq, <<>>, step, S)
    BY <1>0, FoldExists, Zenon
<1>4. f = body(f)
    <2>1. \A n \in 0 .. Len(seq) :
              f[n] = IF n = 0 THEN <<>>
                     ELSE IF seq[n] \in bad THEN f[n - 1] ELSE Append(f[n - 1], seq[n])
        <3> TAKE n \in 0 .. Len(seq)
        <3>1. CASE n = 0
            BY <1>1, <3>1 DEF Follows
        <3>2. CASE n # 0
            <4>1. n \in 1 .. Len(seq) /\ n - 1 \in 0 .. Len(seq)
                BY <1>2, <3>2
            <4>2. f[n - 1] \in S /\ seq[n] \in E
                BY <1>1, <1>2, <4>1 DEF Follows
            <4>3. f[n] = step[<<f[n - 1], seq[n]>>]
                BY <1>1, <4>1 DEF Follows
            <4> QED
                BY <1>3, <3>2, <4>2, <4>3
        <3> QED
            BY <3>1, <3>2
    <2>2. f = [n \in 0 .. Len(seq) |-> f[n]]
        BY <1>1 DEF Follows
    <2>3. body(f) = [n \in 0 .. Len(seq) |-> f[n]]
        BY <2>1
    <2> QED
        BY <2>2, <2>3
<1> HIDE DEF body
<1>6. upTo = body(upTo)
    BY <1>4
<1> HIDE DEF upTo
<1>7. \A n \in 0 .. Len(seq) :
          upTo[n] = IF n = 0 THEN <<>>
                    ELSE IF seq[n] \in bad THEN upTo[n - 1] ELSE Append(upTo[n - 1], seq[n])
    <2>1. \A n \in 0 .. Len(seq) : body(upTo)[n] =
              IF n = 0 THEN <<>>
              ELSE IF seq[n] \in bad THEN upTo[n - 1] ELSE Append(upTo[n - 1], seq[n])
        BY DEF body
    <2> QED
        BY <1>6, <2>1, Zenon
<1>8. Heeds(upTo, seq, <<>>, step, S)
    BY <1>2, <1>3, <1>7 DEF Heeds
<1>9. Reads(upTo, seq, <<>>, step, S, E)
    BY <1>0, <1>8, Zenon DEF Reads
<1>10. upTo[Len(seq)] = Fold(seq, <<>>, step) /\ Fold(seq, <<>>, step) \in S
    BY <1>9, FoldIs, Zenon
<1> QED
    BY <1>5, <1>10 DEF S, step

\* nothing is left of nothing,
LEMMA WithoutOfNone ==
    ASSUME NEW bad
    PROVE  Without(<<>>, bad) = <<>>
<1>1. <<>> \in Seq({})
    OBVIOUS
<1>2. Foldable(<<>>, <<>>, DropStep({}, bad), Seq({}), {})
    BY <1>1, DropFoldable
<1>3. Without(<<>>, bad) = Fold(<<>>, <<>>, DropStep({}, bad))
    BY <1>1, WithoutIsFold
<1> QED
    BY <1>2, <1>3, FoldEmpty, Zenon

\* and one element more is one step more.
LEMMA WithoutOneMore ==
    ASSUME NEW E, NEW bad, NEW seq \in Seq(E), NEW e \in E
    PROVE  /\ Without(seq, bad) \in Seq(E)
           /\ Without(Append(seq, e), bad) =
                  IF e \in bad THEN Without(seq, bad) ELSE Append(Without(seq, bad), e)
<1> DEFINE step == DropStep(E, bad)
<1>1. Foldable(seq, <<>>, step, Seq(E), E)
    BY DropFoldable
<1>2. /\ Without(seq, bad) = Fold(seq, <<>>, step) /\ Without(seq, bad) \in Seq(E)
      /\ Without(Append(seq, e), bad) = Fold(Append(seq, e), <<>>, step)
    <2>1. Append(seq, e) \in Seq(E)
        OBVIOUS
    <2> HIDE DEF step
    <2> QED
        BY <2>1, WithoutIsFold DEF step
<1>3. step[<<Without(seq, bad), e>>] =
          IF e \in bad THEN Without(seq, bad) ELSE Append(Without(seq, bad), e)
    BY <1>2 DEF DropStep
<1> HIDE DEF step
<1>4. Grows(seq, <<>>, step, Seq(E), E)
    BY <1>1, FoldAppend, Zenon
<1>5. Fold(Append(seq, e), <<>>, step) = step[<<Fold(seq, <<>>, step), e>>]
    BY <1>4, Zenon DEF Grows
<1> QED
    BY <1>2, <1>3, <1>5

----------------------------------------------------------------------------
(* The contexts of the tokens of a text.                                   *)

\* Words and marks.
Tokens == STRING \cup Marks

Situations == [depth : Int, sq : BOOLEAN, dq : BOOLEAN]

\* Going past a token as a step of a fold.
PastStep == [x \in Situations \X Tokens |-> Past(x[1], x[2])]

\* A token leads from a situation to a situation,
LEMMA PastIsSituation ==
    ASSUME NEW ctx \in Situations, NEW tok
    PROVE  Past(ctx, tok) \in Situations
<1>1. /\ [ctx EXCEPT !.sq = ~@] \in Situations
      /\ [ctx EXCEPT !.dq = ~@] \in Situations
      /\ [ctx EXCEPT !.depth = @ + 1] \in Situations
      /\ [ctx EXCEPT !.depth = @ - 1] \in Situations
    <2>1. /\ ctx.depth \in Int /\ ctx.sq \in BOOLEAN /\ ctx.dq \in BOOLEAN
          /\ ctx = [depth |-> ctx.depth, sq |-> ctx.sq, dq |-> ctx.dq]
        BY DEF Situations
    <2> DEFINE s == ~ctx.sq
               q == ~ctx.dq
    <2>2. \A d \in Int, b, c \in BOOLEAN :
              [depth |-> d, sq |-> b, dq |-> c] \in Situations
        BY DEF Situations
    <2>3. /\ [ctx EXCEPT !.sq = ~@] = [depth |-> ctx.depth, sq |-> s, dq |-> ctx.dq]
          /\ [ctx EXCEPT !.dq = ~@] = [depth |-> ctx.depth, sq |-> ctx.sq, dq |-> q]
        BY <2>1
    <2>4. /\ [ctx EXCEPT !.depth = @ + 1]
                = [depth |-> ctx.depth + 1, sq |-> ctx.sq, dq |-> ctx.dq]
          /\ [ctx EXCEPT !.depth = @ - 1]
                = [depth |-> ctx.depth - 1, sq |-> ctx.sq, dq |-> ctx.dq]
        BY <2>1
    <2>5. s \in BOOLEAN /\ q \in BOOLEAN
        OBVIOUS
    <2>6. ctx.depth + 1 \in Int /\ ctx.depth - 1 \in Int
        BY <2>1
    <2> HIDE DEF Situations, s, q
    <2> QED
        BY <2>1, <2>2, <2>3, <2>4, <2>5, <2>6
<1>2. \/ Past(ctx, tok) \in {[ctx EXCEPT !.sq = ~@], [ctx EXCEPT !.dq = ~@]}
      \/ Past(ctx, tok) \in {[ctx EXCEPT !.depth = @ + 1], [ctx EXCEPT !.depth = @ - 1], ctx}
    BY Zenon DEF Past
<1> QED
    BY <1>1, <1>2

\* and the first of them is one,
LEMMA PlainIsSituation == Plain \in Situations
BY DEF Plain, Situations

\* so the contexts can be folded over a text,
LEMMA PastFoldable ==
    ASSUME NEW text \in Seq(Tokens)
    PROVE  Foldable(text, Plain, PastStep, Situations, Tokens)
<1>1. \A x \in Situations \X Tokens : Past(x[1], x[2]) \in Situations
    BY PastIsSituation
<1> QED
    BY <1>1, PlainIsSituation DEF Foldable, PastStep

\* What Contexts returns: a context for each token, and one for the end.
Situated(ctx, text) ==
    /\ ctx \in Seq(Situations) /\ Len(ctx) = Len(text) + 1
    /\ ctx[1] = Plain
    /\ \A i \in 1 .. Len(text) : ctx[i + 1] = Past(ctx[i], text[i])

\* and each follows from the one before it.
LEMMA ContextsAre ==
    ASSUME NEW text \in Seq(Tokens)
    PROVE  Situated(Contexts(text), text)
<1>0. Foldable(text, Plain, PastStep, Situations, Tokens)
    BY PastFoldable
<1>1. PICK f : Follows(f, text, Plain, PastStep, Situations)
    BY <1>0, FoldExists, Zenon
<1>2. Len(text) \in Nat /\ \A k \in 1 .. Len(text) : text[k] \in Tokens
    OBVIOUS
<1>3. \A c \in Situations, tok \in Tokens : PastStep[<<c, tok>>] = Past(c, tok)
    BY DEF PastStep
<1> DEFINE N == Len(text)
           body(h) == [n \in 0 .. N |->
                          IF n = 0 THEN <<Plain>>
                          ELSE Append(h[n - 1], Past(h[n - 1][n], text[n]))]
           upTo == CHOOSE h : h = body(h)
           Begun(n) == [i \in 1 .. n + 1 |-> f[i - 1]]
           whole == [n \in 0 .. N |-> Begun(n)]
<1>5. Contexts(text) = upTo[Len(text)]
    BY DEF Contexts
<1> HIDE DEF Situations, PastStep, Past
<1>4. \A n \in 1 .. N : f[n - 1] \in Situations /\ f[n] = Past(f[n - 1], text[n])
    <2> TAKE n \in 1 .. N
    <2>1. n - 1 \in 0 .. N /\ text[n] \in Tokens
        BY <1>2
    <2>2. f[n - 1] \in Situations /\ f[n] = PastStep[<<f[n - 1], text[n]>>]
        BY <1>1, <2>1 DEF Follows
    <2> QED
        BY <1>3, <2>1, <2>2
<1>6. whole = body(whole)
    <2>1. ASSUME NEW n \in 0 .. N
          PROVE  Begun(n) = IF n = 0 THEN <<Plain>>
                            ELSE Append(whole[n - 1], Past(whole[n - 1][n], text[n]))
        <3>1. CASE n = 0
            BY <1>1, <3>1 DEF Follows
        <3>2. CASE n # 0
            <4>1. n \in 1 .. N /\ n - 1 \in 0 .. N /\ n \in Nat
                BY <1>2, <3>2
            <4>2. whole[n - 1] = Begun(n - 1)
                BY <4>1
            <4>3. Begun(n - 1) = [i \in 1 .. n |-> f[i - 1]]
                BY <4>1
            <4>4. Begun(n - 1)[n] = f[n - 1]
                BY <4>1, <4>3
            <4>5. Append(Begun(n - 1), f[n]) = Begun(n)
                <5> DEFINE g == [i \in 1 .. n |-> f[i - 1]]
                <5>1. ASSUME NEW i \in 1 .. n PROVE f[i - 1] \in Situations
                    <6>1. i \in 1 .. N
                        BY <1>2, <4>1
                    <6> QED
                        BY <1>4, <6>1
                <5>2. g \in Seq(Situations) /\ Len(g) = n
                    BY <4>1, <5>1
                <5>3. Append(g, f[n]) = [i \in 1 .. n + 1 |-> IF i <= n THEN g[i] ELSE f[n]]
                    BY <4>1, <5>2
                <5>4. ASSUME NEW i \in 1 .. n + 1
                      PROVE  (IF i <= n THEN g[i] ELSE f[n]) = f[i - 1]
                    BY <4>1
                <5> QED
                    BY <4>3, <5>3, <5>4
            <4>6. Past(f[n - 1], text[n]) = f[n]
                BY <1>4, <4>1
            <4> HIDE DEF Begun, whole
            <4> QED
                BY <3>2, <4>2, <4>4, <4>5, <4>6
        <3> QED
            BY <3>1, <3>2
    <2> HIDE DEF Begun
    <2>2. body(whole) = [n \in 0 .. N |-> Begun(n)]
        BY <2>1
    <2> QED
        BY <2>2
<1> HIDE DEF body, whole
<1>7. upTo = body(upTo)
    BY <1>6
<1> HIDE DEF upTo
<1>8. \A n \in 0 .. N :
          upTo[n] = IF n = 0 THEN <<Plain>>
                    ELSE Append(upTo[n - 1], Past(upTo[n - 1][n], text[n]))
    <2>1. \A n \in 0 .. N : body(upTo)[n] =
              IF n = 0 THEN <<Plain>>
              ELSE Append(upTo[n - 1], Past(upTo[n - 1][n], text[n]))
        BY DEF body
    <2> QED
        BY <1>7, <2>1, Zenon
<1>9. \A n \in 0 .. N :
          whole[n] = IF n = 0 THEN <<Plain>>
                    ELSE Append(whole[n - 1], Past(whole[n - 1][n], text[n]))
    <2>1. \A n \in 0 .. N : body(whole)[n] =
              IF n = 0 THEN <<Plain>>
              ELSE Append(whole[n - 1], Past(whole[n - 1][n], text[n]))
        BY DEF body
    <2> QED
        BY <1>6, <2>1, Zenon
<1>10. upTo[N] = whole[N]
    <2> DEFINE P == {n \in Nat : n <= N => upTo[n] = whole[n]}
    <2>1. 0 \in P
        BY <1>2, <1>8, <1>9
    <2>2. ASSUME NEW n \in Nat, n \in P
          PROVE  n + 1 \in P
        <3> SUFFICES ASSUME n + 1 <= N PROVE upTo[n + 1] = whole[n + 1]
            OBVIOUS
        <3>1. n + 1 \in 0 .. N /\ n + 1 # 0 /\ (n + 1) - 1 = n /\ upTo[n] = whole[n]
            BY <1>2, <2>2
        <3> QED
            BY <1>8, <1>9, <3>1
    <2> HIDE DEF P
    <2>3. N \in P
        BY <1>2, <2>1, <2>2, Induct
    <2> QED
        BY <1>2, <2>3 DEF P
<1>11. Contexts(text) = [i \in 1 .. N + 1 |-> f[i - 1]]
    BY <1>2, <1>5, <1>10 DEF whole
<1>12. \A i \in 1 .. N + 1 : i - 1 \in 0 .. N /\ f[i - 1] \in Situations
    BY <1>1, <1>2 DEF Follows
<1>13. Contexts(text) \in Seq(Situations) /\ Len(Contexts(text)) = N + 1
    BY <1>2, <1>11, <1>12
<1>14. Contexts(text)[1] = Plain
    BY <1>1, <1>2, <1>11 DEF Follows
<1>15. ASSUME NEW i \in 1 .. N
       PROVE  Contexts(text)[i + 1] = Past(Contexts(text)[i], text[i])
    BY <1>2, <1>4, <1>11
<1> QED
    BY <1>13, <1>14, <1>15 DEF Situated

\* There is one sequence of contexts.
LEMMA OneSituation ==
    ASSUME NEW text \in Seq(Tokens), NEW ctx, Situated(ctx, text)
    PROVE  ctx = Contexts(text)
<1> DEFINE own == Contexts(text)
           P == {n \in Nat : n <= Len(text) => ctx[n + 1] = own[n + 1]}
<1>0. Len(text) \in Nat
    OBVIOUS
<1>1. Situated(own, text)
    BY ContextsAre
<1> HIDE DEF own
<1>2. 0 \in P
    BY <1>1 DEF Situated
<1>3. ASSUME NEW n \in Nat, n \in P
      PROVE  n + 1 \in P
    <2> SUFFICES ASSUME n + 1 <= Len(text) PROVE ctx[(n + 1) + 1] = own[(n + 1) + 1]
        OBVIOUS
    <2>1. n + 1 \in 1 .. Len(text) /\ ctx[n + 1] = own[n + 1]
        BY <1>0, <1>3
    <2> QED
        BY <1>1, <2>1 DEF Situated
<1> HIDE DEF P
<1>4. \A n \in Nat : n \in P
    BY <1>2, <1>3, Induct
<1>5. ASSUME NEW i \in 1 .. Len(text) + 1
      PROVE  ctx[i] = own[i]
    <2>1. i - 1 \in Nat /\ i - 1 <= Len(text) /\ (i - 1) + 1 = i
        BY <1>0
    <2>2. i - 1 \in P
        BY <1>4, <2>1
    <2> QED
        BY <2>1, <2>2 DEF P
<1>6. ctx \in Seq(Situations) /\ own \in Seq(Situations)
      /\ Len(ctx) = Len(text) + 1 /\ Len(own) = Len(text) + 1
    BY <1>1 DEF Situated
<1> HIDE DEF Situations
<1>7. ctx = own
    BY <1>5, <1>6, SeqEqual
<1> QED
    BY <1>7 DEF own

----------------------------------------------------------------------------
(* A text after another one.                                               *)

\* All that is opened in a text is closed in it.
Closed(text) == Contexts(text)[Len(text) + 1] = Plain

\* What is written behind a closed text stands in the contexts in which it stands alone.
LEMMA ContextsJoin ==
    ASSUME NEW a \in Seq(Tokens), NEW b \in Seq(Tokens), Closed(a)
    PROVE  /\ \A i \in 1 .. Len(a) : Contexts(a \o b)[i] = Contexts(a)[i]
           /\ \A i \in 1 .. Len(b) + 1 : Contexts(a \o b)[Len(a) + i] = Contexts(b)[i]
<1> DEFINE A == Contexts(a)
           B == Contexts(b)
           m == Len(a)
           n == Len(b)
           text == a \o b
           ctx == [i \in 1 .. m + n + 1 |-> IF i <= m THEN A[i] ELSE B[i - m]]
<1>1. /\ m \in Nat /\ n \in Nat /\ text \in Seq(Tokens) /\ Len(text) = m + n
      /\ \A i \in 1 .. m : text[i] = a[i]
      /\ \A i \in 1 .. n : text[m + i] = b[i]
    OBVIOUS
<1>2. Situated(A, a) /\ Situated(B, b) /\ A[m + 1] = Plain
    BY ContextsAre DEF Closed
<1> HIDE DEF A, B, text, m, n, Situations, Past
<1>3. /\ \A i \in 1 .. m : A[i] \in Situations /\ A[i + 1] = Past(A[i], a[i])
      /\ \A i \in 1 .. n + 1 : B[i] \in Situations
      /\ \A i \in 1 .. n : B[i + 1] = Past(B[i], b[i])
      /\ A[1] = Plain /\ B[1] = Plain
    BY <1>1, <1>2 DEF Situated, m, n
<1>4. ctx \in Seq(Situations) /\ Len(ctx) = Len(text) + 1
    <2>1. ASSUME NEW i \in 1 .. m + n + 1
          PROVE  (IF i <= m THEN A[i] ELSE B[i - m]) \in Situations
        <3>1. CASE i <= m
            BY <1>1, <1>3, <3>1
        <3>2. CASE ~(i <= m)
            <4>1. i - m \in 1 .. n + 1
                BY <1>1, <3>2
            <4> QED
                BY <1>3, <3>2, <4>1
        <3> QED
            BY <3>1, <3>2
    <2> QED
        BY <1>1, <2>1
<1>5. ctx[1] = Plain
    BY <1>1, <1>3
<1>6. ASSUME NEW i \in 1 .. Len(text)
      PROVE  ctx[i + 1] = Past(ctx[i], text[i])
    <2>0. i \in 1 .. m + n /\ i + 1 \in 1 .. m + n + 1 /\ i \in 1 .. m + n + 1
        BY <1>1
    <2>1. CASE i < m
        <3>1. ctx[i] = A[i] /\ ctx[i + 1] = A[i + 1] /\ i \in 1 .. m
            BY <1>1, <2>0, <2>1
        <3> QED
            BY <1>1, <1>3, <3>1
    <2>2. CASE i = m
        <3>1. ctx[i] = A[i] /\ ctx[i + 1] = B[1] /\ i \in 1 .. m
            BY <1>1, <2>0, <2>2
        <3>2. A[i + 1] = B[1]
            BY <1>2, <1>3, <2>2
        <3> QED
            BY <1>1, <1>3, <3>1, <3>2
    <2>3. CASE i > m
        <3>1. i - m \in 1 .. n /\ m + (i - m) = i /\ (i + 1) - m = (i - m) + 1
            BY <1>1, <2>0, <2>3
        <3>2. ctx[i] = B[i - m] /\ ctx[i + 1] = B[(i - m) + 1]
            BY <1>1, <2>0, <2>3, <3>1
        <3>3. text[i] = b[i - m]
            BY <1>1, <3>1
        <3> QED
            BY <1>3, <3>1, <3>2, <3>3
    <2> QED
        BY <1>1, <2>0, <2>1, <2>2, <2>3
<1>7. Situated(ctx, text)
    BY <1>4, <1>5, <1>6 DEF Situated
<1>8. ctx = Contexts(text)
    BY <1>1, <1>7, OneSituation
<1>9. \A i \in 1 .. m : ctx[i] = A[i]
    BY <1>1
<1>10. \A i \in 1 .. n + 1 : ctx[m + i] = B[i]
    BY <1>1
<1> HIDE DEF ctx
<1> QED
    BY <1>8, <1>9, <1>10 DEF A, B, text, m, n

\* Closed texts make a closed one.
LEMMA ClosedJoin ==
    ASSUME NEW a \in Seq(Tokens), NEW b \in Seq(Tokens), Closed(a), Closed(b)
    PROVE  a \o b \in Seq(Tokens) /\ Closed(a \o b)
<1>1. /\ Len(b) \in Nat /\ Len(a) \in Nat
      /\ a \o b \in Seq(Tokens) /\ Len(a \o b) = Len(a) + Len(b)
    OBVIOUS
<1>2. Contexts(a \o b)[Len(a) + (Len(b) + 1)] = Contexts(b)[Len(b) + 1]
    BY <1>1, ContextsJoin
<1>3. Len(a) + (Len(b) + 1) = Len(a \o b) + 1
    BY <1>1
<1> QED
    BY <1>1, <1>2, <1>3 DEF Closed

\* A mark that opens and closes nothing.
LEMMA MarkIsClosed ==
    ASSUME NEW mark \in Tokens, Past(Plain, mark) = Plain
    PROVE  /\ <<mark>> \in Seq(Tokens) /\ Closed(<<mark>>)
           /\ 1 \in TopLevel(<<mark>>)
<1> DEFINE one == <<mark>>
<1>2. one \in Seq(Tokens) /\ Len(one) = 1 /\ one[1] = mark /\ DOMAIN one = 1 .. 1
    <2>1. one \in Seq(Tokens) /\ Len(one) = 1 /\ one[1] = mark
        OBVIOUS
    <2> HIDE DEF one
    <2> QED
        BY <2>1
<1> HIDE DEF one
<1>4. Situated(Contexts(one), one)
    BY <1>2, ContextsAre
<1>5. Contexts(one)[1] = Plain /\ Contexts(one)[1 + 1] = Past(Contexts(one)[1], one[1])
    <2>1. 1 \in 1 .. Len(one)
        BY <1>2
    <2> QED
        BY <1>4, <2>1, Zenon DEF Situated
<1>6. Contexts(one)[2] = Plain
    BY <1>2, <1>5
<1>7. Closed(one)
    <2>1. Len(one) + 1 = 2
        BY <1>2
    <2> QED
        BY <1>6, <2>1, Zenon DEF Closed
<1>8. 1 \in TopLevel(one)
    BY <1>2, <1>5 DEF TopLevel, Unquoted, Plain
<1> QED
    BY <1>2, <1>7, <1>8 DEF one

\* The marks that end a statement or stand between words are such.
Semicolon == ";"
Blank == " "

\* They are tokens, and open and close nothing.
LEMMA MarksAreTokens ==
    /\ Semicolon \in Tokens /\ Past(Plain, Semicolon) = Plain
    /\ Blank \in Tokens /\ Past(Plain, Blank) = Plain
    /\ Semicolon # Blank
<1>1. Semicolon \in Tokens /\ Blank \in Tokens
    BY Zenon DEF Tokens, Marks, Semicolon, Blank
<1>2. Past(Plain, Semicolon) = Plain
    BY Zenon DEF Past, Semicolon
<1>3. Past(Plain, Blank) = Plain
    BY Zenon DEF Past, Blank
<1>4. Semicolon # Blank
    BY Zenon DEF Semicolon, Blank
<1> QED
    BY <1>1, <1>2, <1>3, <1>4

\* An empty text opens nothing.
LEMMA NothingIsClosed == <<>> \in Seq(Tokens) /\ Closed(<<>>)
<1>1. <<>> \in Seq(Tokens) /\ Len(<<>>) = 0
    OBVIOUS
<1>2. Situated(Contexts(<<>>), <<>>)
    BY <1>1, ContextsAre
<1> QED
    BY <1>1, <1>2 DEF Situated, Closed

\* The separators of a text.
Cuts(text, sep) == {i \in TopLevel(text) : text[i] = sep}

\* They are those of its parts.
LEMMA CutsJoin ==
    ASSUME NEW a \in Seq(Tokens), NEW b \in Seq(Tokens), Closed(a), NEW sep
    PROVE  /\ \A i \in 1 .. Len(a) : i \in Cuts(a \o b, sep) <=> i \in Cuts(a, sep)
           /\ \A i \in 1 .. Len(b) : Len(a) + i \in Cuts(a \o b, sep) <=> i \in Cuts(b, sep)
<1> DEFINE text == a \o b
<1>1. /\ Len(a) \in Nat /\ Len(b) \in Nat
      /\ DOMAIN a = 1 .. Len(a) /\ DOMAIN b = 1 .. Len(b)
      /\ DOMAIN text = 1 .. Len(a) + Len(b)
      /\ \A i \in 1 .. Len(a) : text[i] = a[i]
      /\ \A i \in 1 .. Len(b) : text[Len(a) + i] = b[i]
    OBVIOUS
<1>2. /\ \A i \in 1 .. Len(a) : Contexts(text)[i] = Contexts(a)[i]
      /\ \A i \in 1 .. Len(b) + 1 : Contexts(text)[Len(a) + i] = Contexts(b)[i]
    BY ContextsJoin
<1> HIDE DEF text
<1>3. ASSUME NEW i \in 1 .. Len(a)
      PROVE  i \in Cuts(text, sep) <=> i \in Cuts(a, sep)
    <2>1. i \in DOMAIN text /\ text[i] = a[i] /\ Contexts(text)[i] = Contexts(a)[i]
        BY <1>1, <1>2
    <2> QED
        BY <1>1, <2>1 DEF Cuts, TopLevel
<1>4. ASSUME NEW i \in 1 .. Len(b)
      PROVE  Len(a) + i \in Cuts(text, sep) <=> i \in Cuts(b, sep)
    <2>1. /\ Len(a) + i \in DOMAIN text /\ text[Len(a) + i] = b[i]
          /\ Contexts(text)[Len(a) + i] = Contexts(b)[i]
        BY <1>1, <1>2
    <2> QED
        BY <1>1, <2>1 DEF Cuts, TopLevel
<1> QED
    BY <1>3, <1>4 DEF text

----------------------------------------------------------------------------
(* Splitting at the separators of a text.                                  *)

Positions(n) == [i \in 1 .. n |-> i]

\* One more position is the last of them.
LEMMA PositionsGrow ==
    ASSUME NEW n \in Nat, NEW N, N = 1 .. n + 1
    PROVE  /\ Positions(n) \in Seq(N) /\ n + 1 \in N
           /\ Positions(n + 1) = Append(Positions(n), n + 1)
<1>1. /\ Positions(n) \in Seq(N) /\ Len(Positions(n)) = n /\ n + 1 \in N
      /\ \A i \in 1 .. n : Positions(n)[i] = i
    BY DEF Positions
<1>2. Append(Positions(n), n + 1) =
          [i \in 1 .. n + 1 |-> IF i <= n THEN Positions(n)[i] ELSE n + 1]
    BY <1>1
<1>3. ASSUME NEW i \in 1 .. n + 1
      PROVE  (IF i <= n THEN Positions(n)[i] ELSE n + 1) = i
    BY <1>1
<1> QED
    BY <1>1, <1>2, <1>3 DEF Positions

\* One position more.
LEMMA PositionsWithout ==
    ASSUME NEW n \in Nat, NEW bad
    PROVE  Without(Positions(n + 1), bad) =
               IF n + 1 \in bad THEN Without(Positions(n), bad)
               ELSE Append(Without(Positions(n), bad), n + 1)
<1> DEFINE N == 1 .. n + 1
<1>1. /\ Positions(n) \in Seq(N) /\ n + 1 \in N
      /\ Positions(n + 1) = Append(Positions(n), n + 1)
    BY PositionsGrow
<1> DEFINE p == Positions(n)
           e == n + 1
<1>2. p \in Seq(N) /\ e \in N
    BY <1>1
<1> HIDE DEF N, p, e
<1>3. Without(Append(p, e), bad) =
          IF e \in bad THEN Without(p, bad) ELSE Append(Without(p, bad), e)
    BY <1>2, WithoutOneMore
<1> QED
    BY <1>1, <1>3 DEF p, e

\* Positions up to n, of which those behind m are all dropped.
LEMMA NoneBehind ==
    ASSUME NEW n \in Nat, NEW m \in 0 .. n, NEW bad,
           \A i \in 1 .. n : i > m => i \in bad
    PROVE  Without(Positions(n), bad) = Without(Positions(m), bad)
<1> DEFINE P == {k \in Nat : m + k <= n =>
                    Without(Positions(m + k), bad) = Without(Positions(m), bad)}
<1>1. 0 \in P
    OBVIOUS
<1>2. ASSUME NEW k \in Nat, k \in P
      PROVE  k + 1 \in P
    <2> SUFFICES ASSUME m + (k + 1) <= n
                 PROVE  Without(Positions(m + (k + 1)), bad) = Without(Positions(m), bad)
        OBVIOUS
    <2>1. m + k \in Nat /\ m + (k + 1) = (m + k) + 1 /\ (m + k) + 1 \in bad
        OBVIOUS
    <2>2. Without(Positions(m + k), bad) = Without(Positions(m), bad)
        BY <1>2
    <2> QED
        BY <2>1, <2>2, PositionsWithout
<1> HIDE DEF P
<1>3. n - m \in P
    BY <1>1, <1>2, Induct
<1> QED
    BY <1>3 DEF P

\* Two sets that agree up to n.
LEMMA SameWithout ==
    ASSUME NEW n \in Nat, NEW bad, NEW worse,
           \A i \in 1 .. n : i \in bad <=> i \in worse
    PROVE  Without(Positions(n), bad) = Without(Positions(n), worse)
<1> DEFINE P == {k \in Nat : k <= n =>
                    Without(Positions(k), bad) = Without(Positions(k), worse)}
<1>1. 0 \in P
    <2>1. Positions(0) = <<>>
        BY DEF Positions
    <2>2. Without(Positions(0), bad) = <<>> /\ Without(Positions(0), worse) = <<>>
        BY <2>1, WithoutOfNone
    <2> QED
        BY <2>2
<1>2. ASSUME NEW k \in Nat, k \in P
      PROVE  k + 1 \in P
    <2> SUFFICES ASSUME k + 1 <= n
                 PROVE  Without(Positions(k + 1), bad) = Without(Positions(k + 1), worse)
        OBVIOUS
    <2>1. k + 1 \in bad <=> k + 1 \in worse
        OBVIOUS
    <2>2. Without(Positions(k), bad) = Without(Positions(k), worse)
        BY <1>2
    <2> QED
        BY <2>1, <2>2, PositionsWithout
<1> HIDE DEF P
<1>3. n \in P
    BY <1>1, <1>2, Induct
<1> QED
    BY <1>3 DEF P

\* The places between which a text is cut.
Fences(text, cuts) == <<0>> \o InOrder(text, cuts) \o <<Len(text) + 1>>

\* InOrder in terms of numbers.
LEMMA InOrderIs ==
    ASSUME NEW text \in Seq(Tokens), NEW cuts
    PROVE  /\ InOrder(text, cuts) = Without(Positions(Len(text)), (1 .. Len(text)) \ cuts)
           /\ InOrder(text, cuts) \in Seq(1 .. Len(text))
<1>1. DOMAIN text = 1 .. Len(text) /\ Len(text) \in Nat
    OBVIOUS
<1>2. Positions(Len(text)) \in Seq(1 .. Len(text))
    BY <1>1 DEF Positions
<1>3. InOrder(text, cuts) = Without(Positions(Len(text)), (1 .. Len(text)) \ cuts)
    BY <1>1 DEF InOrder, Positions
<1> QED
    BY <1>2, <1>3, WithoutIsFold

\* The fences are the cuts between the two ends of the text.
LEMMA FencesAre ==
    ASSUME NEW text \in Seq(Tokens), NEW cuts
    PROVE  LET at == InOrder(text, cuts)
               f == Fences(text, cuts)
           IN  /\ Len(at) \in Nat /\ \A k \in 1 .. Len(at) : at[k] \in 1 .. Len(text)
               /\ f \in Seq(0 .. Len(text) + 1) /\ Len(f) = Len(at) + 2
               /\ f[1] = 0 /\ f[Len(at) + 2] = Len(text) + 1
               /\ \A k \in 1 .. Len(at) : f[k + 1] = at[k]
<1> DEFINE at == InOrder(text, cuts)
           n == Len(text)
           N == 0 .. n + 1
           first == <<0>>
           last == <<n + 1>>
<1>1. n \in Nat
    OBVIOUS
<1>2. at \in Seq(1 .. n)
    BY InOrderIs
<1>3. /\ at \in Seq(N) /\ first \in Seq(N) /\ last \in Seq(N)
      /\ Len(first) = 1 /\ Len(last) = 1 /\ first[1] = 0 /\ last[1] = n + 1
    <2>1. 1 .. n \subseteq N /\ 0 \in N /\ n + 1 \in N
        BY <1>1
    <2>2. at \in Seq(N)
        BY <1>2, <2>1, SeqMonotonic
    <2> HIDE DEF N, at, n
    <2> QED
        BY <2>1, <2>2
<1>4. Len(at) \in Nat /\ \A k \in 1 .. Len(at) : at[k] \in 1 .. n
    BY <1>2
<1>5. Fences(text, cuts) = first \o at \o last
    BY DEF Fences
<1> HIDE DEF at, n, N, first, last
<1> DEFINE front == first \o at
           all == front \o last
<1>6. /\ front \in Seq(N) /\ Len(front) = 1 + Len(at)
      /\ \A i \in 1 .. 1 + Len(at) : front[i] = IF i <= 1 THEN first[i] ELSE at[i - 1]
    <2>1. /\ front \in Seq(N) /\ Len(front) = Len(first) + Len(at)
          /\ \A i \in 1 .. Len(first) + Len(at) :
                front[i] = IF i <= Len(first) THEN first[i] ELSE at[i - Len(first)]
        <3>1. first \in Seq(N) /\ at \in Seq(N)
            BY <1>3
        <3> QED
            BY <3>1, ConcatProperties, Zenon
    <2> HIDE DEF front
    <2> QED
        BY <1>3, <2>1
<1>7. /\ front[1] = 0
      /\ \A k \in 1 .. Len(at) : front[k + 1] = at[k]
    BY <1>3, <1>4, <1>6
<1> HIDE DEF front
<1>8. /\ all \in Seq(N) /\ Len(all) = (1 + Len(at)) + 1
      /\ \A i \in 1 .. (1 + Len(at)) + 1 :
            all[i] = IF i <= 1 + Len(at) THEN front[i] ELSE last[i - (1 + Len(at))]
    <2>1. /\ all \in Seq(N) /\ Len(all) = Len(front) + Len(last)
          /\ \A i \in 1 .. Len(front) + Len(last) :
                all[i] = IF i <= Len(front) THEN front[i] ELSE last[i - Len(front)]
        BY <1>3, <1>6, ConcatProperties, Zenon
    <2> HIDE DEF all
    <2> QED
        BY <1>3, <1>6, <2>1
<1> HIDE DEF all
<1>9. /\ all[1] = 0
      /\ \A k \in 1 .. Len(at) : all[k + 1] = at[k]
      /\ all[Len(at) + 2] = n + 1
    BY <1>3, <1>4, <1>7, <1>8
<1>10. Len(all) = Len(at) + 2
    BY <1>4, <1>8
<1> QED
    BY <1>4, <1>5, <1>8, <1>9, <1>10 DEF all, front, at, n, N

\* Trimming leaves a text.
LEMMA TrimIsText ==
    ASSUME NEW text \in Seq(Tokens), NEW marks
    PROVE  Trimmed(text, marks) \in Seq(Tokens)
<1> DEFINE kept == {i \in DOMAIN text : text[i] \notin marks}
<1>1. CASE kept = {}
    BY <1>1 DEF Trimmed
<1>2. CASE kept # {}
    <2>1. /\ DOMAIN text = 1 .. Len(text) /\ Len(text) \in Nat
          /\ \A i \in 1 .. Len(text) : text[i] \in Tokens
        OBVIOUS
    <2>2. kept \in SUBSET Nat /\ kept \in SUBSET (0 .. Len(text))
        BY <2>1
    <2>3. PICK lo \in kept : \A y \in kept : lo <= y
        BY <1>2, <2>2, HasLeast
    <2>4. PICK hi \in kept : \A y \in kept : y <= hi
        BY <1>2, <2>1, <2>2, HasGreatest
    <2>5. Min(kept) \in kept /\ Max(kept) \in kept
        <3> HIDE DEF kept
        <3>1. Min(kept) \in kept
            BY <2>3 DEF Min
        <3>2. \A y \in kept : hi >= y
            BY <2>2, <2>4
        <3> QED
            BY <2>4, <3>1, <3>2 DEF Max
    <2>6. Min(kept) \in 1 .. Len(text) /\ Max(kept) \in 1 .. Len(text)
        BY <2>1, <2>5
    <2>7. Trimmed(text, marks) = SubSeq(text, Min(kept), Max(kept))
        BY <1>2 DEF Trimmed
    <2> HIDE DEF kept, Tokens
    <2> QED
        BY <2>1, <2>6, <2>7, SubSeqProperties
<1> QED
    BY <1>1, <1>2

\* The pieces of a text, and the pieces trimmed.
Pieces(text, cuts) ==
    [k \in 1 .. Len(Fences(text, cuts)) - 1 |->
        SubSeq(text, Fences(text, cuts)[k] + 1, Fences(text, cuts)[k + 1] - 1)]

Trims(pieces) == [k \in DOMAIN pieces |-> Trim(pieces[k])]

\* split_top_level trims the pieces and drops the empty ones.
LEMMA SplitIs ==
    ASSUME NEW text, NEW sep
    PROVE  SplitTopLevel(text, sep) = Without(Trims(Pieces(text, Cuts(text, sep))), {<<>>})
BY DEF SplitTopLevel, CutAt, Cuts, Fences, Pieces, Trims

\* A piece up to a place m of a text is one of the text up to there.
LEMMA PieceOf ==
    ASSUME NEW text \in Seq(Tokens), NEW a \in Seq(Tokens), Len(a) <= Len(text),
           \A i \in 1 .. Len(a) : text[i] = a[i],
           NEW m \in Nat \ {0}, NEW n \in Nat, n <= Len(a)
    PROVE  SubSeq(text, m, n) = SubSeq(a, m, n) /\ SubSeq(a, m, n) \in Seq(Tokens)
<1>1. /\ Len(a) \in Nat /\ Len(text) \in Nat
      /\ \A i \in 1 .. Len(a) : a[i] \in Tokens
    OBVIOUS
<1> DEFINE s == SubSeq(text, m, n)
           t == SubSeq(a, m, n)
<1>2. \A i \in m .. n : a[i] \in Tokens /\ text[i] \in Tokens /\ text[i] = a[i]
    BY <1>1
<1>3. /\ s \in Seq(Tokens) /\ Len(s) = IF m <= n THEN n - m + 1 ELSE 0
      /\ \A i \in 1 .. n - m + 1 : s[i] = text[m + i - 1]
    BY <1>2, SubSeqProperties
<1>4. /\ t \in Seq(Tokens) /\ Len(t) = IF m <= n THEN n - m + 1 ELSE 0
      /\ \A i \in 1 .. n - m + 1 : t[i] = a[m + i - 1]
    BY <1>2, SubSeqProperties
<1> HIDE DEF s, t, Tokens
<1>5. Len(s) = Len(t)
    BY <1>3, <1>4
<1>6. ASSUME NEW i \in 1 .. Len(s)
      PROVE  s[i] = t[i]
    <2>1. i \in 1 .. n - m + 1 /\ m + i - 1 \in m .. n
        BY <1>3
    <2> QED
        BY <1>2, <1>3, <1>4, <2>1
<1>7. s = t
    BY <1>3, <1>4, <1>5, <1>6, SeqEqual
<1> QED
    BY <1>4, <1>7 DEF s, t

\* No piece reaches beyond its text.
LEMMA FencesInside ==
    ASSUME NEW text \in Seq(Tokens), NEW cuts, NEW k \in 1 .. Len(InOrder(text, cuts)) + 1
    PROVE  LET f == Fences(text, cuts)
           IN  f[k] \in 0 .. Len(text) /\ f[k + 1] - 1 \in 0 .. Len(text)
<1> DEFINE at == InOrder(text, cuts)
           f == Fences(text, cuts)
           n == Len(at) + 1
<1>1. /\ Len(at) \in Nat /\ \A i \in 1 .. Len(at) : at[i] \in 1 .. Len(text)
      /\ f[1] = 0 /\ f[Len(at) + 2] = Len(text) + 1
      /\ \A i \in 1 .. Len(at) : f[i + 1] = at[i]
    BY FencesAre
<1>2. Len(text) \in Nat /\ k \in 1 .. n
    OBVIOUS
<1> HIDE DEF at, f
<1>3. f[k] \in 0 .. Len(text)
    <2>1. CASE k = 1
        BY <1>1, <1>2, <2>1
    <2>2. CASE k # 1
        <3>1. k - 1 \in 1 .. Len(at) /\ (k - 1) + 1 = k
            BY <1>1, <1>2, <2>2
        <3>2. f[k] \in 1 .. Len(text)
            BY <1>1, <3>1
        <3> QED
            BY <1>2, <3>2
    <2> QED
        BY <2>1, <2>2
<1>4. f[k + 1] - 1 \in 0 .. Len(text)
    <2>1. CASE k = n
        <3>1. k + 1 = Len(at) + 2
            BY <1>1, <2>1
        <3>2. f[k + 1] = Len(text) + 1
            BY <1>1, <3>1
        <3> QED
            BY <1>2, <3>2
    <2>2. CASE k # n
        <3>1. k \in 1 .. Len(at)
            <4>1. Len(at) \in Nat /\ k \in 1 .. n
                BY <1>1, <1>2
            <4> DEFINE l == Len(at)
            <4> HIDE DEF l
            <4>2. l \in Nat /\ k \in 1 .. l + 1 /\ k # l + 1
                BY <2>2, <4>1 DEF l
            <4>3. k \in 1 .. l
                BY <4>2
            <4> QED
                BY <4>3 DEF l
        <3>2. f[k + 1] \in 1 .. Len(text)
            BY <1>1, <3>1
        <3> QED
            BY <1>2, <3>2
    <2> QED
        BY <2>1, <2>2
<1> QED
    BY <1>3, <1>4 DEF f

\* The pieces are texts.
LEMMA PiecesAre ==
    ASSUME NEW text \in Seq(Tokens), NEW cuts
    PROVE  LET n == Len(InOrder(text, cuts)) + 1
           IN  /\ n \in Nat
               /\ Pieces(text, cuts) \in Seq(Seq(Tokens)) /\ Len(Pieces(text, cuts)) = n
               /\ Trims(Pieces(text, cuts)) \in Seq(Seq(Tokens))
               /\ Len(Trims(Pieces(text, cuts))) = n
               /\ \A k \in 1 .. n :
                     Trims(Pieces(text, cuts))[k] = Trim(Pieces(text, cuts)[k])
<1> DEFINE at == InOrder(text, cuts)
           f == Fences(text, cuts)
           n == Len(at) + 1
           P == Pieces(text, cuts)
           T == Trims(P)
           S == Seq(Tokens)
<1>1. /\ Len(at) \in Nat /\ \A k \in 1 .. Len(at) : at[k] \in 1 .. Len(text)
      /\ f \in Seq(0 .. Len(text) + 1) /\ Len(f) = Len(at) + 2
      /\ f[1] = 0 /\ f[Len(at) + 2] = Len(text) + 1
      /\ \A k \in 1 .. Len(at) : f[k + 1] = at[k]
    BY FencesAre
<1>2. Len(text) \in Nat
    OBVIOUS
<1> HIDE DEF at, f
<1>3. n \in Nat /\ Len(f) - 1 = n
    BY <1>1
<1>4. ASSUME NEW k \in 1 .. n
      PROVE  SubSeq(text, f[k] + 1, f[k + 1] - 1) \in S
    <2>1. f[k] \in 0 .. Len(text) /\ f[k + 1] - 1 \in 0 .. Len(text)
        BY FencesInside DEF n, at, f
    <2>2. f[k] + 1 \in Nat \ {0} /\ f[k + 1] - 1 \in Nat /\ f[k + 1] - 1 <= Len(text)
        BY <1>2, <2>1
    <2>3. Len(text) <= Len(text)
        BY <1>2
    <2> HIDE DEF Tokens
    <2> QED
        BY <2>2, <2>3, PieceOf
<1>5. P = [k \in 1 .. n |-> SubSeq(text, f[k] + 1, f[k + 1] - 1)]
    BY <1>3 DEF Pieces, f
<1> HIDE DEF n, P, S
<1>6. P \in Seq(S) /\ Len(P) = n /\ DOMAIN P = 1 .. n
    BY <1>3, <1>4, <1>5
<1>7. \A k \in 1 .. n : P[k] \in S
    BY <1>4, <1>5
<1>8. \A k \in 1 .. n : Trim(P[k]) \in S
    BY <1>7, TrimIsText DEF Trim, S
<1>9. T = [k \in 1 .. n |-> Trim(P[k])]
    BY <1>6 DEF Trims
<1> HIDE DEF T
<1>10. T \in Seq(S) /\ Len(T) = n /\ \A k \in 1 .. n : T[k] = Trim(P[k])
    BY <1>3, <1>8, <1>9
<1> QED
    BY <1>3, <1>6, <1>10 DEF n, at, P, T, S

\* A text without a separator is one piece.
LEMMA SplitAlone ==
    ASSUME NEW text \in Seq(Tokens), NEW sep, Cuts(text, sep) = {}
    PROVE  SplitTopLevel(text, sep) = Without(<<Trim(text)>>, {<<>>})
<1> DEFINE n == Len(text)
           at == InOrder(text, {})
           f == Fences(text, {})
           P == Pieces(text, {})
           T == Trims(P)
           one == <<Trim(text)>>
<1>1. n \in Nat /\ 0 \in 0 .. n /\ SubSeq(text, 1, n) = text
    OBVIOUS
<1>2. at = <<>>
    <2>1. at = Without(Positions(n), (1 .. n) \ {})
        BY InOrderIs
    <2>2. Without(Positions(n), (1 .. n) \ {}) = Without(Positions(0), (1 .. n) \ {})
        BY <1>1, NoneBehind
    <2>3. Positions(0) = <<>>
        BY DEF Positions
    <2>4. Without(Positions(0), (1 .. n) \ {}) = <<>>
        BY <2>3, WithoutOfNone
    <2> QED
        BY <2>1, <2>2, <2>4
<1>3. Len(at) = 0
    BY <1>2
<1>4. Len(f) = Len(at) + 2 /\ f[1] = 0 /\ f[Len(at) + 2] = n + 1
    BY FencesAre
<1>5. /\ Len(P) = Len(at) + 1
      /\ T \in Seq(Seq(Tokens)) /\ Len(T) = Len(at) + 1
      /\ \A k \in 1 .. Len(at) + 1 : T[k] = Trim(P[k])
    BY PiecesAre
<1>6. P[1] = SubSeq(text, f[1] + 1, f[2] - 1)
    <2>1. 1 \in 1 .. Len(f) - 1 /\ 1 + 1 = 2
        BY <1>3, <1>4
    <2> HIDE DEF f
    <2> QED
        BY <2>1 DEF Pieces, f
<1> HIDE DEF at, f, P
<1>7. P[1] = text
    <2>1. f[1] + 1 = 1 /\ f[2] - 1 = n
        BY <1>1, <1>3, <1>4
    <2> QED
        BY <1>1, <1>6, <2>1
<1>8. T[1] = Trim(text) /\ Len(T) = 1
    BY <1>3, <1>5, <1>7
<1>9. T = one
    <2>1. T[1] = Trim(text) /\ Len(T) = 1 /\ T \in Seq(Seq(Tokens))
        BY <1>5, <1>8
    <2>2. Trim(text) \in Seq(Tokens)
        BY TrimIsText DEF Trim
    <2> HIDE DEF T
    <2>3. T = [k \in 1 .. 1 |-> T[k]]
        BY <2>1
    <2> QED
        BY <2>1, <2>3
<1>10. SplitTopLevel(text, sep) = Without(T, {<<>>})
    BY SplitIs DEF T, P
<1> QED
    BY <1>9, <1>10

\* What is written behind a closed text and a separator is one piece more.
LEMMA SplitMore ==
    ASSUME NEW a \in Seq(Tokens), NEW b \in Seq(Tokens), Closed(a),
           NEW sep \in Tokens, Past(Plain, sep) = Plain, Cuts(b, sep) = {}
    PROVE  SplitTopLevel((a \o <<sep>>) \o b, sep) =
               IF Trim(b) = <<>> THEN SplitTopLevel(a, sep)
               ELSE Append(SplitTopLevel(a, sep), Trim(b))
<1> DEFINE s == <<sep>>
           head == a \o s
           text == head \o b
           m == Len(a)
           N == Len(text)
           cuts == Cuts(a, sep)
           more == Cuts(text, sep)
<1>1. /\ m \in Nat /\ Len(b) \in Nat
      /\ s \in Seq(Tokens) /\ Len(s) = 1 /\ s[1] = sep
      /\ Closed(s) /\ 1 \in TopLevel(s)
    BY MarkIsClosed
<1> HIDE DEF s, m
<1>2. /\ head \in Seq(Tokens) /\ Len(head) = m + 1
      /\ \A i \in 1 .. m : head[i] = a[i]
    <2>1. /\ head \in Seq(Tokens) /\ Len(head) = Len(a) + Len(s)
          /\ \A i \in 1 .. Len(a) + Len(s) :
                head[i] = IF i <= Len(a) THEN a[i] ELSE s[i - Len(a)]
        <3>1. s \in Seq(Tokens)
            BY <1>1
        <3> QED
            BY <3>1, ConcatProperties, Zenon
    <2> HIDE DEF head
    <2> QED
        BY <1>1, <2>1 DEF m
<1>3. Closed(head)
    BY <1>1, ClosedJoin
<1>4. /\ \A i \in 1 .. m : i \in Cuts(head, sep) <=> i \in cuts
      /\ m + 1 \in Cuts(head, sep)
    <2>1. /\ \A i \in 1 .. m : i \in Cuts(head, sep) <=> i \in cuts
          /\ m + 1 \in Cuts(head, sep) <=> 1 \in Cuts(s, sep)
        <3>1. /\ \A i \in 1 .. Len(a) : i \in Cuts(head, sep) <=> i \in cuts
              /\ \A i \in 1 .. Len(s) :
                    Len(a) + i \in Cuts(head, sep) <=> i \in Cuts(s, sep)
            <4>1. s \in Seq(Tokens)
                BY <1>1
            <4> QED
                BY <4>1, CutsJoin, Zenon
        <3>2. 1 \in 1 .. Len(s)
            BY <1>1
        <3> HIDE DEF head, cuts
        <3> QED
            BY <3>1, <3>2, Zenon DEF m
    <2>2. 1 \in Cuts(s, sep)
        BY <1>1 DEF Cuts
    <2> QED
        BY <2>1, <2>2
<1> HIDE DEF head
<1>5. /\ text \in Seq(Tokens) /\ N = m + 1 + Len(b) /\ N \in Nat
      /\ \A i \in 1 .. m : text[i] = a[i]
      /\ \A i \in 1 .. Len(b) : text[m + 1 + i] = b[i]
    <2>1. head \in Seq(Tokens) /\ b \in Seq(Tokens)
        BY <1>2
    <2> HIDE DEF Tokens, m
    <2>2. /\ text \in Seq(Tokens) /\ Len(text) = Len(head) + Len(b)
          /\ \A i \in 1 .. Len(head) + Len(b) :
                text[i] = IF i <= Len(head) THEN head[i] ELSE b[i - Len(head)]
        BY <2>1, ConcatProperties, Zenon
    <2> HIDE DEF text
    <2>3. \A i \in 1 .. m : text[i] = a[i]
        BY <1>1, <1>2, <2>2
    <2>4. ASSUME NEW i \in 1 .. Len(b)
          PROVE  text[m + 1 + i] = b[i]
        <3>1. /\ m + 1 + i \in 1 .. Len(head) + Len(b) /\ ~(m + 1 + i <= Len(head))
              /\ (m + 1 + i) - Len(head) = i
            BY <1>1, <1>2
        <3> QED
            BY <2>2, <3>1
    <2> QED
        BY <1>1, <1>2, <2>2, <2>3, <2>4
<1>6. /\ \A i \in 1 .. m : i \in more <=> i \in cuts
      /\ m + 1 \in more
      /\ \A i \in 1 .. N : i > m + 1 => i \notin more
    <2>1. /\ \A i \in 1 .. Len(head) : i \in more <=> i \in Cuts(head, sep)
          /\ \A i \in 1 .. Len(b) : Len(head) + i \in more <=> i \in Cuts(b, sep)
        BY <1>2, <1>3, CutsJoin
    <2> HIDE DEF more, cuts, text, N
    <2>2. ASSUME NEW i \in 1 .. N, i > m + 1
          PROVE  i \notin more
        <3>1. i - (m + 1) \in 1 .. Len(b) /\ Len(head) + (i - (m + 1)) = i
            BY <1>1, <1>2, <1>5, <2>2
        <3> QED
            BY <2>1, <3>1
    <2>3. \A i \in 1 .. m + 1 : i \in more <=> i \in Cuts(head, sep)
        BY <1>2, <2>1
    <2> QED
        BY <1>1, <1>4, <2>2, <2>3
<1> HIDE DEF more, cuts, text, N
<1> DEFINE at == InOrder(a, cuts)
           am == InOrder(text, more)
           n == Len(at) + 1
<1>7. am = Append(at, m + 1)
    <2> DEFINE bad == (1 .. m) \ cuts
               worse == (1 .. N) \ more
    <2>1. at = Without(Positions(m), bad) /\ am = Without(Positions(N), worse)
        BY <1>5, InOrderIs DEF m, N
    <2>2. \A i \in 1 .. N : i > m + 1 => i \in worse
        BY <1>6
    <2>3. m + 1 \notin worse
        BY <1>6
    <2>4. \A i \in 1 .. m : i \in bad <=> i \in worse
        BY <1>1, <1>5, <1>6
    <2>5. m + 1 \in 0 .. N
        BY <1>1, <1>5
    <2> HIDE DEF bad, worse, at, am
    <2>6. Without(Positions(N), worse) = Without(Positions(m + 1), worse)
        BY <1>5, <2>2, <2>5, NoneBehind
    <2>7. Without(Positions(m + 1), worse) = Append(Without(Positions(m), worse), m + 1)
        BY <1>1, <2>3, PositionsWithout
    <2>8. Without(Positions(m), bad) = Without(Positions(m), worse)
        BY <1>1, <2>4, SameWithout
    <2> QED
        BY <2>1, <2>6, <2>7, <2>8
<1>8. at \in Seq(1 .. m)
    BY InOrderIs DEF m
<1> DEFINE f == Fences(a, cuts)
           fm == Fences(text, more)
<1>9. /\ Len(at) \in Nat /\ \A k \in 1 .. Len(at) : at[k] \in 1 .. m
      /\ Len(f) = Len(at) + 2
      /\ f[1] = 0 /\ f[Len(at) + 2] = m + 1
      /\ \A k \in 1 .. Len(at) : f[k + 1] = at[k]
    BY FencesAre DEF m
<1>10. /\ Len(am) \in Nat
       /\ Len(fm) = Len(am) + 2
       /\ fm[1] = 0 /\ fm[Len(am) + 2] = N + 1
       /\ \A k \in 1 .. Len(am) : fm[k + 1] = am[k]
    BY <1>5, FencesAre DEF N
<1>11. ASSUME NEW k \in 1 .. n
       PROVE  f[k] \in 0 .. m /\ f[k + 1] - 1 \in 0 .. m
    BY FencesInside DEF m
<1>12. /\ Len(am) = n /\ am[n] = m + 1
       /\ \A k \in 1 .. Len(at) : am[k] = at[k]
    <2> HIDE DEF at, am
    <2> QED
        BY <1>7, <1>8, <1>9
<1> HIDE DEF at, am, f, fm
<1>13. n \in Nat /\ Len(f) = n + 1 /\ Len(fm) = n + 2
    BY <1>9, <1>10, <1>12
<1>14. fm[n + 2] = N + 1 /\ fm[n + 1] = m + 1 /\ f[n + 1] = m + 1
    BY <1>9, <1>10, <1>12, <1>13
<1>15. ASSUME NEW k \in 1 .. n + 1
       PROVE  fm[k] = f[k]
    <2>1. CASE k = 1
        BY <1>9, <1>10, <2>1
    <2>2. CASE k = n + 1
        BY <1>14, <2>2
    <2>3. CASE k # 1 /\ k # n + 1
        <3>1. k - 1 \in 1 .. Len(at) /\ k - 1 \in 1 .. Len(am) /\ (k - 1) + 1 = k
            BY <1>12, <1>13, <2>3
        <3> QED
            BY <1>9, <1>10, <1>12, <3>1
    <2> QED
        BY <2>1, <2>2, <2>3
<1> DEFINE P == Pieces(a, cuts)
           Pm == Pieces(text, more)
           T == Trims(P)
           Tm == Trims(Pm)
<1>16. /\ Len(P) = n /\ T \in Seq(Seq(Tokens)) /\ Len(T) = n
       /\ \A k \in 1 .. n : T[k] = Trim(P[k])
    BY PiecesAre DEF n, at
<1>17. /\ Len(Pm) = n + 1 /\ Tm \in Seq(Seq(Tokens)) /\ Len(Tm) = n + 1
       /\ \A k \in 1 .. n + 1 : Tm[k] = Trim(Pm[k])
    BY <1>5, <1>12, PiecesAre DEF am
<1>18. ASSUME NEW k \in 1 .. n
       PROVE  P[k] = SubSeq(a, f[k] + 1, f[k + 1] - 1)
    <2>1. Len(f) - 1 = n
        BY <1>13
    <2>2. P = [i \in 1 .. n |-> SubSeq(a, f[i] + 1, f[i + 1] - 1)]
        BY <2>1 DEF Pieces, f
    <2> HIDE DEF P
    <2> QED
        BY <2>2
<1>19. ASSUME NEW k \in 1 .. n + 1
       PROVE  Pm[k] = SubSeq(text, fm[k] + 1, fm[k + 1] - 1)
    <2>1. Len(fm) - 1 = n + 1
        BY <1>13
    <2>2. Pm = [i \in 1 .. n + 1 |-> SubSeq(text, fm[i] + 1, fm[i + 1] - 1)]
        BY <2>1 DEF Pieces, fm
    <2> HIDE DEF Pm
    <2> QED
        BY <2>2
<1> HIDE DEF P, Pm, n
<1>20. ASSUME NEW k \in 1 .. n
       PROVE  Pm[k] = P[k]
    <2>1. k \in 1 .. n + 1 /\ k + 1 \in 1 .. n + 1
        BY <1>13
    <2>2. Pm[k] = SubSeq(text, f[k] + 1, f[k + 1] - 1)
        BY <1>15, <1>19, <2>1
    <2>3. f[k] \in 0 .. m /\ f[k + 1] - 1 \in 0 .. m
        BY <1>11
    <2>4. f[k] + 1 \in Nat \ {0} /\ f[k + 1] - 1 \in Nat /\ f[k + 1] - 1 <= Len(a)
        BY <1>1, <2>3 DEF m
    <2>5. Len(a) <= Len(text)
        BY <1>1, <1>5 DEF m, N
    <2>6. SubSeq(text, f[k] + 1, f[k + 1] - 1) = SubSeq(a, f[k] + 1, f[k + 1] - 1)
        <3> DEFINE lo == f[k] + 1
                   hi == f[k + 1] - 1
        <3>1. /\ \A i \in 1 .. Len(a) : text[i] = a[i]
              /\ text \in Seq(Tokens) /\ lo \in Nat \ {0} /\ hi \in Nat /\ hi <= Len(a)
            BY <1>5, <2>4 DEF m
        <3> HIDE DEF lo, hi, Tokens
        <3>2. SubSeq(text, lo, hi) = SubSeq(a, lo, hi)
            BY <2>5, <3>1, PieceOf
        <3> QED
            BY <3>2 DEF lo, hi
    <2> QED
        BY <1>18, <2>2, <2>6
<1>21. Pm[n + 1] = b
    <2>1. n + 1 \in 1 .. n + 1 /\ (n + 1) + 1 = n + 2
        BY <1>13
    <2>2. Pm[n + 1] = SubSeq(text, (m + 1) + 1, (N + 1) - 1)
        BY <1>14, <1>19, <2>1
    <2>3. (N + 1) - 1 = N /\ (m + 1) + 1 = m + 2
        BY <1>1, <1>5
    <2> DEFINE c == SubSeq(text, m + 2, N)
    <2>4. \A i \in m + 2 .. N : text[i] \in Tokens
        BY <1>1, <1>5 DEF N
    <2>5. /\ c \in Seq(Tokens) /\ Len(c) = IF m + 2 <= N THEN N - (m + 2) + 1 ELSE 0
          /\ \A i \in 1 .. N - (m + 2) + 1 : c[i] = text[(m + 2) + i - 1]
        BY <1>1, <1>5, <2>4, SubSeqProperties
    <2> HIDE DEF c, Tokens
    <2>6. Len(c) = Len(b)
        BY <1>1, <1>5, <2>5
    <2>7. ASSUME NEW i \in 1 .. Len(c)
          PROVE  c[i] = b[i]
        <3>1. i \in 1 .. N - (m + 2) + 1 /\ (m + 2) + i - 1 = m + 1 + i /\ i \in 1 .. Len(b)
            BY <1>1, <1>5, <2>6
        <3> QED
            BY <1>5, <2>5, <3>1
    <2>8. c = b
        BY <2>5, <2>6, <2>7, SeqEqual
    <2> QED
        BY <2>2, <2>3, <2>8 DEF c
<1> HIDE DEF T, Tm
<1>22. Tm = Append(T, Trim(b))
    <2>1. Trim(b) \in Seq(Tokens)
        BY TrimIsText DEF Trim
    <2> DEFINE S == Seq(Tokens)
               u == Append(T, Trim(b))
    <2> HIDE DEF S
    <2>2. T \in Seq(S) /\ Tm \in Seq(S) /\ Trim(b) \in S
        BY <1>16, <1>17, <2>1 DEF S
    <2>3. /\ u \in Seq(S) /\ Len(u) = n + 1 /\ u[n + 1] = Trim(b)
          /\ \A k \in 1 .. n : u[k] = T[k]
        BY <1>13, <1>16, <2>2
    <2> HIDE DEF u
    <2>4. ASSUME NEW k \in 1 .. Len(Tm)
          PROVE  Tm[k] = u[k]
        <3>1. CASE k = n + 1
            BY <1>17, <1>21, <2>3, <3>1
        <3>2. CASE k # n + 1
            <4>1. k \in 1 .. n /\ k \in 1 .. n + 1
                BY <1>13, <1>17, <3>2
            <4> QED
                BY <1>16, <1>17, <1>20, <2>3, <4>1
        <3> QED
            BY <3>1, <3>2
    <2>5. Len(Tm) = Len(u)
        BY <1>17, <2>3
    <2>6. Tm = u
        BY <2>2, <2>3, <2>4, <2>5, SeqEqual
    <2> QED
        BY <2>6 DEF u
<1>23. /\ SplitTopLevel(a, sep) = Without(T, {<<>>})
       /\ SplitTopLevel(text, sep) = Without(Tm, {<<>>})
    BY SplitIs DEF T, Tm, P, Pm, cuts, more
<1>24. Without(Append(T, Trim(b)), {<<>>}) =
           IF Trim(b) \in {<<>>} THEN Without(T, {<<>>})
           ELSE Append(Without(T, {<<>>}), Trim(b))
    <2>1. Trim(b) \in Seq(Tokens)
        BY TrimIsText DEF Trim
    <2> QED
        <3> DEFINE S == Seq(Tokens)
                   e == Trim(b)
                   none == {<<>>}
        <3>1. T \in Seq(S) /\ e \in S
            BY <1>16, <2>1
        <3> HIDE DEF S, e, none
        <3>2. Without(Append(T, e), none) =
                  IF e \in none THEN Without(T, none) ELSE Append(Without(T, none), e)
            BY <3>1, WithoutOneMore
        <3> QED
            BY <3>2 DEF e, none
<1> QED
    BY <1>22, <1>23, <1>24 DEF text, head, s

----------------------------------------------------------------------------
(* Trimming.                                                               *)

\* All of a text but what lies from lo to hi is to be trimmed.
Core(text, marks, lo, hi) ==
    /\ lo \in 1 .. Len(text) /\ hi \in 1 .. Len(text)
    /\ text[lo] \notin marks /\ text[hi] \notin marks
    /\ \A i \in 1 .. Len(text) : i < lo \/ hi < i => text[i] \in marks

\* Trimming leaves the core,
LEMMA TrimToCore ==
    ASSUME NEW text \in Seq(Tokens), NEW marks, NEW lo, NEW hi, Core(text, marks, lo, hi)
    PROVE  lo <= hi /\ Trimmed(text, marks) = SubSeq(text, lo, hi)
<1> DEFINE kept == {i \in DOMAIN text : text[i] \notin marks}
<1>1. DOMAIN text = 1 .. Len(text) /\ Len(text) \in Nat
    OBVIOUS
<1>2. /\ lo \in kept /\ hi \in kept /\ kept \subseteq Nat
      /\ \A i \in kept : lo <= i /\ i <= hi
    BY <1>1 DEF Core
<1>3. Trimmed(text, marks) = SubSeq(text, Min(kept), Max(kept))
    BY <1>2 DEF Trimmed
<1> HIDE DEF kept
<1>4. Min(kept) = lo
    <2>1. Min(kept) \in kept /\ \A y \in kept : Min(kept) <= y
        BY <1>2 DEF Min
    <2> DEFINE least == Min(kept)
    <2>2. least \in kept /\ least <= lo /\ lo <= least /\ least \in Nat /\ lo \in Nat
        BY <1>2, <2>1
    <2> HIDE DEF least
    <2>3. least = lo
        BY <2>2
    <2> QED
        BY <2>3 DEF least
<1>5. Max(kept) = hi
    <2>0. \A y \in kept : hi >= y
        BY <1>2
    <2>1. Max(kept) \in kept /\ \A y \in kept : Max(kept) >= y
        BY <1>2, <2>0 DEF Max
    <2> DEFINE greatest == Max(kept)
    <2>2. /\ greatest \in kept /\ greatest >= hi /\ hi >= greatest
          /\ greatest \in Nat /\ hi \in Nat
        BY <1>2, <2>1
    <2> HIDE DEF greatest
    <2>3. greatest = hi
        BY <2>2
    <2> QED
        BY <2>3 DEF greatest
<1> QED
    BY <1>2, <1>3, <1>4, <1>5

\* or nothing.
LEMMA TrimToNothing ==
    ASSUME NEW text \in Seq(Tokens), NEW marks, \A i \in 1 .. Len(text) : text[i] \in marks
    PROVE  Trimmed(text, marks) = <<>>
<1>1. DOMAIN text = 1 .. Len(text)
    OBVIOUS
<1> QED
    BY <1>1 DEF Trimmed

\* A text has a core or nothing to keep.
LEMMA CoreExists ==
    ASSUME NEW text \in Seq(Tokens), NEW marks
    PROVE  \/ \A i \in 1 .. Len(text) : text[i] \in marks
           \/ \E lo, hi : Core(text, marks, lo, hi)
<1> DEFINE kept == {i \in 1 .. Len(text) : text[i] \notin marks}
<1>0. Len(text) \in Nat
    OBVIOUS
<1>1. CASE kept = {}
    BY <1>1
<1>2. CASE kept # {}
    <2>1. kept \in SUBSET Nat /\ kept \in SUBSET (0 .. Len(text))
        BY <1>0
    <2>2. PICK lo \in kept : \A y \in kept : lo <= y
        BY <1>2, <2>1, HasLeast
    <2>3. PICK hi \in kept : \A y \in kept : y <= hi
        BY <1>0, <1>2, <2>1, HasGreatest
    <2>4. ASSUME NEW i \in 1 .. Len(text), i < lo \/ hi < i
          PROVE  text[i] \in marks
        <3>1. i \notin kept
            BY <1>0, <2>1, <2>2, <2>3, <2>4
        <3> QED
            BY <3>1
    <2>5. Core(text, marks, lo, hi)
        BY <2>4 DEF Core
    <2> QED
        BY <2>5
<1> QED
    BY <1>1, <1>2

\* A text that begins and ends with what is kept stays as it is.
LEMMA TrimKeeps ==
    ASSUME NEW text \in Seq(Tokens), text # <<>>, NEW marks,
           text[1] \notin marks, text[Len(text)] \notin marks
    PROVE  Trimmed(text, marks) = text
<1>1. Len(text) \in Nat /\ Len(text) >= 1 /\ SubSeq(text, 1, Len(text)) = text
    OBVIOUS
<1>2. Core(text, marks, 1, Len(text))
    BY <1>1 DEF Core
<1>3. Trimmed(text, marks) = SubSeq(text, 1, Len(text))
    BY <1>2, TrimToCore
<1> QED
    BY <1>1, <1>3

\* A token before a text.
LEMMA OneBefore ==
    ASSUME NEW text \in Seq(Tokens), NEW tok \in Tokens
    PROVE  /\ <<tok>> \o text \in Seq(Tokens)
           /\ Len(<<tok>> \o text) = Len(text) + 1
           /\ (<<tok>> \o text)[1] = tok
           /\ \A i \in 1 .. Len(text) : (<<tok>> \o text)[i + 1] = text[i]
<1> DEFINE s == <<tok>>
           more == s \o text
<1>1. Len(text) \in Nat /\ s \in Seq(Tokens) /\ Len(s) = 1 /\ s[1] = tok
    OBVIOUS
<1> HIDE DEF s
<1>2. /\ more \in Seq(Tokens) /\ Len(more) = Len(s) + Len(text)
      /\ \A i \in 1 .. Len(s) + Len(text) :
            more[i] = IF i <= Len(s) THEN s[i] ELSE text[i - Len(s)]
    <2>1. s \in Seq(Tokens)
        BY <1>1
    <2> QED
        BY <2>1, ConcatProperties, Zenon
<1> HIDE DEF more
<1>3. Len(more) = Len(text) + 1 /\ more[1] = tok
    BY <1>1, <1>2
<1>4. ASSUME NEW i \in 1 .. Len(text)
      PROVE  more[i + 1] = text[i]
    <2>1. i + 1 \in 1 .. Len(s) + Len(text) /\ ~(i + 1 <= Len(s)) /\ (i + 1) - Len(s) = i
        BY <1>1
    <2> QED
        BY <1>2, <2>1
<1> QED
    BY <1>2, <1>3, <1>4 DEF more, s

\* A mark in front is trimmed.
LEMMA TrimFront ==
    ASSUME NEW mark \in Tokens, NEW text \in Seq(Tokens), NEW marks, mark \in marks
    PROVE  Trimmed(<<mark>> \o text, marks) = Trimmed(text, marks)
<1> DEFINE n == Len(text)
           more == <<mark>> \o text
<1>1. n \in Nat
    OBVIOUS
<1>2. /\ more \in Seq(Tokens) /\ Len(more) = n + 1 /\ more[1] = mark
      /\ \A i \in 1 .. n : more[i + 1] = text[i]
    BY OneBefore
<1> HIDE DEF more
<1>3. CASE \A i \in 1 .. n : text[i] \in marks
    <2>1. ASSUME NEW i \in 1 .. n + 1
          PROVE  more[i] \in marks
        <3>1. CASE i = 1
            BY <1>2, <3>1
        <3>2. CASE i # 1
            <4>1. i - 1 \in 1 .. n /\ (i - 1) + 1 = i
                BY <1>1, <3>2
            <4> QED
                BY <1>2, <1>3, <4>1
        <3> QED
            BY <3>1, <3>2
    <2>2. Trimmed(more, marks) = <<>>
        BY <1>2, <2>1, TrimToNothing
    <2>3. Trimmed(text, marks) = <<>>
        BY <1>3, TrimToNothing
    <2> QED
        BY <2>2, <2>3 DEF more
<1>4. CASE \E lo, hi : Core(text, marks, lo, hi)
    <2>1. PICK lo, hi : Core(text, marks, lo, hi)
        BY <1>4
    <2>2. lo \in 1 .. n /\ hi \in 1 .. n
        BY <2>1 DEF Core
    <2>3. lo <= hi /\ Trimmed(text, marks) = SubSeq(text, lo, hi)
        BY <2>1, TrimToCore
    <2>4. Core(more, marks, lo + 1, hi + 1)
        <3>1. more[lo + 1] \notin marks /\ more[hi + 1] \notin marks
            BY <1>2, <2>1, <2>2 DEF Core
        <3>2. ASSUME NEW i \in 1 .. n + 1, i < lo + 1 \/ hi + 1 < i
              PROVE  more[i] \in marks
            <4>1. CASE i = 1
                BY <1>2, <4>1
            <4>2. CASE i # 1
                <5>1. i - 1 \in 1 .. n /\ (i - 1) + 1 = i /\ (i - 1 < lo \/ hi < i - 1)
                    BY <1>1, <2>2, <3>2, <4>2
                <5> QED
                    BY <1>2, <2>1, <5>1 DEF Core
            <4> QED
                BY <4>1, <4>2
        <3> QED
            BY <1>1, <1>2, <2>2, <3>1, <3>2 DEF Core
    <2>5. Trimmed(more, marks) = SubSeq(more, lo + 1, hi + 1)
        BY <1>2, <2>4, TrimToCore
    <2>6. SubSeq(more, lo + 1, hi + 1) = SubSeq(text, lo, hi)
        <3> DEFINE u == SubSeq(more, lo + 1, hi + 1)
                   v == SubSeq(text, lo, hi)
        <3>1. /\ \A i \in lo + 1 .. hi + 1 : more[i] \in Tokens
              /\ \A i \in lo .. hi : text[i] \in Tokens
              /\ lo \in Int /\ hi \in Int
            BY <1>1, <1>2, <2>2
        <3>2. /\ u \in Seq(Tokens) /\ Len(u) = (hi + 1) - (lo + 1) + 1
              /\ \A i \in 1 .. (hi + 1) - (lo + 1) + 1 : u[i] = more[(lo + 1) + i - 1]
            BY <2>3, <3>1, SubSeqProperties
        <3>3. /\ v \in Seq(Tokens) /\ Len(v) = hi - lo + 1
              /\ \A i \in 1 .. hi - lo + 1 : v[i] = text[lo + i - 1]
            BY <2>3, <3>1, SubSeqProperties
        <3> HIDE DEF u, v, Tokens
        <3>4. Len(u) = Len(v)
            BY <2>2, <3>2, <3>3
        <3>5. ASSUME NEW i \in 1 .. Len(u)
              PROVE  u[i] = v[i]
            <4>1. /\ i \in 1 .. hi - lo + 1 /\ i \in 1 .. (hi + 1) - (lo + 1) + 1
                  /\ lo + i - 1 \in 1 .. n /\ (lo + 1) + i - 1 = (lo + i - 1) + 1
                BY <1>1, <2>2, <3>2
            <4> QED
                BY <1>2, <3>2, <3>3, <4>1
        <3>6. u = v
            BY <3>2, <3>3, <3>4, <3>5, SeqEqual
        <3> QED
            BY <3>6 DEF u, v
    <2> QED
        BY <2>3, <2>5, <2>6 DEF more
<1> QED
    BY <1>3, <1>4, CoreExists

\* A text cut from another one.
LEMMA SliceIs ==
    ASSUME NEW text \in Seq(Tokens), NEW lo \in 1 .. Len(text), NEW hi \in lo .. Len(text)
    PROVE  /\ SubSeq(text, lo, hi) \in Seq(Tokens)
           /\ Len(SubSeq(text, lo, hi)) = hi - lo + 1
           /\ \A i \in 1 .. hi - lo + 1 : SubSeq(text, lo, hi)[i] = text[lo + i - 1]
<1>1. /\ Len(text) \in Nat /\ lo \in Int /\ hi \in Int /\ lo <= hi
      /\ \A i \in lo .. hi : text[i] \in Tokens
    OBVIOUS
<1> DEFINE u == SubSeq(text, lo, hi)
<1>2. /\ u \in Seq(Tokens) /\ Len(u) = IF lo <= hi THEN hi - lo + 1 ELSE 0
      /\ \A i \in 1 .. hi - lo + 1 : u[i] = text[lo + i - 1]
    BY <1>1, SubSeqProperties
<1> HIDE DEF u
<1>3. Len(u) = hi - lo + 1
    BY <1>1, <1>2
<1> QED
    BY <1>2, <1>3 DEF u

\* What is trimmed in front does not matter to the core.
LEMMA TrimSlice ==
    ASSUME NEW text \in Seq(Tokens), NEW marks, NEW lo, NEW hi, Core(text, marks, lo, hi),
           NEW k \in hi .. Len(text)
    PROVE  Trimmed(SubSeq(text, lo, k), marks) = SubSeq(text, lo, hi)
<1> DEFINE u == SubSeq(text, lo, k)
           e == hi - lo + 1
<1>1. lo \in 1 .. Len(text) /\ hi \in lo .. Len(text) /\ Len(text) \in Nat /\ k \in lo .. Len(text)
    BY TrimToCore DEF Core
<1>2. /\ u \in Seq(Tokens) /\ Len(u) = k - lo + 1
      /\ \A i \in 1 .. k - lo + 1 : u[i] = text[lo + i - 1]
    BY <1>1, SliceIs
<1> HIDE DEF u
<1>3. Core(u, marks, 1, e)
    <2>1. e \in 1 .. Len(u) /\ 1 \in 1 .. Len(u)
        BY <1>1, <1>2
    <2>2. lo + 1 - 1 = lo /\ lo + e - 1 = hi
        BY <1>1
    <2>3. u[1] \notin marks /\ u[e] \notin marks
        BY <1>2, <2>1, <2>2 DEF Core
    <2>4. ASSUME NEW i \in 1 .. Len(u), i < 1 \/ e < i
          PROVE  u[i] \in marks
        <3>1. lo + i - 1 \in 1 .. Len(text) /\ hi < lo + i - 1
            BY <1>1, <1>2, <2>4
        <3>2. text[lo + i - 1] \in marks
            BY <3>1 DEF Core
        <3> QED
            BY <1>2, <3>2
    <2> QED
        BY <2>1, <2>3, <2>4 DEF Core
<1>4. Trimmed(u, marks) = SubSeq(u, 1, e)
    BY <1>2, <1>3, TrimToCore
<1>5. SubSeq(u, 1, e) = SubSeq(text, lo, hi)
    <2>1. e \in 1 .. Len(u) /\ 1 \in 1 .. e
        BY <1>1, <1>2
    <2> DEFINE v == SubSeq(u, 1, e)
               w == SubSeq(text, lo, hi)
    <2>2. /\ v \in Seq(Tokens) /\ Len(v) = e - 1 + 1
          /\ \A i \in 1 .. e - 1 + 1 : v[i] = u[1 + i - 1]
        BY <1>2, <2>1, SliceIs
    <2>3. /\ w \in Seq(Tokens) /\ Len(w) = hi - lo + 1
          /\ \A i \in 1 .. hi - lo + 1 : w[i] = text[lo + i - 1]
        BY <1>1, SliceIs
    <2> HIDE DEF v, w, Tokens
    <2>4. Len(v) = Len(w)
        BY <1>1, <2>2, <2>3
    <2>5. ASSUME NEW i \in 1 .. Len(v)
          PROVE  v[i] = w[i]
        <3>1. i \in 1 .. e - 1 + 1 /\ i \in 1 .. hi - lo + 1 /\ i \in 1 .. k - lo + 1
              /\ 1 + i - 1 = i
            BY <1>1, <2>2
        <3> QED
            BY <1>2, <2>2, <2>3, <3>1
    <2>6. v = w
        BY <2>2, <2>3, <2>4, <2>5, SeqEqual
    <2> QED
        BY <2>6 DEF v, w
<1> QED
    BY <1>4, <1>5 DEF u

----------------------------------------------------------------------------
(* The end of a statement.                                                 *)

\* Unterminated drops the semicolons behind the last other token,
LEMMA UnterminatedAt ==
    ASSUME NEW text \in Seq(Tokens), NEW k \in 1 .. Len(text), text[k] # Semicolon,
           \A i \in 1 .. Len(text) : i > k => text[i] = Semicolon
    PROVE  Unterminated(text) = SubSeq(text, 1, k)
<1> DEFINE others == {i \in 1 .. Len(text) : text[i] # Semicolon}
<1>1. Unterminated(text) = SubSeq(text, 1, IF others # {} THEN Max(others) ELSE 0)
    BY Zenon DEF Unterminated, SelectLastInSeq, Semicolon
<1>2. k \in others /\ others \subseteq Nat /\ \A y \in others : k >= y
    OBVIOUS
<1> HIDE DEF others
<1>3. Max(others) \in others /\ \A y \in others : Max(others) >= y
    BY <1>2 DEF Max
<1> DEFINE greatest == Max(others)
<1>4. greatest >= k /\ k >= greatest /\ greatest \in Nat /\ k \in Nat
    BY <1>2, <1>3
<1> HIDE DEF greatest
<1>5. greatest = k
    BY <1>4
<1> QED
    BY <1>1, <1>2, <1>5 DEF greatest

\* and all of a text that has no other.
LEMMA UnterminatedNone ==
    ASSUME NEW text \in Seq(Tokens), \A i \in 1 .. Len(text) : text[i] = Semicolon
    PROVE  Unterminated(text) = <<>>
<1> DEFINE others == {i \in 1 .. Len(text) : text[i] # Semicolon}
<1>1. Unterminated(text) = SubSeq(text, 1, IF others # {} THEN Max(others) ELSE 0)
    BY Zenon DEF Unterminated, SelectLastInSeq, Semicolon
<1>2. others = {}
    OBVIOUS
<1>3. SubSeq(text, 1, 0) = <<>>
    OBVIOUS
<1> QED
    BY <1>1, <1>2, <1>3

\* Going past a blank or a semicolon changes nothing.
LEMMA PastMark ==
    ASSUME NEW ctx
    PROVE  Past(ctx, Blank) = ctx /\ Past(ctx, Semicolon) = ctx
BY Zenon DEF Past, Blank, Semicolon

\* A text that ends nothing and is closed has another last token.
LEMMA LastIsNoEnd ==
    ASSUME NEW text \in Seq(Tokens), Closed(text), Cuts(text, Semicolon) = {},
           NEW hi \in 1 .. Len(text),
           \A i \in 1 .. Len(text) : hi < i => text[i] = Blank
    PROVE  text[hi] # Semicolon
<1> SUFFICES ASSUME text[hi] = Semicolon PROVE FALSE
    OBVIOUS
<1> DEFINE C == Contexts(text)
           n == Len(text)
           P == {k \in Nat : hi <= n - k => C[(n - k) + 1] = Plain}
<1>1. Situated(C, text)
    BY ContextsAre
<1>2. n \in Nat /\ DOMAIN text = 1 .. n
    OBVIOUS
<1> HIDE DEF C
<1>3. 0 \in P
    BY <1>2 DEF Closed, C
<1>4. ASSUME NEW k \in Nat, k \in P
      PROVE  k + 1 \in P
    <2> SUFFICES ASSUME hi <= n - (k + 1)
                 PROVE  C[(n - (k + 1)) + 1] = Plain
        OBVIOUS
    <2> DEFINE i == n - k
    <2>1. i \in 1 .. n /\ hi < i /\ (n - (k + 1)) + 1 = i
        BY <1>2
    <2>2. C[i + 1] = Plain
        BY <1>4, <2>1
    <2>3. C[i + 1] = Past(C[i], text[i]) /\ text[i] = Blank
        BY <1>1, <2>1 DEF Situated
    <2>4. Past(C[i], Blank) = C[i]
        BY PastMark
    <2> HIDE DEF i
    <2> QED
        BY <2>1, <2>2, <2>3, <2>4
<1> HIDE DEF P
<1>5. n - hi \in P
    BY <1>2, <1>3, <1>4, Induct
<1>6. C[hi + 1] = Plain
    <2>1. n - (n - hi) = hi /\ n - hi \in Nat /\ hi <= hi
        BY <1>2
    <2> QED
        BY <1>5, <2>1 DEF P
<1>7. C[hi + 1] = Past(C[hi], text[hi])
    BY <1>1 DEF Situated
<1>8. C[hi] = Plain
    BY <1>6, <1>7, PastMark
<1>9. hi \in TopLevel(text)
    BY <1>2, <1>8 DEF TopLevel, C, Unquoted, Plain
<1> QED
    BY <1>9 DEF Cuts

\* What a statement is, whatever ends it.
Statement(text) == text \in Seq(Tokens) /\ Closed(text) /\ Cuts(text, Semicolon) = {}

\* Trim drops blanks.
LEMMA TrimMeans ==
    ASSUME NEW text
    PROVE  Trim(text) = Trimmed(text, {Blank})
BY Zenon DEF Trim, Blank

\* A token behind a text.
LEMMA OneBehind ==
    ASSUME NEW text \in Seq(Tokens), NEW tok \in Tokens
    PROVE  /\ text \o <<tok>> \in Seq(Tokens)
           /\ Len(text \o <<tok>>) = Len(text) + 1
           /\ (text \o <<tok>>)[Len(text) + 1] = tok
           /\ \A i \in 1 .. Len(text) : (text \o <<tok>>)[i] = text[i]
<1> DEFINE s == <<tok>>
           more == text \o s
<1>1. s \in Seq(Tokens) /\ Len(s) = 1 /\ s[1] = tok /\ Len(text) \in Nat
    OBVIOUS
<1> HIDE DEF s, Tokens
<1>2. /\ more \in Seq(Tokens) /\ Len(more) = Len(text) + Len(s)
      /\ \A i \in 1 .. Len(text) + Len(s) :
            more[i] = IF i <= Len(text) THEN text[i] ELSE s[i - Len(text)]
    BY <1>1, ConcatProperties, Zenon
<1> HIDE DEF more
<1>3. more[Len(text) + 1] = s[1]
    BY <1>1, <1>2
<1>4. \A i \in 1 .. Len(text) : more[i] = text[i]
    BY <1>1, <1>2
<1> QED
    BY <1>1, <1>2, <1>3, <1>4 DEF more, s

\* A text of blanks alone.
LEMMA BlanksEnd ==
    ASSUME NEW text \in Seq(Tokens), \A i \in 1 .. Len(text) : text[i] = Blank
    PROVE  /\ Trim(Unterminated(Trim(text))) = <<>> /\ Trim(text) = <<>>
           /\ Trim(Unterminated(Trim(text \o <<Semicolon>>))) = <<>>
<1> DEFINE n == Len(text)
           more == text \o <<Semicolon>>
           one == SubSeq(more, n + 1, n + 1)
<1>0. n \in Nat /\ Semicolon \in Tokens /\ Blank \in Tokens /\ Semicolon # Blank
    BY MarksAreTokens
<1>1. <<>> \in Seq(Tokens) /\ Len(<<>>) = 0
    OBVIOUS
<1>2. \A marks : Trimmed(<<>>, marks) = <<>>
    <2>1. \A i \in 1 .. Len(<<>>) : FALSE
        BY <1>1
    <2> QED
        BY <1>1, <2>1, TrimToNothing
<1>3. Trim(text) = <<>>
    <2>1. \A i \in 1 .. Len(text) : text[i] \in {Blank}
        OBVIOUS
    <2>2. Trimmed(text, {Blank}) = <<>>
        BY <2>1, TrimToNothing
    <2> QED
        BY <2>2, TrimMeans
<1>4. Unterminated(<<>>) = <<>>
    <2>1. \A i \in 1 .. Len(<<>>) : <<>>[i] = Semicolon
        BY <1>1
    <2> QED
        BY <1>1, <2>1, UnterminatedNone
<1>5. Trim(<<>>) = <<>>
    BY <1>2, TrimMeans
<1>6. /\ more \in Seq(Tokens) /\ Len(more) = n + 1 /\ more[n + 1] = Semicolon
      /\ \A i \in 1 .. n : more[i] = Blank
    BY <1>0, OneBehind
<1> HIDE DEF more
<1>7. Core(more, {Blank}, n + 1, n + 1)
    BY <1>0, <1>6 DEF Core
<1>8. Trim(more) = one
    <2> DEFINE marks == {Blank}
    <2>1. Core(more, marks, n + 1, n + 1)
        BY <1>7
    <2> HIDE DEF marks
    <2>2. Trimmed(more, marks) = one
        BY <1>6, <2>1, TrimToCore
    <2> QED
        BY <2>2, TrimMeans DEF marks
<1>9. one \in Seq(Tokens) /\ \A i \in 1 .. Len(one) : one[i] = Semicolon
    <2>1. n + 1 \in 1 .. Len(more) /\ n + 1 \in n + 1 .. Len(more)
        BY <1>0, <1>6
    <2>2. /\ one \in Seq(Tokens) /\ Len(one) = (n + 1) - (n + 1) + 1
          /\ \A i \in 1 .. (n + 1) - (n + 1) + 1 : one[i] = more[(n + 1) + i - 1]
        BY <1>6, <2>1, SliceIs
    <2> HIDE DEF one
    <2> QED
        BY <1>0, <1>6, <2>2
<1> HIDE DEF one
<1>10. Unterminated(one) = <<>>
    BY <1>9, UnterminatedNone
<1> QED
    BY <1>3, <1>4, <1>5, <1>8, <1>10 DEF more

\* The end of a statement and the blanks around it go.
LEMMA EndIsCut ==
    ASSUME NEW body, Statement(body)
    PROVE  /\ Trim(Unterminated(Trim(body))) = Trim(body)
           /\ Trim(Unterminated(Trim(body \o <<Semicolon>>))) = Trim(body)
<1> DEFINE n == Len(body)
           more == body \o <<Semicolon>>
<1>0. /\ body \in Seq(Tokens) /\ n \in Nat
      /\ Semicolon \in Tokens /\ Blank \in Tokens /\ Semicolon # Blank
    BY MarksAreTokens DEF Statement
<1>1. CASE \A i \in 1 .. n : body[i] \in {Blank}
    BY <1>0, <1>1, BlanksEnd
<1>2. CASE \E lo, hi : Core(body, {Blank}, lo, hi)
    <2>1. PICK lo, hi : Core(body, {Blank}, lo, hi)
        BY <1>2
    <2> DEFINE kept == SubSeq(body, lo, hi)
               len == hi - lo + 1
    <2>2. lo \in 1 .. n /\ hi \in lo .. n
        BY <1>0, <2>1, TrimToCore DEF Core
    <2>3. Trim(body) = kept
        BY <1>0, <2>1, TrimToCore, TrimMeans
    <2>4. /\ kept \in Seq(Tokens) /\ Len(kept) = len
          /\ \A i \in 1 .. len : kept[i] = body[lo + i - 1]
        BY <1>0, <2>2, SliceIs
    <2>5. body[hi] # Semicolon
        <3>1. \A i \in 1 .. n : hi < i => body[i] = Blank
            BY <2>1 DEF Core
        <3>2. hi \in 1 .. n
            BY <1>0, <2>2
        <3> QED
            BY <3>1, <3>2, LastIsNoEnd DEF Statement
    <2> HIDE DEF kept
    <2>6. len \in 1 .. len /\ kept[len] = body[hi] /\ kept[1] = body[lo] /\ kept # <<>>
        <3>1. len \in 1 .. len /\ 1 \in 1 .. len /\ lo + len - 1 = hi /\ lo + 1 - 1 = lo
            BY <1>0, <2>2
        <3>2. Len(<<>>) = 0
            OBVIOUS
        <3> QED
            BY <2>4, <3>1, <3>2
    <2>7. Trim(kept) = kept
        <3>1. kept[1] \notin {Blank} /\ kept[Len(kept)] \notin {Blank}
            BY <2>1, <2>4, <2>6 DEF Core
        <3> QED
            BY <2>4, <2>6, <3>1, TrimKeeps, TrimMeans
    <2>8. Unterminated(kept) = kept
        <3>1. Unterminated(kept) = SubSeq(kept, 1, len)
            BY <2>4, <2>5, <2>6, UnterminatedAt
        <3>2. SubSeq(kept, 1, Len(kept)) = kept
            BY <2>4
        <3> QED
            BY <2>4, <3>1, <3>2
    <2>9. /\ more \in Seq(Tokens) /\ Len(more) = n + 1 /\ more[n + 1] = Semicolon
          /\ \A i \in 1 .. n : more[i] = body[i]
        BY <1>0, OneBehind
    <2> HIDE DEF more
    <2>10. Core(more, {Blank}, lo, n + 1)
        <3>1. lo \in 1 .. n + 1 /\ n + 1 \in 1 .. n + 1 /\ more[lo] = body[lo]
            BY <1>0, <2>2, <2>9
        <3>2. ASSUME NEW i \in 1 .. n + 1, i < lo \/ n + 1 < i
              PROVE  more[i] \in {Blank}
            <4>1. i \in 1 .. n /\ i < lo
                BY <1>0, <2>2, <3>2
            <4> QED
                BY <2>1, <2>9, <4>1 DEF Core
        <3> QED
            BY <1>0, <2>1, <2>9, <3>1, <3>2 DEF Core
    <2> DEFINE ended == SubSeq(more, lo, n + 1)
               cut == n - lo + 1
               left == SubSeq(body, lo, n)
    <2>11. Trim(more) = ended
        <3> DEFINE marks == {Blank}
        <3>1. Core(more, marks, lo, n + 1)
            BY <2>10
        <3> HIDE DEF marks
        <3>2. Trimmed(more, marks) = ended
            BY <2>9, <3>1, TrimToCore
        <3> QED
            BY <3>2, TrimMeans DEF marks
    <2>12. /\ ended \in Seq(Tokens) /\ Len(ended) = cut + 1
           /\ \A i \in 1 .. cut + 1 : ended[i] = more[lo + i - 1]
        <3>1. lo \in 1 .. Len(more) /\ n + 1 \in lo .. Len(more)
              /\ (n + 1) - lo + 1 = cut + 1
            BY <1>0, <2>2, <2>9
        <3> QED
            BY <2>9, <3>1, SliceIs
    <2> HIDE DEF ended
    <2>13. /\ left \in Seq(Tokens) /\ Len(left) = cut
           /\ \A i \in 1 .. cut : left[i] = body[lo + i - 1]
        <3>1. lo \in 1 .. n /\ n \in lo .. n
            BY <1>0, <2>2
        <3> QED
            BY <1>0, <3>1, SliceIs
    <2> HIDE DEF left
    <2>14. Trim(left) = kept
        <3>1. n \in hi .. n
            BY <1>0, <2>2
        <3>2. Trimmed(SubSeq(body, lo, n), {Blank}) = SubSeq(body, lo, hi)
            <4> DEFINE marks == {Blank}
            <4>1. Core(body, marks, lo, hi) /\ n \in hi .. Len(body)
                BY <2>1, <3>1
            <4> HIDE DEF marks, n
            <4>2. Trimmed(SubSeq(body, lo, n), marks) = SubSeq(body, lo, hi)
                BY <1>0, <4>1, TrimSlice
            <4> QED
                BY <4>2 DEF marks
        <3> QED
            BY <3>2, TrimMeans DEF left, kept
    <2>15. body[n] # Semicolon
        <3>1. CASE n = hi
            BY <2>5, <3>1
        <3>2. CASE n # hi
            <4>1. n \in 1 .. n /\ hi < n
                BY <1>0, <2>2, <3>2
            <4>2. body[n] = Blank
                BY <2>1, <4>1 DEF Core
            <4> QED
                BY <1>0, <4>2
        <3> QED
            BY <3>1, <3>2
    <2>16. /\ cut \in 1 .. cut + 1 /\ cut + 1 \in 1 .. cut + 1
           /\ lo + cut - 1 = n /\ lo + (cut + 1) - 1 = n + 1
           /\ n \in 1 .. n
        BY <1>0, <2>2
    <2>17. ended[cut] # Semicolon /\ ended[cut + 1] = Semicolon
        BY <2>9, <2>12, <2>15, <2>16
    <2>18. Unterminated(ended) = SubSeq(ended, 1, cut)
        <3>1. cut \in 1 .. Len(ended)
            BY <2>12, <2>16
        <3>2. \A i \in 1 .. Len(ended) : i > cut => ended[i] = Semicolon
            <4>1. \A i \in 1 .. Len(ended) : i > cut => i = cut + 1
                BY <2>12, <2>16
            <4> QED
                BY <2>17, <4>1
        <3> HIDE DEF cut
        <3> QED
            BY <2>12, <2>17, <3>1, <3>2, UnterminatedAt
    <2>19. SubSeq(ended, 1, cut) = left
        <3> DEFINE u == SubSeq(ended, 1, cut)
        <3>1. cut \in 1 .. Len(ended) /\ 1 \in 1 .. Len(ended) /\ cut \in 1 .. Len(ended)
              /\ cut - 1 + 1 = cut
            BY <2>12, <2>16
        <3>2. /\ u \in Seq(Tokens) /\ Len(u) = cut - 1 + 1
              /\ \A i \in 1 .. cut - 1 + 1 : u[i] = ended[1 + i - 1]
            BY <2>12, <3>1, SliceIs
        <3> HIDE DEF u, Tokens
        <3>3. ASSUME NEW i \in 1 .. Len(u)
              PROVE  u[i] = left[i]
            <4>1. /\ i \in 1 .. cut /\ i \in 1 .. cut + 1 /\ i \in 1 .. cut - 1 + 1
                  /\ 1 + i - 1 = i /\ lo + i - 1 \in 1 .. n
                BY <1>0, <2>2, <3>1, <3>2
            <4>2. u[i] = ended[i] /\ ended[i] = more[lo + i - 1]
                BY <2>12, <3>2, <4>1
            <4>3. more[lo + i - 1] = body[lo + i - 1]
                BY <2>9, <4>1
            <4>4. left[i] = body[lo + i - 1]
                BY <2>13, <4>1
            <4> QED
                BY <4>2, <4>3, <4>4
        <3>4. u = left
            BY <2>13, <3>1, <3>2, <3>3, SeqEqual
        <3> QED
            BY <3>4 DEF u
    <2> QED
        BY <2>3, <2>7, <2>8, <2>11, <2>14, <2>18, <2>19 DEF more
<1> QED
    BY <1>0, <1>1, <1>2, CoreExists

\* What is left of one piece.
LEMMA OneLeft ==
    ASSUME NEW piece
    PROVE  Without(<<piece>>, {<<>>}) = IF piece = <<>> THEN <<>> ELSE <<piece>>
<1> DEFINE E == {piece}
           none == {<<>>}
           empty == <<>>
<1>1. empty \in Seq(E) /\ piece \in E /\ Append(empty, piece) = <<piece>>
    OBVIOUS
<1>3. Without(empty, none) = empty
    BY WithoutOfNone
<1> HIDE DEF E, none, empty
<1>2. Without(Append(empty, piece), none) =
          IF piece \in none THEN Without(empty, none) ELSE Append(Without(empty, none), piece)
    <2>1. empty \in Seq(E) /\ piece \in E
        BY <1>1
    <2> QED
        BY <2>1, WithoutOneMore
<1> QED
    BY <1>1, <1>2, <1>3 DEF none, empty

\* Texts that end nothing make one that ends nothing.
LEMMA StatementJoin ==
    ASSUME NEW a, NEW b, Statement(a), Statement(b)
    PROVE  Statement(a \o b)
<1> DEFINE text == a \o b
<1>1. /\ a \in Seq(Tokens) /\ b \in Seq(Tokens) /\ Closed(a) /\ Closed(b)
      /\ Cuts(a, Semicolon) = {} /\ Cuts(b, Semicolon) = {}
    BY DEF Statement
<1>2. text \in Seq(Tokens) /\ Closed(text)
    BY <1>1, ClosedJoin
<1>3. /\ \A i \in 1 .. Len(a) : i \in Cuts(text, Semicolon) <=> i \in Cuts(a, Semicolon)
      /\ \A i \in 1 .. Len(b) :
            Len(a) + i \in Cuts(text, Semicolon) <=> i \in Cuts(b, Semicolon)
    BY <1>1, CutsJoin
<1>4. Len(a) \in Nat /\ Len(b) \in Nat /\ DOMAIN text = 1 .. Len(a) + Len(b)
    BY <1>1
<1> HIDE DEF text, Tokens
<1>5. ASSUME NEW i \in Cuts(text, Semicolon)
      PROVE  FALSE
    <2>1. i \in 1 .. Len(a) + Len(b)
        BY <1>4 DEF Cuts, TopLevel
    <2>2. CASE i <= Len(a)
        BY <1>1, <1>3, <1>4, <2>1, <2>2
    <2>3. CASE ~(i <= Len(a))
        <3>1. i - Len(a) \in 1 .. Len(b) /\ Len(a) + (i - Len(a)) = i
            BY <1>4, <2>1, <2>3
        <3> QED
            BY <1>1, <1>3, <3>1
    <2> QED
        BY <2>2, <2>3
<1> QED
    BY <1>2, <1>5 DEF Statement, text

\* A blank, and nothing at all, end no statement.
LEMMA BlankIsStatement == Statement(<<Blank>>) /\ Statement(<<>>) /\ Trim(<<Blank>>) = <<>>
<1>1. /\ <<Blank>> \in Seq(Tokens) /\ Closed(<<Blank>>)
    BY MarksAreTokens, MarkIsClosed
<1>2. Semicolon # Blank
    BY MarksAreTokens
<1> DEFINE one == <<Blank>>
<1>3. DOMAIN one = {1} /\ one[1] = Blank /\ Len(one) = 1
    OBVIOUS
<1> HIDE DEF one
<1>4. Cuts(one, Semicolon) = {}
    BY <1>2, <1>3 DEF Cuts, TopLevel
<1>5. DOMAIN <<>> = {}
    OBVIOUS
<1>6. Cuts(<<>>, Semicolon) = {}
    BY <1>5, Zenon DEF Cuts, TopLevel
<1>7. Trim(one) = <<>>
    <2>1. \A i \in 1 .. Len(one) : one[i] \in {Blank}
        BY <1>3
    <2>2. Trimmed(one, {Blank}) = <<>>
        BY <1>1, <2>1, TrimToNothing DEF one
    <2> QED
        BY <2>2, TrimMeans
<1> QED
    BY <1>1, <1>4, <1>6, <1>7, NothingIsClosed DEF Statement, one

\* Nothing is left of nothing.
LEMMA TrimOfNothing == Trim(<<>>) = <<>>
<1>1. <<>> \in Seq(Tokens) /\ \A i \in 1 .. Len(<<>>) : <<>>[i] \in {Blank}
    OBVIOUS
<1>2. Trimmed(<<>>, {Blank}) = <<>>
    BY <1>1, TrimToNothing
<1> QED
    BY <1>2, TrimMeans

\* A closed text, a semicolon and a statement.
LEMMA SplitBehind ==
    ASSUME NEW a \in Seq(Tokens), Closed(a), NEW b, Statement(b)
    PROVE  LET text == (a \o <<Semicolon>>) \o b
           IN  /\ text \in Seq(Tokens) /\ Closed(text)
               /\ SplitTopLevel(text, Semicolon) =
                      IF Trim(b) = <<>> THEN SplitTopLevel(a, Semicolon)
                      ELSE Append(SplitTopLevel(a, Semicolon), Trim(b))
<1> DEFINE s == <<Semicolon>>
           head == a \o s
<1>1. /\ Semicolon \in Tokens /\ Past(Plain, Semicolon) = Plain
      /\ s \in Seq(Tokens) /\ Closed(s)
    BY MarksAreTokens, MarkIsClosed
<1>2. b \in Seq(Tokens) /\ Closed(b) /\ Cuts(b, Semicolon) = {}
    BY DEF Statement
<1>3. SplitTopLevel((a \o <<Semicolon>>) \o b, Semicolon) =
          IF Trim(b) = <<>> THEN SplitTopLevel(a, Semicolon)
          ELSE Append(SplitTopLevel(a, Semicolon), Trim(b))
    BY <1>1, <1>2, SplitMore
<1> HIDE DEF s
<1>4. head \in Seq(Tokens) /\ Closed(head)
    BY <1>1, ClosedJoin
<1> HIDE DEF head
<1>5. head \o b \in Seq(Tokens) /\ Closed(head \o b)
    BY <1>2, <1>4, ClosedJoin
<1> QED
    BY <1>3, <1>5 DEF head, s

----------------------------------------------------------------------------
(* Batches.                                                                *)

\* A statement, perhaps with its end.
Ended(text, body) == text = body \/ text = (body \o <<Semicolon>>) \o <<>>

Left(body) == Without(<<Trim(body)>>, {<<>>})

\* A statement is split into itself.
LEMMA EndedIsSplit ==
    ASSUME NEW text, NEW body, Statement(body), Ended(text, body)
    PROVE  /\ text \in Seq(Tokens) /\ Closed(text)
           /\ SplitTopLevel(text, Semicolon) = Left(body)
<1>1. body \in Seq(Tokens) /\ Closed(body) /\ Cuts(body, Semicolon) = {}
    BY DEF Statement
<1>2. SplitTopLevel(body, Semicolon) = Left(body)
    BY <1>1, SplitAlone DEF Left
<1>3. CASE text = body
    BY <1>1, <1>2, <1>3
<1>4. CASE text = (body \o <<Semicolon>>) \o <<>>
    BY <1>1, <1>2, <1>4, BlankIsStatement, TrimOfNothing, SplitBehind
<1> QED
    BY <1>3, <1>4 DEF Ended

\* A statement that needs no trimming is all that is left of it.
Neat(n) == Statement(n) /\ n # <<>> /\ n[1] # Blank /\ n[Len(n)] # Blank

\* It is its own only piece.
LEMMA NeatIsLeft ==
    ASSUME NEW n, Neat(n)
    PROVE  Trim(n) = n /\ Left(n) = <<n>>
<1>1. Trimmed(n, {Blank}) = n
    <2>1. n[1] \notin {Blank} /\ n[Len(n)] \notin {Blank} /\ n \in Seq(Tokens) /\ n # <<>>
        BY DEF Neat, Statement
    <2> QED
        BY <2>1, TrimKeeps
<1>2. Trim(n) = n
    BY <1>1, TrimMeans
<1>3. Left(n) = IF n = <<>> THEN <<>> ELSE <<n>>
    BY <1>2, OneLeft DEF Left
<1> QED
    BY <1>2, <1>3 DEF Neat

\* A neighbour in front of a statement.
LEMMA SplitInFront ==
    ASSUME NEW n, Neat(n), NEW text, NEW body, Statement(body), Ended(text, body)
    PROVE  SplitTopLevel((n \o <<Semicolon>>) \o (<<Blank>> \o text), Semicolon)
             = <<n>> \o Left(body)
<1> DEFINE p == <<Blank>>
           s == <<Semicolon>>
           b == p \o body
           one == (n \o s) \o b
<1>1. /\ Statement(n) /\ n \in Seq(Tokens) /\ Closed(n)
      /\ Statement(p) /\ p \in Seq(Tokens)
      /\ body \in Seq(Tokens) /\ s \in Seq(Tokens)
    BY BlankIsStatement, MarksAreTokens DEF Neat, Statement
<1>2. Statement(b) /\ b \in Seq(Tokens)
    BY <1>1, StatementJoin DEF Statement
<1>3. Trim(b) = Trim(body)
    <2>1. Trimmed(p \o body, {Blank}) = Trimmed(body, {Blank})
        <3>1. Blank \in Tokens /\ Blank \in {Blank}
            BY MarksAreTokens
        <3> QED
            BY <1>1, <3>1, TrimFront
    <2> QED
        BY <2>1, TrimMeans
<1>4. SplitTopLevel(n, Semicolon) = <<n>>
    BY NeatIsLeft, EndedIsSplit DEF Neat, Ended
<1>5. /\ one \in Seq(Tokens) /\ Closed(one)
      /\ SplitTopLevel(one, Semicolon) =
             IF Trim(body) = <<>> THEN <<n>> ELSE Append(<<n>>, Trim(body))
    <2> HIDE DEF b
    <2> QED
        BY <1>1, <1>2, <1>3, <1>4, SplitBehind
<1>6. SplitTopLevel(one, Semicolon) = <<n>> \o Left(body)
    <2>1. Left(body) = IF Trim(body) = <<>> THEN <<>> ELSE <<Trim(body)>>
        BY OneLeft DEF Left
    <2> DEFINE piece == Trim(body)
    <2>2. <<n>> \o <<>> = <<n>> /\ <<n>> \o <<piece>> = Append(<<n>>, piece)
        OBVIOUS
    <2> QED
        BY <1>5, <2>1, <2>2
<1>7. CASE text = body
    BY <1>6, <1>7
<1>8. CASE text = (body \o s) \o <<>>
    <2> DEFINE last == (one \o s) \o <<>>
    <2>1. SplitTopLevel(last, Semicolon) = SplitTopLevel(one, Semicolon)
        <3> HIDE DEF one
        <3> QED
            BY <1>5, BlankIsStatement, TrimOfNothing, SplitBehind
    <2>2. last = (n \o s) \o (p \o text)
        <3> HIDE DEF p, s, Tokens
        <3> DEFINE ns == n \o s
                   bs == body \o s
        <3>1. ns \in Seq(Tokens) /\ bs \in Seq(Tokens) /\ <<>> \in Seq(Tokens)
              /\ p \o body \in Seq(Tokens)
            BY <1>1
        <3>2. bs \o <<>> = bs
            BY <3>1
        <3>0. ASSUME NEW x \in Seq(Tokens), NEW y \in Seq(Tokens), NEW z \in Seq(Tokens)
              PROVE  (x \o y) \o z = x \o (y \o z)
            BY ConcatAssociative
        <3>3. p \o bs = (p \o body) \o s
            BY <1>1, <3>0
        <3>4. ns \o ((p \o body) \o s) = (ns \o (p \o body)) \o s
            <4> DEFINE pb == p \o body
            <4> HIDE DEF ns
            <4>1. pb \in Seq(Tokens)
                BY <3>1
            <4> HIDE DEF pb
            <4>2. (ns \o pb) \o s = ns \o (pb \o s)
                <5>1. s \in Seq(Tokens) /\ ns \in Seq(Tokens)
                    BY <1>1, <3>1
                <5> QED
                    BY <3>0, <4>1, <5>1, Zenon
            <4> QED
                BY <4>2 DEF pb
        <3>5. (one \o s) \o <<>> = one \o s
            BY <1>1, <1>5
        <3> QED
            BY <1>8, <3>2, <3>3, <3>4, <3>5
    <2> QED
        BY <1>6, <2>1, <2>2
<1> QED
    BY <1>7, <1>8 DEF Ended

\* A neighbour behind a statement, with an empty statement between them.
LEMMA SplitLast ==
    ASSUME NEW n, Neat(n), NEW text, NEW body, Statement(body), Ended(text, body)
    PROVE  SplitTopLevel((((text \o <<Semicolon>>) \o <<Blank>>) \o <<Semicolon>>) \o n, Semicolon)
             = Left(body) \o <<n>>
<1> DEFINE mid == (text \o <<Semicolon>>) \o <<Blank>>
<1>1. /\ text \in Seq(Tokens) /\ Closed(text)
      /\ SplitTopLevel(text, Semicolon) = Left(body)
    BY EndedIsSplit
<1>2. /\ mid \in Seq(Tokens) /\ Closed(mid)
      /\ SplitTopLevel(mid, Semicolon) = Left(body)
    BY <1>1, BlankIsStatement, SplitBehind
<1> HIDE DEF mid
<1>3. Statement(n) /\ Trim(n) = n /\ n # <<>>
    BY NeatIsLeft DEF Neat
<1>4. SplitTopLevel((mid \o <<Semicolon>>) \o n, Semicolon) = Append(Left(body), n)
    BY <1>2, <1>3, SplitBehind
<1>5. Append(Left(body), n) = Left(body) \o <<n>>
    <2>1. Left(body) = IF Trim(body) = <<>> THEN <<>> ELSE <<Trim(body)>>
        BY OneLeft DEF Left
    <2> DEFINE piece == Trim(body)
    <2>2. Append(<<>>, n) = <<>> \o <<n>> /\ Append(<<piece>>, n) = <<piece>> \o <<n>>
        OBVIOUS
    <2> QED
        BY <2>1, <2>2
<1> QED
    BY <1>4, <1>5 DEF mid

----------------------------------------------------------------------------
(* Every way of writing a query is a statement.                            *)

\* A statement that may have its end.
Finished(text) == \E body : Statement(body) /\ Ended(text, body)

\* The texts of the constants are statements,
LEMMA SeparateIsStatement ==
    ASSUME NEW text, Separate(text)
    PROVE  Statement(text)
<1>1. text \in Seq(STRING) /\ Contexts(text)[Len(text) + 1] = Plain
    BY Zenon DEF Separate
<1>2. \A i \in TopLevel(text) : text[i] # Semicolon
    BY Zenon DEF Separate, Semicolon
<1>3. text \in Seq(Tokens)
    <2> DEFINE S == STRING
    <2>1. S \subseteq Tokens /\ text \in Seq(S)
        BY <1>1, Zenon DEF Tokens
    <2> HIDE DEF S
    <2> QED
        BY <2>1
<1>4. Cuts(text, Semicolon) = {}
    BY <1>2, Zenon DEF Cuts
<1> QED
    BY <1>1, <1>3, <1>4, Zenon DEF Statement, Closed

\* which need not have an end,
LEMMA StatementIsFinished ==
    ASSUME NEW text, Statement(text)
    PROVE  Finished(text)
BY DEF Finished, Ended

\* or statements with one.
LEMMA EndingIsFinished ==
    ASSUME NEW text, Ending(text)
    PROVE  Finished(text)
<1>1. Separate(text) \/ (text = Append(Front(text), Semicolon) /\ Separate(Front(text)))
    BY Zenon DEF Ending, Semicolon
<1>2. CASE Separate(text)
    BY <1>2, SeparateIsStatement, StatementIsFinished
<1>3. CASE text = Append(Front(text), Semicolon) /\ Separate(Front(text))
    <2> DEFINE body == Front(text)
    <2>1. Statement(body) /\ text = Append(body, Semicolon)
        BY <1>3, SeparateIsStatement
    <2> HIDE DEF body
    <2>2. body \in Seq(Tokens) /\ Semicolon \in Tokens
        BY <2>1, MarksAreTokens DEF Statement
    <2>3. Append(body, Semicolon) = (body \o <<Semicolon>>) \o <<>>
        BY <2>2
    <2> QED
        BY <2>1, <2>3 DEF Finished, Ended
<1> QED
    BY <1>1, <1>2, <1>3

\* What stands before a statement stands before its end.
LEMMA EndedJoin ==
    ASSUME NEW a, Statement(a), NEW body, Statement(body), NEW text, Ended(text, body)
    PROVE  Ended(a \o text, a \o body)
<1>1. CASE text = body
    BY <1>1 DEF Ended
<1>2. CASE text = (body \o <<Semicolon>>) \o <<>>
    <2> DEFINE s == <<Semicolon>>
    <2>1. a \in Seq(Tokens) /\ body \in Seq(Tokens) /\ s \in Seq(Tokens)
        BY MarksAreTokens DEF Statement
    <2> HIDE DEF s, Tokens
    <2>2. (a \o body) \o s = a \o (body \o s)
        BY <2>1, ConcatAssociative
    <2>3. body \o s \in Seq(Tokens) /\ (a \o body) \o s \in Seq(Tokens)
        BY <2>1
    <2>4. (body \o s) \o <<>> = body \o s /\ ((a \o body) \o s) \o <<>> = (a \o body) \o s
        <3> DEFINE bs == body \o s
                   abs == (a \o body) \o s
        <3>1. bs \in Seq(Tokens) /\ abs \in Seq(Tokens)
            BY <2>3
        <3> HIDE DEF bs, abs
        <3>2. bs \o <<>> = bs /\ abs \o <<>> = abs
            BY <3>1
        <3> QED
            BY <3>2 DEF bs, abs
    <2>5. a \o text = ((a \o body) \o s) \o <<>>
        BY <1>2, <2>2, <2>4 DEF s
    <2> QED
        BY <2>5 DEF Ended, s
<1> QED
    BY <1>1, <1>2 DEF Ended

\* What stands before a statement belongs to it.
LEMMA FinishedJoin ==
    ASSUME NEW a, Statement(a), NEW text, Finished(text)
    PROVE  Finished(a \o text)
<1>1. PICK body : Statement(body) /\ Ended(text, body)
    BY DEF Finished
<1>2. Statement(a \o body)
    BY <1>1, StatementJoin
<1>3. Ended(a \o text, a \o body)
    BY <1>1, EndedJoin
<1> QED
    BY <1>2, <1>3 DEF Finished

\* The parts of a query as written. What has a neighbour closes all it opens;
\* a statement of another kind has no neighbour.
WellWritten(w) ==
    /\ w = [kind |-> w.kind, head |-> w.head, list |-> w.list, from |-> w.from,
            where |-> w.where, tail |-> w.tail]
    /\ Statement(w.list.text) /\ Statement(w.from.text) /\ Statement(w.where.text)
    /\ Finished(w.tail.text)
    /\ \/ Statement(w.head)
       \/ /\ Finished(w.head)
          /\ w.list.text = <<>> /\ w.from.text = <<>>
          /\ w.where.text = <<>> /\ w.tail.text = <<>>

\* Its text is a statement, perhaps with its end.
LEMMA TextIsFinished ==
    ASSUME NEW w, WellWritten(w)
    PROVE  Finished(Text(w))
<1>1. CASE Statement(w.head)
    <2> DEFINE t1 == w.head \o w.list.text
               t2 == t1 \o w.from.text
               t3 == t2 \o w.where.text
    <2>1. Statement(t1)
        BY <1>1, StatementJoin DEF WellWritten
    <2> HIDE DEF t1
    <2>2. Statement(t2)
        BY <2>1, StatementJoin DEF WellWritten
    <2> HIDE DEF t2
    <2>3. Statement(t3)
        BY <2>2, StatementJoin DEF WellWritten
    <2> HIDE DEF t3
    <2>4. Finished(t3 \o w.tail.text)
        BY <2>3, FinishedJoin DEF WellWritten
    <2> QED
        BY <2>4 DEF Text, t1, t2, t3
<1>2. CASE ~Statement(w.head)
    <2>1. /\ Finished(w.head)
          /\ w.list.text = <<>> /\ w.from.text = <<>>
          /\ w.where.text = <<>> /\ w.tail.text = <<>>
        BY <1>2 DEF WellWritten
    <2>2. w.head \in Seq(Tokens)
        BY <2>1, EndedIsSplit DEF Finished
    <2> DEFINE head == w.head
    <2>3. head \o <<>> = head
        BY <2>2
    <2> HIDE DEF head
    <2>4. head \o <<>> \o <<>> \o <<>> \o <<>> = head
        BY <2>3
    <2> QED
        BY <2>1, <2>4 DEF Text, head
<1> QED
    BY <1>1, <1>2

\* What the constants give.
LEMMA TextsAre ==
    /\ \A h \in Heads : Statement(h)
    /\ \A p \in Lists : Statement(p.text)
    /\ \A p \in Froms : Statement(p.text)
    /\ \A p \in Wheres : Statement(p.text)
    /\ \A p \in Tails : Finished(p.text)
    /\ \A p \in Others : Finished(p.text)
<1>1. /\ \A h \in Heads : Separate(h)
      /\ \A p \in Lists \cup Froms \cup Wheres : Separate(p.text)
      /\ \A p \in Tails \cup Others : Ending(p.text)
    BY Zenon, TextsAssumption
<1> QED
    BY <1>1, SeparateIsStatement, EndingIsFinished

\* A neighbour needs no trimming.
LEMMA NeighboursAreNeat ==
    ASSUME NEW n \in Neighbours
    PROVE  Neat(n)
<1>1. Separate(n) /\ n # <<>> /\ n[1] # Blank /\ Last(n) # Blank
    BY Zenon, TextsAssumption DEF Blank
<1>2. Last(n) = n[Len(n)]
    BY DEF Last
<1> QED
    BY <1>1, <1>2, SeparateIsStatement DEF Neat

\* A query stays written so, whatever part of it is rewritten.
LEMMA WrittenInvariant == WriteSpec => []WellWritten(writing)
<1>1. WriteInit => WellWritten(writing)
    <2> SUFFICES ASSUME WriteInit PROVE WellWritten(writing)
        OBVIOUS
    <2>1. CASE \E h \in Heads, l \in Lists, f \in Froms, c \in Wheres, t \in Tails :
                   writing = Select(h, l, f, c, t)
        <3>1. PICK h \in Heads, l \in Lists, f \in Froms, c \in Wheres, t \in Tails :
                       writing = Select(h, l, f, c, t)
            BY <2>1
        <3>2. /\ writing.head = h /\ writing.list = l /\ writing.from = f
              /\ writing.where = c /\ writing.tail = t
              /\ writing = [kind |-> writing.kind, head |-> writing.head,
                            list |-> writing.list, from |-> writing.from,
                            where |-> writing.where, tail |-> writing.tail]
            BY <3>1 DEF Select
        <3> QED
            BY <3>2, TextsAre DEF WellWritten
    <2>2. CASE \E o \in Others : writing = Whole(o)
        <3>1. PICK o \in Others : writing = Whole(o)
            BY <2>2
        <3>2. /\ writing.head = o.text /\ writing.list.text = <<>>
              /\ writing.from.text = <<>> /\ writing.where.text = <<>>
              /\ writing.tail.text = <<>>
              /\ writing = [kind |-> writing.kind, head |-> writing.head,
                            list |-> writing.list, from |-> writing.from,
                            where |-> writing.where, tail |-> writing.tail]
            BY <3>1 DEF Whole
        <3>3. Statement(<<>>) /\ Finished(<<>>) /\ Finished(o.text)
            BY BlankIsStatement, StatementIsFinished, TextsAre
        <3> QED
            BY <3>2, <3>3 DEF WellWritten
    <2> QED
        BY <2>1, <2>2 DEF WriteInit
<1>2. WellWritten(writing) /\ [WriteNext]_<<writing, shape, threshold>>
        => WellWritten(writing)'
    <2> SUFFICES ASSUME WellWritten(writing), [WriteNext]_<<writing, shape, threshold>>
                 PROVE  WellWritten(writing')
        OBVIOUS
    <2> DEFINE w == writing
    <2>0. w = [kind |-> w.kind, head |-> w.head, list |-> w.list, from |-> w.from,
               where |-> w.where, tail |-> w.tail]
        BY DEF WellWritten
    <2>1. CASE WriteWhere
        <3>1. PICK c \in Wheres : writing' = [w EXCEPT !.where = c]
            BY <2>1 DEF WriteWhere, Rewrite
        <3>2. writing' = [kind |-> w.kind, head |-> w.head, list |-> w.list,
                          from |-> w.from, where |-> c, tail |-> w.tail]
            BY <2>0, <3>1
        <3>3. Statement(w.head) /\ Statement(c.text)
            BY <2>1, TextsAre DEF WriteWhere
        <3> QED
            BY <3>2, <3>3 DEF WellWritten
    <2>2. CASE WriteLimit
        <3>1. PICK t \in Tails : writing' = [w EXCEPT !.tail = t]
            BY <2>2 DEF WriteLimit, Rewrite
        <3>2. writing' = [kind |-> w.kind, head |-> w.head, list |-> w.list,
                          from |-> w.from, where |-> w.where, tail |-> t]
            BY <2>0, <3>1
        <3>3. Statement(w.head) /\ Finished(t.text)
            BY <2>2, TextsAre DEF WriteLimit
        <3> QED
            BY <3>2, <3>3 DEF WellWritten
    <2>3. CASE WriteColumns
        <3>1. PICK l \in Lists : writing' = [w EXCEPT !.list = l]
            BY <2>3 DEF WriteColumns, Rewrite
        <3>2. writing' = [kind |-> w.kind, head |-> w.head, list |-> l,
                          from |-> w.from, where |-> w.where, tail |-> w.tail]
            BY <2>0, <3>1
        <3>3. Statement(w.head) /\ Statement(l.text)
            BY <2>3, TextsAre DEF WriteColumns
        <3> QED
            BY <3>2, <3>3 DEF WellWritten
    <2>4. CASE UNCHANGED <<writing, shape, threshold>>
        BY <2>4
    <2> QED
        BY <2>1, <2>2, <2>3, <2>4 DEF WriteNext
<1> QED
    BY <1>1, <1>2, PTL DEF WriteSpec

\* Marks one after the other.
LEMMA ThreeMarks ==
    ASSUME NEW T, NEW a \in T, NEW b \in T
    PROVE  <<a>> \o <<b>> = <<a, b>> /\ <<a, b>> \o <<a>> = <<a, b, a>>
<1> DEFINE u == <<a>> \o <<b>>
           v == <<a, b>>
           w == <<a, b, a>>
           x == <<a, b>> \o <<a>>
<1>1. u \in Seq(T) /\ Len(u) = 2 /\ u[1] = a /\ u[2] = b
    OBVIOUS
<1>2. v \in Seq(T) /\ Len(v) = 2 /\ v[1] = a /\ v[2] = b
    OBVIOUS
<1>3. w \in Seq(T) /\ Len(w) = 3 /\ w[1] = a /\ w[2] = b /\ w[3] = a
    OBVIOUS
<1>4. x \in Seq(T) /\ Len(x) = 3 /\ x[1] = a /\ x[2] = b /\ x[3] = a
    OBVIOUS
<1> HIDE DEF u, v, w, x
<1>5. u = v
    BY <1>1, <1>2, SeqEqual
<1>6. x = w
    BY <1>3, <1>4, SeqEqual
<1> QED
    BY <1>5, <1>6 DEF u, v, w, x

\* The batches of BatchIsSplit are neighbours before and behind a statement.
LEMMA FinishedIsSplit ==
    ASSUME NEW text, Finished(text), NEW n, Neat(n)
    PROVE  LET mine == Without(<<Trim(Unterminated(Trim(text)))>>, {<<>>})
           IN  /\ SplitTopLevel(n \o <<Semicolon, Blank>> \o text, Semicolon) = <<n>> \o mine
               /\ SplitTopLevel(text \o <<Semicolon, Blank, Semicolon>> \o n, Semicolon)
                    = mine \o <<n>>
<1> DEFINE mine == Without(<<Trim(Unterminated(Trim(text)))>>, {<<>>})
           s == <<Semicolon>>
           p == <<Blank>>
           sp == <<Semicolon, Blank>>
           sps == <<Semicolon, Blank, Semicolon>>
<1>1. PICK body : Statement(body) /\ Ended(text, body)
    BY DEF Finished
<1>2. text \in Seq(Tokens) /\ n \in Seq(Tokens)
    BY <1>1, EndedIsSplit DEF Neat, Statement
<1>3. /\ s \in Seq(Tokens) /\ p \in Seq(Tokens)
      /\ s \o p = sp /\ sp \o s = sps
    <2> DEFINE T == Tokens
    <2>1. Semicolon \in T /\ Blank \in T
        BY MarksAreTokens
    <2> HIDE DEF T
    <2>2. s \in Seq(T) /\ p \in Seq(T)
        BY <2>1
    <2>3. s \o p = sp /\ sp \o s = sps
        BY <2>1, ThreeMarks
    <2> QED
        BY <2>2, <2>3 DEF T
<1>4. mine = Left(body)
    <2>1. body \o <<Semicolon>> = (body \o <<Semicolon>>) \o <<>>
        BY <1>1, MarksAreTokens DEF Statement
    <2>2. Trim(Unterminated(Trim(text))) = Trim(body)
        BY <1>1, <2>1, EndIsCut DEF Ended
    <2> QED
        BY <2>2 DEF Left
<1> HIDE DEF s, p, sp, sps, mine
<1>5. ASSUME NEW x \in Seq(Tokens), NEW y \in Seq(Tokens), NEW z \in Seq(Tokens)
      PROVE  /\ (x \o y) \o z = x \o (y \o z)
             /\ x \o y \in Seq(Tokens)
    <2> HIDE DEF Tokens
    <2>1. x \o y \in Seq(Tokens)
        OBVIOUS
    <2>2. (x \o y) \o z = x \o (y \o z)
        BY ConcatAssociative
    <2> QED
        BY <2>1, <2>2
<1>6. (n \o sp) \o text = (n \o s) \o (p \o text)
    <2>1. n \o sp = (n \o s) \o p
        BY <1>2, <1>3, <1>5
    <2> DEFINE ns == n \o s
    <2>2. ns \in Seq(Tokens)
        BY <1>2, <1>3, <1>5
    <2> HIDE DEF ns
    <2>3. (ns \o p) \o text = ns \o (p \o text)
        BY <1>2, <1>3, <1>5, <2>2
    <2> QED
        BY <2>1, <2>3 DEF ns
<1>7. (text \o sps) \o n = (((text \o s) \o p) \o s) \o n
    <2> DEFINE q == s \o p
    <2>1. q \in Seq(Tokens)
        BY <1>3, <1>5
    <2>2. text \o q = (text \o s) \o p
        BY <1>2, <1>3, <1>5
    <2> HIDE DEF q
    <2>3. (text \o q) \o s = text \o (q \o s)
        <3> DEFINE T == Seq(Tokens)
        <3>1. s \in T /\ q \in T /\ text \in T
            BY <1>2, <1>3, <2>1
        <3>2. \A x, y, z \in T : (x \o y) \o z = x \o (y \o z)
            BY <1>5
        <3> HIDE DEF T
        <3> QED
            BY <3>1, <3>2, Zenon
    <2> QED
        BY <1>3, <2>2, <2>3 DEF q
<1>8. SplitTopLevel((n \o s) \o (p \o text), Semicolon) = <<n>> \o Left(body)
    BY <1>1, SplitInFront DEF s, p
<1>9. SplitTopLevel((((text \o s) \o p) \o s) \o n, Semicolon) = Left(body) \o <<n>>
    BY <1>1, SplitLast DEF s, p
<1> QED
    BY <1>4, <1>6, <1>7, <1>8, <1>9 DEF mine, sp, sps

\* BatchIsSplit, with its marks named.
LEMMA BatchIs ==
    BatchIsSplit <=>
        LET mine == Without(<<Trim(Unterminated(Trim(Text(writing))))>>, {<<>>})
        IN  \A n \in Neighbours :
              /\ SplitTopLevel(n \o <<Semicolon, Blank>> \o Text(writing), Semicolon)
                   = <<n>> \o mine
              /\ SplitTopLevel(Text(writing) \o <<Semicolon, Blank, Semicolon>> \o n, Semicolon)
                   = mine \o <<n>>
BY Zenon DEF BatchIsSplit, SplitStatements, Semicolon, Blank

\* A batch is split into exactly its statements, in order, however they are
\* written and whatever strings, names and parentheses stand in them
\* (split_statements).
THEOREM BatchesAreSplit == WriteSpec => []BatchIsSplit
<1>1. WellWritten(writing) => BatchIsSplit
    BY TextIsFinished, NeighboursAreNeat, FinishedIsSplit, BatchIs
<1> QED
    BY <1>1, WrittenInvariant, PTL
=============================================================================
