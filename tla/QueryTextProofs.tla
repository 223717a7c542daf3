--------------------------- MODULE QueryTextProofs ---------------------------
(***************************************************************************)
(* Whatever a query is put together from, the server reads it as it reads  *)
(* its parts: scan_words finds each keyword in the clause it belongs to,   *)
(* extract_select takes the list, the table and the LIMIT from theirs, and *)
(* param_types looks for the column of a parameter in the WHERE alone.  So *)
(* a reading that is right clause by clause (ClausesAreRead, which TLC     *)
(* checks of the clauses at hand) is right for every query.                *)
(***************************************************************************)
EXTENDS CrushRestraintProofs

----------------------------------------------------------------------------
(* The words that count.                                                   *)

\* Where they stand, and which of them are in a set.
TopAt(text) == {i \in TopLevel(text) : IsWord(text[i])}
Hits(text, set) == {i \in TopAt(text) : text[i] \in set}

\* What Without keeps was not to be dropped.
LEMMA WithoutKeeps ==
    ASSUME NEW E, NEW seq \in Seq(E), NEW bad
    PROVE  Without(seq, bad) \in Seq(E \ bad)
<1> DEFINE kept == E \ bad
           step == DropStep(E, bad)
<1>1. seq \in Seq(E) /\ Len(seq) \in Nat
    OBVIOUS
<1> DEFINE P == {n \in Nat : n <= Len(seq) => Without(SubSeq(seq, 1, n), bad) \in Seq(kept)}
<1>2. 0 \in P
    <2>1. SubSeq(seq, 1, 0) = <<>> /\ <<>> \in Seq(kept)
        OBVIOUS
    <2> QED
        BY <2>1, WithoutOfNone
<1>3. ASSUME NEW n \in Nat, n \in P
      PROVE  n + 1 \in P
    <2> SUFFICES ASSUME n + 1 <= Len(seq)
                 PROVE  Without(SubSeq(seq, 1, n + 1), bad) \in Seq(kept)
        OBVIOUS
    <2> DEFINE s == SubSeq(seq, 1, n)
               e == seq[n + 1]
    <2>1. s \in Seq(E) /\ e \in E /\ SubSeq(seq, 1, n + 1) = Append(s, e)
        OBVIOUS
    <2>2. Without(s, bad) \in Seq(kept)
        BY <1>3
    <2> HIDE DEF s, e
    <2>3. Without(Append(s, e), bad) =
              IF e \in bad THEN Without(s, bad) ELSE Append(Without(s, bad), e)
        BY <2>1, WithoutOneMore
    <2>4. CASE e \in bad
        BY <2>1, <2>2, <2>3, <2>4
    <2>5. CASE e \notin bad
        <3>1. e \in kept
            BY <2>1, <2>5
        <3> DEFINE w == Without(s, bad)
        <3>2. w \in Seq(kept) /\ Without(Append(s, e), bad) = Append(w, e)
            BY <2>2, <2>3, <2>5
        <3> HIDE DEF kept, w
        <3>3. Append(w, e) \in Seq(kept)
            BY <3>1, <3>2
        <3> QED
            BY <2>1, <3>2, <3>3
    <2> QED
        BY <2>4, <2>5
<1> HIDE DEF P, kept
<1>4. Len(seq) \in P
    BY <1>1, <1>2, <1>3, Induct
<1>5. SubSeq(seq, 1, Len(seq)) = seq
    BY <1>1
<1>6. Len(seq) <= Len(seq)
    BY <1>1
<1>7. Without(SubSeq(seq, 1, Len(seq)), bad) \in Seq(kept)
    BY <1>4, <1>6 DEF P
<1> QED
    BY <1>5, <1>7 DEF kept

\* The least and the greatest of a set of numbers.
LEMMA LeastIs ==
    ASSUME NEW S, S \subseteq Nat, NEW x \in S, \A y \in S : x <= y
    PROVE  Min(S) = x
<1>1. Min(S) \in S /\ \A y \in S : Min(S) <= y
    BY DEF Min
<1> DEFINE least == Min(S)
<1>2. least <= x /\ x <= least /\ least \in Nat /\ x \in Nat
    BY <1>1
<1> HIDE DEF least
<1>3. least = x
    BY <1>2
<1> QED
    BY <1>3 DEF least

\* and the greatest.
LEMMA GreatestIs ==
    ASSUME NEW S, S \subseteq Nat, NEW x \in S, \A y \in S : y <= x
    PROVE  Max(S) = x
<1>0. \A y \in S : x >= y
    OBVIOUS
<1>1. Max(S) \in S /\ \A y \in S : Max(S) >= y
    BY <1>0 DEF Max
<1> DEFINE greatest == Max(S)
<1>2. greatest >= x /\ x >= greatest /\ greatest \in Nat /\ x \in Nat
    BY <1>0, <1>1
<1> HIDE DEF greatest
<1>3. greatest = x
    BY <1>2
<1> QED
    BY <1>3 DEF greatest

\* The first of a sequence of positions that is in set, when there is one more.
LEMMA FirstOfMore ==
    ASSUME NEW text, NEW set, NEW words \in Seq(Nat \ {0}), NEW e \in Nat \ {0}
    PROVE  /\ FirstWord(text, words, set) \in Nat
           /\ FirstWord(text, Append(words, e), set) =
                  IF FirstWord(text, words, set) # 0 THEN FirstWord(text, words, set)
                  ELSE IF text[e] \in set THEN e ELSE 0
<1> DEFINE n == Len(words)
           more == Append(words, e)
           I == {i \in 1 .. n : text[words[i]] \in set}
           J == {i \in 1 .. n + 1 : text[more[i]] \in set}
<1>1. /\ n \in Nat /\ \A i \in 1 .. n : words[i] \in Nat \ {0}
      /\ Len(more) = n + 1 /\ more[n + 1] = e /\ \A i \in 1 .. n : more[i] = words[i]
    OBVIOUS
<1>2. FirstWord(text, words, set) =
          IF (IF I # {} THEN Min(I) ELSE 0) = 0 THEN 0 ELSE words[IF I # {} THEN Min(I) ELSE 0]
    BY Zenon DEF FirstWord, SelectInSeq
<1>3. FirstWord(text, more, set) =
          IF (IF J # {} THEN Min(J) ELSE 0) = 0 THEN 0 ELSE more[IF J # {} THEN Min(J) ELSE 0]
    <2>1. FirstWord(text, more, set) =
              LET K == {i \in 1 .. Len(more) : text[more[i]] \in set}
                  k == IF K # {} THEN Min(K) ELSE 0
              IN  IF k = 0 THEN 0 ELSE more[k]
        BY Zenon DEF FirstWord, SelectInSeq
    <2> QED
        BY <1>1, <2>1
<1>4. I \in SUBSET Nat /\ I \subseteq Nat /\ J \subseteq Nat
    BY <1>1
<1> HIDE DEF more
<1>5. CASE I # {}
    <2>1. PICK x \in I : \A y \in I : x <= y
        BY <1>4, <1>5, HasLeast
    <2>2. x \in J /\ \A y \in J : x <= y
        <3>1. x \in J
            BY <1>1
        <3>2. ASSUME NEW y \in J
              PROVE  x <= y
            <4>1. CASE y \in 1 .. n
                <5>1. y \in I
                    BY <1>1, <4>1
                <5> QED
                    BY <2>1, <5>1
            <4>2. CASE y = n + 1
                BY <1>1, <4>2
            <4> QED
                BY <1>1, <4>1, <4>2
        <3> QED
            BY <3>1, <3>2
    <2>3. Min(I) = x
        BY <1>4, <2>1, LeastIs
    <2>4. Min(J) = x
        BY <1>4, <2>2, LeastIs
    <2>5. x # 0 /\ J # {} /\ x \in 1 .. n
        BY <1>1, <2>2
    <2> HIDE DEF I, J
    <2> QED
        BY <1>1, <1>2, <1>3, <1>5, <2>3, <2>4, <2>5 DEF more
<1>6. CASE I = {}
    <2>1. FirstWord(text, words, set) = 0
        BY <1>2, <1>6
    <2>2. CASE text[e] \in set
        <3>1. J = {n + 1}
            BY <1>1, <1>6, <2>2
        <3>2. Min(J) = n + 1 /\ n + 1 # 0
            BY <1>1, <3>1 DEF Min
        <3> HIDE DEF I, J
        <3>3. J # {}
            BY <3>1
        <3> QED
            BY <1>1, <1>3, <2>1, <2>2, <3>2, <3>3 DEF more
    <2>3. CASE text[e] \notin set
        <3>1. J = {}
            BY <1>1, <1>6, <2>3
        <3> QED
            BY <1>3, <2>1, <2>3, <3>1 DEF more
    <2> QED
        BY <2>2, <2>3
<1> QED
    BY <1>5, <1>6

\* The first of none.
LEMMA FirstOfNone ==
    ASSUME NEW text, NEW set
    PROVE  FirstWord(text, <<>>, set) = 0
<1> DEFINE none == <<>>
<1>1. Len(none) = 0
    OBVIOUS
<1> HIDE DEF none
<1>2. FirstWord(text, none, set) =
          LET K == {i \in 1 .. Len(none) : text[none[i]] \in set}
              k == IF K # {} THEN Min(K) ELSE 0
          IN  IF k = 0 THEN 0 ELSE none[k]
    BY Zenon DEF FirstWord, SelectInSeq
<1>3. {i \in 1 .. Len(none) : text[none[i]] \in set} = {}
    BY <1>1
<1> QED
    BY <1>2, <1>3 DEF none

\* f is the least of hits up to n, 0 if there is none.
FirstUpTo(f, n, hits) ==
    \/ f = 0 /\ \A i \in 1 .. n : i \notin hits
    \/ f \in hits /\ f \in 1 .. n /\ \A i \in 1 .. n : i \in hits => f <= i

\* They stand in the text,
LEMMA TopAtInside ==
    ASSUME NEW text \in Seq(Tokens)
    PROVE  TopAt(text) \subseteq 1 .. Len(text)
<1>1. DOMAIN text = 1 .. Len(text)
    OBVIOUS
<1> QED
    BY <1>1 DEF TopAt, TopLevel

\* and are all that ScanWords returns.
LEMMA ScanWordsIs ==
    ASSUME NEW text \in Seq(Tokens)
    PROVE  /\ ScanWords(text) = Without(Positions(Len(text)), (1 .. Len(text)) \ TopAt(text))
           /\ ScanWords(text) \in Seq(TopAt(text))
<1> DEFINE n == Len(text)
           N == 1 .. n
           bad == N \ TopAt(text)
<1>1. ScanWords(text) = InOrder(text, TopAt(text))
    BY Zenon DEF ScanWords, TopAt
<1>2. InOrder(text, TopAt(text)) = Without(Positions(n), bad)
    BY InOrderIs
<1>3. Positions(n) \in Seq(N)
    BY DEF Positions
<1>4. TopAt(text) \subseteq N
    BY TopAtInside
<1>5. Without(Positions(n), bad) \in Seq(N \ bad)
    <2> HIDE DEF bad, N
    <2> QED
        BY <1>3, WithoutKeeps
<1>6. N \ bad = TopAt(text)
    BY <1>4
<1> QED
    BY <1>1, <1>2, <1>5, <1>6

\* The first word in set is the first of the positions where such a word stands.
LEMMA FirstIs ==
    ASSUME NEW text \in Seq(Tokens), NEW set
    PROVE  LET f == FirstWord(text, ScanWords(text), set)
           IN  f \in 0 .. Len(text) /\ FirstUpTo(f, Len(text), Hits(text, set))
<1> DEFINE n == Len(text)
           bad == (1 .. n) \ TopAt(text)
           W(k) == Without(Positions(k), bad)
           F(k) == FirstWord(text, W(k), set)
           hits == Hits(text, set)
           P == {k \in Nat : k <= n => FirstUpTo(F(k), k, hits)}
<1>0. n \in Nat
    OBVIOUS
<1>1. 0 \in P
    <2>1. Positions(0) = <<>>
        BY DEF Positions
    <2>2. W(0) = <<>>
        BY <2>1, WithoutOfNone
    <2>3. F(0) = 0
        BY <2>2, FirstOfNone
    <2> QED
        BY <2>3 DEF FirstUpTo
<1>2. ASSUME NEW k \in Nat, k \in P
      PROVE  k + 1 \in P
    <2> SUFFICES ASSUME k + 1 <= n PROVE FirstUpTo(F(k + 1), k + 1, hits)
        OBVIOUS
    <2>1. FirstUpTo(F(k), k, hits)
        BY <1>0, <1>2
    <2>2. W(k + 1) = IF k + 1 \in bad THEN W(k) ELSE Append(W(k), k + 1)
        BY PositionsWithout
    <2>3. W(k) \in Seq(Nat \ {0})
        <3> DEFINE K == 1 .. k
        <3>1. Positions(k) \in Seq(K)
            BY DEF Positions
        <3>2. Without(Positions(k), bad) \in Seq(K)
            <4> HIDE DEF K, bad
            <4> QED
                BY <3>1, WithoutIsFold
        <3> QED
            BY <3>2
    <2>4. k + 1 \in hits <=> k + 1 \notin bad /\ text[k + 1] \in set
        BY <1>0, TopAtInside DEF Hits
    <2> HIDE DEF W, bad, hits
    <2>5. CASE k + 1 \in bad
        <3>1. F(k + 1) = F(k) /\ k + 1 \notin hits
            BY <2>2, <2>4, <2>5
        <3> DEFINE f == F(k)
        <3>2. F(k + 1) = f /\ FirstUpTo(f, k, hits)
            BY <2>1, <3>1
        <3> HIDE DEF f, F
        <3>3. FirstUpTo(f, k + 1, hits)
            BY <3>1, <3>2 DEF FirstUpTo
        <3> QED
            BY <3>2, <3>3
    <2>6. CASE k + 1 \notin bad
        <3>1. F(k + 1) = IF F(k) # 0 THEN F(k) ELSE IF text[k + 1] \in set THEN k + 1 ELSE 0
            <4>1. k + 1 \in Nat \ {0} /\ W(k + 1) = Append(W(k), k + 1)
                BY <2>2, <2>6
            <4>2. F(k + 1) = FirstWord(text, Append(W(k), k + 1), set)
                BY <4>1, Zenon
            <4> QED
                BY <2>3, <4>1, <4>2, FirstOfMore
        <3> HIDE DEF F
        <3> QED
            BY <2>1, <2>4, <2>6, <3>1 DEF FirstUpTo
    <2> QED
        BY <2>5, <2>6
<1> HIDE DEF P
<1>3. n \in P
    BY <1>0, <1>1, <1>2, Induct
<1>4. FirstUpTo(F(n), n, hits)
    BY <1>0, <1>3 DEF P
<1>5. ScanWords(text) = W(n)
    BY ScanWordsIs
<1> HIDE DEF W, hits
<1>6. F(n) \in 0 .. n
    BY <1>0, <1>4 DEF FirstUpTo
<1> QED
    BY <1>4, <1>5, <1>6 DEF hits

\* Words that are not in set may be passed over.
LEMMA FirstAfter ==
    ASSUME NEW text, NEW set, NEW words \in Seq(Nat \ {0}), NEW bad,
           \A k \in 1 .. Len(words) : words[k] \in bad => text[words[k]] \notin set
    PROVE  FirstWord(text, Without(words, bad), set) = FirstWord(text, words, set)
<1> DEFINE E == Nat \ {0}
           n == Len(words)
           s(k) == SubSeq(words, 1, k)
           P == {k \in Nat : k <= n =>
                    FirstWord(text, Without(s(k), bad), set) = FirstWord(text, s(k), set)}
<1>0. n \in Nat
    OBVIOUS
<1>1. 0 \in P
    <2>1. s(0) = <<>>
        OBVIOUS
    <2> QED
        BY <2>1, WithoutOfNone
<1>2. ASSUME NEW k \in Nat, k \in P
      PROVE  k + 1 \in P
    <2> SUFFICES ASSUME k + 1 <= n
                 PROVE  FirstWord(text, Without(s(k + 1), bad), set)
                            = FirstWord(text, s(k + 1), set)
        OBVIOUS
    <2> DEFINE t == s(k)
               e == words[k + 1]
               w == Without(t, bad)
    <2>1. t \in Seq(E) /\ e \in E /\ s(k + 1) = Append(t, e) /\ k + 1 \in 1 .. n
        BY <1>0
    <2>2. FirstWord(text, w, set) = FirstWord(text, t, set)
        BY <1>0, <1>2
    <2>3. e \in bad => text[e] \notin set
        BY <2>1
    <2> HIDE DEF s, t, e, E
    <2>4. w \in Seq(E) /\ Without(Append(t, e), bad) = IF e \in bad THEN w ELSE Append(w, e)
        BY <2>1, WithoutOneMore
    <2> HIDE DEF w
    <2>5. /\ FirstWord(text, t, set) \in Nat
          /\ FirstWord(text, Append(t, e), set) =
                 IF FirstWord(text, t, set) # 0 THEN FirstWord(text, t, set)
                 ELSE IF text[e] \in set THEN e ELSE 0
        BY <2>1, FirstOfMore DEF E
    <2>6. FirstWord(text, Append(w, e), set) =
                 IF FirstWord(text, w, set) # 0 THEN FirstWord(text, w, set)
                 ELSE IF text[e] \in set THEN e ELSE 0
        BY <2>1, <2>4, FirstOfMore DEF E
    <2> QED
        BY <2>1, <2>2, <2>3, <2>4, <2>5, <2>6
<1> HIDE DEF P
<1>3. n \in P
    BY <1>0, <1>1, <1>2, Induct
<1>4. n <= n /\ s(n) = words
    BY <1>0
<1> QED
    BY <1>3, <1>4 DEF P

\* The words of a text are those of its parts,
LEMMA TopAtJoin ==
    ASSUME NEW a \in Seq(Tokens), NEW b \in Seq(Tokens), Closed(a)
    PROVE  /\ \A i \in 1 .. Len(a) : i \in TopAt(a \o b) <=> i \in TopAt(a)
           /\ \A i \in 1 .. Len(b) : Len(a) + i \in TopAt(a \o b) <=> i \in TopAt(b)
<1> DEFINE text == a \o b
<1>1. /\ Len(a) \in Nat /\ Len(b) \in Nat
      /\ DOMAIN a = 1 .. Len(a) /\ DOMAIN b = 1 .. Len(b)
      /\ DOMAIN text = 1 .. Len(a) + Len(b)
      /\ \A i \in 1 .. Len(a) : text[i] = a[i]
      /\ \A i \in 1 .. Len(b) : text[Len(a) + i] = b[i]
    OBVIOUS
<1>2. /\ \A i \in 1 .. Len(a) : Contexts(text)[i] = Contexts(a)[i]
      /\ \A i \in 1 .. Len(b) + 1 : Contexts(text)[Len(a) + i] = Contexts(b)[i]
    BY ContextsJoin
<1> HIDE DEF text
<1>3. ASSUME NEW i \in 1 .. Len(a)
      PROVE  i \in TopAt(text) <=> i \in TopAt(a)
    <2>1. i \in DOMAIN text /\ text[i] = a[i] /\ Contexts(text)[i] = Contexts(a)[i]
        BY <1>1, <1>2
    <2> QED
        BY <1>1, <2>1 DEF TopAt, TopLevel
<1>4. ASSUME NEW i \in 1 .. Len(b)
      PROVE  Len(a) + i \in TopAt(text) <=> i \in TopAt(b)
    <2>1. /\ Len(a) + i \in DOMAIN text /\ text[Len(a) + i] = b[i]
          /\ Contexts(text)[Len(a) + i] = Contexts(b)[i]
        BY <1>1, <1>2
    <2> QED
        BY <1>1, <2>1 DEF TopAt, TopLevel
<1> QED
    BY <1>3, <1>4 DEF text

\* and so are those of a set of words.
LEMMA HitsJoin ==
    ASSUME NEW a \in Seq(Tokens), NEW b \in Seq(Tokens), Closed(a), NEW set
    PROVE  /\ \A i \in 1 .. Len(a) : i \in Hits(a \o b, set) <=> i \in Hits(a, set)
           /\ \A i \in 1 .. Len(b) : Len(a) + i \in Hits(a \o b, set) <=> i \in Hits(b, set)
<1> DEFINE text == a \o b
<1>1. /\ \A i \in 1 .. Len(a) : text[i] = a[i]
      /\ \A i \in 1 .. Len(b) : text[Len(a) + i] = b[i]
    OBVIOUS
<1>2. /\ \A i \in 1 .. Len(a) : i \in TopAt(text) <=> i \in TopAt(a)
      /\ \A i \in 1 .. Len(b) : Len(a) + i \in TopAt(text) <=> i \in TopAt(b)
    BY TopAtJoin
<1> HIDE DEF text
<1>3. ASSUME NEW i \in 1 .. Len(a)
      PROVE  i \in Hits(text, set) <=> i \in Hits(a, set)
    BY <1>1, <1>2 DEF Hits
<1>4. ASSUME NEW i \in 1 .. Len(b)
      PROVE  Len(a) + i \in Hits(text, set) <=> i \in Hits(b, set)
    BY <1>1, <1>2 DEF Hits
<1> QED
    BY <1>3, <1>4 DEF text

\* Marks behind a text are no words.
LEMMA MarksBehind ==
    ASSUME NEW text \in Seq(Tokens), NEW part \in Seq(Tokens), Len(part) <= Len(text),
           \A i \in 1 .. Len(part) : text[i] = part[i],
           \A i \in 1 .. Len(text) : Len(part) < i => ~IsWord(text[i])
    PROVE  ScanWords(text) = ScanWords(part) /\ TopAt(text) = TopAt(part)
<1> DEFINE C == Contexts(text)
           n == Len(text)
           m == Len(part)
           ctx == [i \in 1 .. m + 1 |-> C[i]]
<1>0. n \in Nat /\ m \in Nat /\ m \in 0 .. n /\ DOMAIN text = 1 .. n /\ DOMAIN part = 1 .. m
    OBVIOUS
<1>1. Situated(C, text)
    BY ContextsAre
<1> HIDE DEF C
<1>2. /\ \A i \in 1 .. m + 1 : C[i] \in Situations
      /\ \A i \in 1 .. m : C[i + 1] = Past(C[i], text[i])
    BY <1>0, <1>1 DEF Situated
<1>3. Situated(ctx, part)
    <2>1. ctx \in Seq(Situations) /\ Len(ctx) = m + 1 /\ ctx[1] = C[1] /\ C[1] = Plain
        BY <1>0, <1>1, <1>2 DEF Situated
    <2>2. ASSUME NEW i \in 1 .. m
          PROVE  ctx[i + 1] = Past(ctx[i], part[i])
        <3>1. i \in 1 .. m + 1 /\ i + 1 \in 1 .. m + 1
            BY <1>0
        <3>2. ctx[i] = C[i] /\ ctx[i + 1] = C[i + 1] /\ text[i] = part[i]
            BY <3>1
        <3> QED
            BY <1>2, <3>2
    <2> QED
        BY <2>1, <2>2 DEF Situated
<1>4. \A i \in 1 .. m : Contexts(part)[i] = C[i]
    <2>1. ctx = Contexts(part)
        <3> HIDE DEF ctx
        <3> QED
            BY <1>3, OneSituation
    <2>2. \A i \in 1 .. m : ctx[i] = C[i]
        BY <1>0
    <2> QED
        BY <2>1, <2>2
<1>5. ASSUME NEW i \in 1 .. n
      PROVE  i \in TopAt(text) <=> i \in TopAt(part)
    <2>1. CASE i <= m
        <3>1. /\ i \in DOMAIN text /\ i \in DOMAIN part /\ text[i] = part[i]
              /\ Contexts(text)[i] = Contexts(part)[i]
            BY <1>0, <1>4, <2>1 DEF C
        <3> QED
            BY <3>1 DEF TopAt, TopLevel
    <2>2. CASE m < i
        <3>1. i \notin DOMAIN part /\ ~IsWord(text[i])
            BY <1>0, <2>2
        <3> QED
            BY <3>1 DEF TopAt, TopLevel
    <2> QED
        BY <1>0, <2>1, <2>2
<1>6. TopAt(text) = TopAt(part)
    <2>1. TopAt(text) \subseteq 1 .. n
        BY TopAtInside
    <2>2. TopAt(part) \subseteq 1 .. m
        BY TopAtInside
    <2> HIDE DEF n, m
    <2>3. TopAt(part) \subseteq 1 .. n
        BY <1>0, <2>2
    <2> QED
        BY <1>5, <2>1, <2>3
<1>7. ScanWords(text) = ScanWords(part)
    <2> DEFINE bad == (1 .. n) \ TopAt(text)
               worse == (1 .. m) \ TopAt(part)
    <2>1. \A i \in 1 .. n : i > m => i \in bad
        <3>1. TopAt(text) \subseteq 1 .. m
            BY <1>6, TopAtInside
        <3> QED
            BY <1>0, <3>1
    <2>2. \A i \in 1 .. m : i \in bad <=> i \in worse
        BY <1>0, <1>6
    <2>3. /\ ScanWords(text) = Without(Positions(n), bad)
          /\ ScanWords(part) = Without(Positions(m), worse)
        BY ScanWordsIs
    <2> HIDE DEF bad, worse
    <2>4. Without(Positions(n), bad) = Without(Positions(m), bad)
        BY <1>0, <2>1, NoneBehind
    <2>5. Without(Positions(m), bad) = Without(Positions(m), worse)
        BY <1>0, <2>2, SameWithout
    <2> QED
        BY <2>3, <2>4, <2>5
<1> QED
    BY <1>6, <1>7

\* A sequence of positions, counted from further left.
Further(words, m) == [k \in 1 .. Len(words) |-> m + words[k]]

\* The positions behind m are the positions of the rest.
LEMMA PositionsJoin ==
    ASSUME NEW m \in Nat, NEW n \in Nat, NEW bad, NEW rest,
           \A i \in 1 .. n : m + i \in bad <=> i \in rest
    PROVE  Without(Positions(m + n), bad) =
               Without(Positions(m), bad) \o Further(Without(Positions(n), rest), m)
<1> DEFINE A == Without(Positions(m), bad)
           B(k) == Without(Positions(k), rest)
           P == {k \in Nat : k <= n =>
                    Without(Positions(m + k), bad) = A \o Further(B(k), m)}
<1>0. \A k \in Nat : B(k) \in Seq(Nat) /\ Without(Positions(k), bad) \in Seq(Nat)
    <2> TAKE k \in Nat
    <2>1. Positions(k) \in Seq(Nat)
        BY DEF Positions
    <2> QED
        BY <2>1, WithoutIsFold
<1>1. 0 \in P
    <2>1. Positions(0) = <<>>
        BY DEF Positions
    <2>2. B(0) = <<>>
        BY <2>1, WithoutOfNone
    <2>3. Further(B(0), m) = <<>>
        BY <2>2 DEF Further
    <2>4. A \o <<>> = A /\ m + 0 = m
        BY <1>0
    <2> QED
        BY <2>3, <2>4
<1>2. ASSUME NEW k \in Nat, k \in P
      PROVE  k + 1 \in P
    <2> SUFFICES ASSUME k + 1 <= n
                 PROVE  Without(Positions(m + (k + 1)), bad) = A \o Further(B(k + 1), m)
        OBVIOUS
    <2> DEFINE b == B(k)
               w == Without(Positions(m + k), bad)
    <2>1. m + k \in Nat /\ m + (k + 1) = (m + k) + 1 /\ k + 1 \in 1 .. n
        OBVIOUS
    <2>2. w = A \o Further(b, m)
        BY <1>2
    <2>3. Without(Positions(m + (k + 1)), bad) =
              IF m + (k + 1) \in bad THEN w ELSE Append(w, m + (k + 1))
        BY <2>1, PositionsWithout
    <2>4. B(k + 1) = IF k + 1 \in rest THEN b ELSE Append(b, k + 1)
        BY PositionsWithout
    <2>5. m + (k + 1) \in bad <=> k + 1 \in rest
        BY <2>1
    <2>6. A \in Seq(Nat) /\ b \in Seq(Nat) /\ Further(b, m) \in Seq(Nat)
        <3>1. A \in Seq(Nat) /\ b \in Seq(Nat)
            BY <1>0
        <3> HIDE DEF b
        <3> QED
            BY <3>1 DEF Further
    <2> HIDE DEF A, B, b, w
    <2>7. CASE k + 1 \in rest
        BY <2>2, <2>3, <2>4, <2>5, <2>7
    <2>8. CASE k + 1 \notin rest
        <3> DEFINE e == k + 1
                   f == Further(b, m)
        <3>1. Further(Append(b, e), m) = Append(f, m + e)
            <4> DEFINE u == Further(Append(b, e), m)
                       v == Append(f, m + e)
                       l == Len(b)
            <4>1. l \in Nat /\ Len(Append(b, e)) = l + 1 /\ Append(b, e)[l + 1] = e
                  /\ \A i \in 1 .. l : Append(b, e)[i] = b[i]
                BY <2>6
            <4>2. Len(f) = l /\ \A i \in 1 .. l : f[i] = m + b[i]
                BY <2>6, <4>1 DEF Further
            <4>3. u = [i \in 1 .. l + 1 |-> m + Append(b, e)[i]]
                BY <4>1 DEF Further
            <4>4. f \in Seq(Nat) /\ m + e \in Nat
                BY <2>6
            <4> HIDE DEF f
            <4>5. v = [i \in 1 .. l + 1 |-> IF i <= l THEN f[i] ELSE m + e]
                BY <4>2, <4>4
            <4>6. ASSUME NEW i \in 1 .. l + 1
                  PROVE  m + Append(b, e)[i] = IF i <= l THEN f[i] ELSE m + e
                <5>1. CASE i <= l
                    <6>1. i \in 1 .. l
                        BY <4>1, <5>1
                    <6> QED
                        BY <4>1, <4>2, <5>1, <6>1
                <5>2. CASE ~(i <= l)
                    <6>1. i = l + 1
                        BY <4>1, <5>2
                    <6> QED
                        BY <4>1, <5>2, <6>1
                <5> QED
                    BY <5>1, <5>2
            <4> HIDE DEF l, e
            <4> QED
                BY <4>3, <4>5, <4>6
        <3>2. m + e \in Nat /\ f \in Seq(Nat)
            BY <2>6
        <3>3. B(k + 1) = Append(b, e) /\ Without(Positions(m + (k + 1)), bad) = Append(w, m + e)
            BY <2>3, <2>4, <2>5, <2>8
        <3> HIDE DEF e, f
        <3>4. A \o Append(f, m + e) = Append(A \o f, m + e)
            <4> DEFINE x == m + e
                       N == Nat
            <4>1. A \in Seq(N) /\ f \in Seq(N) /\ x \in N
                BY <2>6, <3>2
            <4> HIDE DEF x, N, A
            <4>2. A \o Append(f, x) = Append(A \o f, x)
                BY <4>1
            <4> QED
                BY <4>2 DEF x
        <3> QED
            BY <2>2, <3>1, <3>3, <3>4 DEF f
    <2> QED
        BY <2>7, <2>8
<1> HIDE DEF P
<1>3. n \in P
    BY <1>1, <1>2, Induct
<1> QED
    BY <1>3 DEF P

\* The words of two texts, one after the other.
LEMMA ScanWordsJoin ==
    ASSUME NEW a \in Seq(Tokens), NEW b \in Seq(Tokens), Closed(a)
    PROVE  ScanWords(a \o b) = ScanWords(a) \o Further(ScanWords(b), Len(a))
<1> DEFINE text == a \o b
           m == Len(a)
           n == Len(b)
           bad == (1 .. m + n) \ TopAt(text)
           left == (1 .. m) \ TopAt(a)
           rest == (1 .. n) \ TopAt(b)
<1>1. m \in Nat /\ n \in Nat /\ text \in Seq(Tokens) /\ Len(text) = m + n
    OBVIOUS
<1>2. /\ \A i \in 1 .. m : i \in TopAt(text) <=> i \in TopAt(a)
      /\ \A i \in 1 .. n : m + i \in TopAt(text) <=> i \in TopAt(b)
    BY TopAtJoin
<1> HIDE DEF text
<1>3. /\ ScanWords(text) = Without(Positions(m + n), bad)
      /\ ScanWords(a) = Without(Positions(m), left)
      /\ ScanWords(b) = Without(Positions(n), rest)
    BY <1>1, ScanWordsIs
<1> HIDE DEF m, n
<1>4. /\ \A i \in 1 .. m : i \in bad <=> i \in left
      /\ \A i \in 1 .. n : m + i \in bad <=> i \in rest
    BY <1>1, <1>2
<1> HIDE DEF bad, left, rest
<1>5. Without(Positions(m), bad) = Without(Positions(m), left)
    BY <1>1, <1>4, SameWithout
<1>6. Without(Positions(m + n), bad) =
          Without(Positions(m), bad) \o Further(Without(Positions(n), rest), m)
    BY <1>1, <1>4, PositionsJoin
<1> QED
    BY <1>3, <1>5, <1>6 DEF text, m

\* What is read at the same words is the same.
LEMMA LimitIs ==
    ASSUME NEW text, NEW words
    PROVE  LimitOf(text, words) =
               LET K == {k \in 1 .. Len(words) : text[words[k]] = "limit"}
                   k == IF K # {} THEN Min(K) ELSE 0
               IN  IF k = 0 \/ k = Len(words) THEN NoLimit
                   ELSE ParsedNumber(text[words[k + 1]])
BY Zenon DEF LimitOf, SelectInSeq

\* It is the same in texts that agree on the words.
LEMMA LimitAgrees ==
    ASSUME NEW text, NEW part, NEW D, NEW words \in Seq(D), \A i \in D : text[i] = part[i]
    PROVE  LimitOf(text, words) = LimitOf(part, words)
<1> DEFINE n == Len(words)
           K == {k \in 1 .. n : text[words[k]] = "limit"}
           L == {k \in 1 .. n : part[words[k]] = "limit"}
           k == IF K # {} THEN Min(K) ELSE 0
<1>1. n \in Nat /\ \A i \in 1 .. n : words[i] \in D
    OBVIOUS
<1>2. \A i \in 1 .. n : text[words[i]] = part[words[i]]
    BY <1>1
<1>3. K = L
    BY <1>2
<1>4. K \subseteq 1 .. n
    OBVIOUS
<1>5. LimitOf(text, words) =
          IF k = 0 \/ k = n THEN NoLimit ELSE ParsedNumber(text[words[k + 1]])
    BY LimitIs, Zenon
<1>6. LimitOf(part, words) =
          IF k = 0 \/ k = n THEN NoLimit ELSE ParsedNumber(part[words[k + 1]])
    <2>1. LimitOf(part, words) =
              LET l == IF L # {} THEN Min(L) ELSE 0
              IN  IF l = 0 \/ l = n THEN NoLimit ELSE ParsedNumber(part[words[l + 1]])
        BY LimitIs, Zenon
    <2> HIDE DEF K, L
    <2> QED
        BY <1>3, <2>1
<1> HIDE DEF K
<1>7. k \in 0 .. n
    <2>1. CASE K = {}
        BY <1>1, <2>1
    <2>2. CASE K # {}
        <3>1. K \in SUBSET Nat
            BY <1>1, <1>4
        <3>2. PICK x \in K : \A y \in K : x <= y
            BY <2>2, <3>1, HasLeast
        <3>3. K \subseteq Nat
            BY <3>1
        <3>4. Min(K) = x
            BY <3>2, <3>3, LeastIs
        <3> QED
            BY <1>1, <1>4, <2>2, <3>2, <3>4
    <2> QED
        BY <2>1, <2>2
<1> HIDE DEF k
<1>8. k # 0 /\ k # n => text[words[k + 1]] = part[words[k + 1]]
    <2> SUFFICES ASSUME k # 0, k # n PROVE text[words[k + 1]] = part[words[k + 1]]
        OBVIOUS
    <2>1. k + 1 \in 1 .. n
        BY <1>1, <1>7
    <2> QED
        BY <1>2, <2>1
<1> QED
    BY <1>5, <1>6, <1>8

\* The LIMIT is read where it stands, whatever without one is in front of it.
LEMMA LimitJoin ==
    ASSUME NEW a \in Seq(Tokens), NEW b \in Seq(Tokens), Closed(a), Hits(a, {"limit"}) = {}
    PROVE  LimitOf(a \o b, ScanWords(a \o b)) = LimitOf(b, ScanWords(b))
<1> DEFINE text == a \o b
           m == Len(a)
           p == ScanWords(a)
           q == ScanWords(b)
           r == ScanWords(text)
           l == Len(p)
           n == Len(q)
           K == {k \in 1 .. l + n : text[r[k]] = "limit"}
           L == {k \in 1 .. n : b[q[k]] = "limit"}
           k == IF K # {} THEN Min(K) ELSE 0
           j == IF L # {} THEN Min(L) ELSE 0
<1>1. m \in Nat /\ Len(b) \in Nat
      /\ (\A i \in 1 .. m : text[i] = a[i]) /\ \A i \in 1 .. Len(b) : text[m + i] = b[i]
    OBVIOUS
<1>2. /\ p \in Seq(TopAt(a)) /\ TopAt(a) \subseteq 1 .. m
      /\ q \in Seq(TopAt(b)) /\ TopAt(b) \subseteq 1 .. Len(b)
    BY ScanWordsIs, TopAtInside
<1>3. r = p \o Further(q, m)
    BY ScanWordsJoin
<1> HIDE DEF text, m, p, q, r
<1>4. /\ l \in Nat /\ \A i \in 1 .. l : p[i] \in TopAt(a)
      /\ n \in Nat /\ \A i \in 1 .. n : q[i] \in TopAt(b)
    BY <1>2
<1>5. /\ Len(r) = l + n
      /\ \A i \in 1 .. l : r[i] = p[i]
      /\ \A i \in 1 .. n : r[l + i] = m + q[i]
    <2> DEFINE f == Further(q, m)
    <2>1. \A i \in 1 .. n : q[i] \in Nat
        BY <1>2, <1>4
    <2>2. f \in Seq(Nat) /\ Len(f) = n /\ \A i \in 1 .. n : f[i] = m + q[i]
        BY <1>1, <1>4, <2>1 DEF Further
    <2>3. p \in Seq(Nat)
        BY <1>2
    <2> HIDE DEF f
    <2>4. /\ Len(p \o f) = l + Len(f) /\ \A i \in 1 .. l : (p \o f)[i] = p[i]
          /\ \A i \in 1 .. Len(f) : (p \o f)[l + i] = f[i]
        <3>1. p \in Seq(Nat) /\ f \in Seq(Nat)
            BY <2>2, <2>3
        <3> QED
            BY <3>1
    <2>5. r = p \o f
        BY <1>3 DEF f
    <2> HIDE DEF l, n
    <2> QED
        BY <2>2, <2>4, <2>5
<1>6. \A i \in 1 .. l : text[r[i]] # "limit"
    <2> TAKE i \in 1 .. l
    <2>1. p[i] \in TopAt(a) /\ p[i] \in 1 .. m /\ r[i] = p[i]
        BY <1>2, <1>4, <1>5
    <2>2. a[p[i]] # "limit"
        BY <2>1 DEF Hits
    <2> QED
        BY <1>1, <2>1, <2>2
<1>7. \A i \in 1 .. n : text[r[l + i]] = b[q[i]]
    <2> TAKE i \in 1 .. n
    <2>1. q[i] \in 1 .. Len(b) /\ r[l + i] = m + q[i]
        BY <1>2, <1>4, <1>5
    <2> QED
        BY <1>1, <2>1
<1>8. LimitOf(text, r) =
          IF k = 0 \/ k = l + n THEN NoLimit ELSE ParsedNumber(text[r[k + 1]])
    <2>1. LimitOf(text, r) =
              LET I == {i \in 1 .. Len(r) : text[r[i]] = "limit"}
                  i == IF I # {} THEN Min(I) ELSE 0
              IN  IF i = 0 \/ i = Len(r) THEN NoLimit ELSE ParsedNumber(text[r[i + 1]])
        BY LimitIs, Zenon
    <2> QED
        BY <1>5, <2>1, Zenon
<1>9. LimitOf(b, q) =
          IF j = 0 \/ j = n THEN NoLimit ELSE ParsedNumber(b[q[j + 1]])
    BY LimitIs, Zenon
<1>10. L \subseteq 1 .. n /\ K \subseteq 1 .. l + n /\ L \subseteq Nat /\ K \subseteq Nat
    BY <1>4
<1>11. \A i \in 1 .. l : i \notin K
    BY <1>6
<1>12. \A i \in 1 .. n : l + i \in K <=> i \in L
    BY <1>4, <1>7
<1> HIDE DEF l, n, K, L
<1>13. CASE L = {}
    <2>1. K = {}
        <3> SUFFICES ASSUME NEW x \in K PROVE FALSE
            OBVIOUS
        <3>1. x \in 1 .. l \/ (x - l \in 1 .. n /\ l + (x - l) = x)
            BY <1>4, <1>10
        <3> QED
            BY <1>11, <1>12, <1>13, <3>1
    <2> QED
        BY <1>8, <1>9, <1>13, <2>1 DEF text, r, q
<1>14. CASE L # {}
    <2>1. L \in SUBSET Nat
        BY <1>10
    <2>2. PICK x \in L : \A y \in L : x <= y
        BY <1>14, <2>1, HasLeast
    <2>3. Min(L) = x /\ x \in 1 .. n
        BY <1>10, <2>2, LeastIs
    <2>4. l + x \in K
        BY <1>12, <2>3, <2>2
    <2>5. ASSUME NEW y \in K
          PROVE  l + x <= y
        <3>1. y \in 1 .. l \/ (y - l \in 1 .. n /\ l + (y - l) = y)
            BY <1>4, <1>10
        <3>2. y - l \in L /\ y \in Nat
            BY <1>10, <1>11, <1>12, <3>1
        <3> QED
            BY <1>4, <2>2, <2>3, <3>2
    <2>6. Min(K) = l + x
        BY <1>10, <2>4, <2>5, LeastIs
    <2>7. k = l + x /\ j = x /\ k # 0 /\ j # 0 /\ (k = l + n <=> j = n)
        BY <1>4, <1>14, <2>3, <2>4, <2>6
    <2> HIDE DEF k, j
    <2>8. CASE j = n
        BY <1>8, <1>9, <2>7, <2>8 DEF text, r, q
    <2>9. CASE j # n
        <3>1. x + 1 \in 1 .. n /\ k + 1 = l + (x + 1) /\ j + 1 = x + 1
            BY <1>4, <2>3, <2>7, <2>9
        <3>2. text[r[k + 1]] = b[q[j + 1]]
            BY <1>7, <3>1
        <3> QED
            BY <1>8, <1>9, <2>7, <2>9, <3>2 DEF text, r, q
    <2> QED
        BY <2>8, <2>9
<1> QED
    BY <1>13, <1>14

\* A piece of a text, perhaps empty.
LEMMA PieceIs ==
    ASSUME NEW text \in Seq(Tokens), NEW lo \in 1 .. Len(text) + 1, NEW hi \in lo - 1 .. Len(text)
    PROVE  /\ SubSeq(text, lo, hi) \in Seq(Tokens)
           /\ Len(SubSeq(text, lo, hi)) = hi - lo + 1
           /\ \A i \in 1 .. hi - lo + 1 : SubSeq(text, lo, hi)[i] = text[lo + i - 1]
<1>1. Len(text) \in Nat /\ \A i \in 1 .. Len(text) : text[i] \in Tokens
    OBVIOUS
<1>2. \A i \in lo .. hi : text[i] \in Tokens
    BY <1>1
<1>3. lo \in Int /\ hi \in Int
    BY <1>1
<1> HIDE DEF Tokens
<1> QED
    BY <1>2, <1>3, SubSeqProperties

\* Two pieces of the same tokens.
LEMMA SamePiece ==
    ASSUME NEW u \in Seq(Tokens), NEW v \in Seq(Tokens), NEW n \in Nat, n <= Len(u), n <= Len(v),
           \A i \in 1 .. n : u[i] = v[i], NEW lo \in 1 .. n + 1, NEW hi \in lo - 1 .. n
    PROVE  SubSeq(u, lo, hi) = SubSeq(v, lo, hi)
<1> DEFINE s == SubSeq(u, lo, hi)
           t == SubSeq(v, lo, hi)
<1>1. /\ Len(u) \in Nat /\ Len(v) \in Nat
      /\ lo \in 1 .. Len(u) + 1 /\ hi \in lo - 1 .. Len(u)
      /\ lo \in 1 .. Len(v) + 1 /\ hi \in lo - 1 .. Len(v)
    OBVIOUS
<1>2. /\ s \in Seq(Tokens) /\ Len(s) = hi - lo + 1
      /\ \A i \in 1 .. hi - lo + 1 : s[i] = u[lo + i - 1]
    BY <1>1, PieceIs
<1>3. /\ t \in Seq(Tokens) /\ Len(t) = hi - lo + 1
      /\ \A i \in 1 .. hi - lo + 1 : t[i] = v[lo + i - 1]
    BY <1>1, PieceIs
<1>4. \A i \in 1 .. hi - lo + 1 : lo + i - 1 \in 1 .. n
    OBVIOUS
<1> HIDE DEF s, t, Tokens
<1>5. ASSUME NEW i \in 1 .. Len(s)
      PROVE  s[i] = t[i]
    <2>1. i \in 1 .. hi - lo + 1
        BY <1>2
    <2>2. u[lo + i - 1] = v[lo + i - 1]
        BY <1>4, <2>1
    <2> QED
        BY <1>2, <1>3, <2>1, <2>2
<1>6. s = t
    BY <1>2, <1>3, <1>5, SeqEqual
<1> QED
    BY <1>6 DEF s, t

\* Blanks behind a text are trimmed.
LEMMA TrimSame ==
    ASSUME NEW u \in Seq(Tokens), NEW v \in Seq(Tokens), Len(u) <= Len(v),
           \A i \in 1 .. Len(u) : v[i] = u[i],
           \A i \in 1 .. Len(v) : Len(u) < i => v[i] = Blank
    PROVE  Trim(u) = Trim(v)
<1> DEFINE m == Len(u)
           n == Len(v)
           blanks == {Blank}
<1>0. Trim(u) = Trimmed(u, blanks) /\ Trim(v) = Trimmed(v, blanks)
    BY TrimMeans
<1>1. m \in Nat /\ n \in Nat
    OBVIOUS
<1>2. CASE \A i \in 1 .. n : v[i] \in blanks
    <2>1. \A i \in 1 .. m : u[i] \in blanks
        BY <1>1, <1>2
    <2> HIDE DEF blanks
    <2> QED
        BY <1>0, <1>2, <2>1, TrimToNothing
<1>3. CASE \E lo, hi : Core(v, blanks, lo, hi)
    <2>1. PICK lo, hi : Core(v, blanks, lo, hi)
        BY <1>3
    <2>2. /\ lo \in 1 .. n /\ hi \in 1 .. n /\ v[lo] \notin blanks /\ v[hi] \notin blanks
          /\ \A i \in 1 .. n : i < lo \/ hi < i => v[i] \in blanks
        BY <2>1 DEF Core
    <2>3. lo \in 1 .. m /\ hi \in 1 .. m
        BY <1>1, <2>2
    <2>4. Core(u, blanks, lo, hi)
        <3>1. u[lo] \notin blanks /\ u[hi] \notin blanks
            BY <2>2, <2>3
        <3>2. ASSUME NEW i \in 1 .. m, i < lo \/ hi < i
              PROVE  u[i] \in blanks
            <4>1. i \in 1 .. n /\ v[i] = u[i]
                BY <1>1
            <4> QED
                BY <2>2, <3>2, <4>1
        <3> QED
            BY <2>3, <3>1, <3>2 DEF Core
    <2> HIDE DEF blanks
    <2>5. /\ Trimmed(u, blanks) = SubSeq(u, lo, hi) /\ Trimmed(v, blanks) = SubSeq(v, lo, hi)
          /\ lo <= hi
        BY <2>1, <2>4, TrimToCore
    <2>6. SubSeq(u, lo, hi) = SubSeq(v, lo, hi)
        <3>1. lo \in 1 .. m + 1 /\ hi \in lo - 1 .. m /\ m <= n /\ m <= m
              /\ \A i \in 1 .. m : u[i] = v[i]
            BY <1>1, <2>3, <2>5
        <3> QED
            BY <1>1, <3>1, SamePiece
    <2> QED
        BY <1>0, <2>5, <2>6
<1> QED
    BY <1>2, <1>3, CoreExists

\* What precedes the first mark of a text.
LEMMA UpToIs ==
    ASSUME NEW text \in Seq(Tokens), NEW marks
    PROVE  LET K == {i \in 1 .. Len(text) : text[i] \in marks}
           IN  UpTo(text, marks) = IF K = {} THEN text ELSE SubSeq(text, 1, Min(K) - 1)
<1> DEFINE K == {i \in 1 .. Len(text) : text[i] \in marks}
           k == IF K # {} THEN Min(K) ELSE 0
<1>1. UpTo(text, marks) = IF k = 0 THEN text ELSE SubSeq(text, 1, k - 1)
    BY Zenon DEF UpTo, SelectInSeq
<1> DEFINE own == IF K = {} THEN text ELSE SubSeq(text, 1, Min(K) - 1)
<1>2. CASE K = {}
    BY <1>1, <1>2
<1>3. CASE K # {}
    <2>1. K \in SUBSET Nat /\ K \subseteq Nat /\ 0 \notin K
        OBVIOUS
    <2>2. PICK x \in K : \A y \in K : x <= y
        BY <1>3, <2>1, HasLeast
    <2>3. Min(K) = x /\ x # 0
        BY <2>1, <2>2, LeastIs
    <2> HIDE DEF K
    <2>4. UpTo(text, marks) = own
        BY <1>1, <1>3, <2>3
    <2> QED
        BY <2>4 DEF K
<1> QED
    BY <1>2, <1>3

\* It is the same in a longer text that goes on with a mark.
LEMMA UpToSame ==
    ASSUME NEW u \in Seq(Tokens), NEW v \in Seq(Tokens), Len(u) <= Len(v),
           \A i \in 1 .. Len(u) : v[i] = u[i], NEW marks,
           Len(u) < Len(v) => v[Len(u) + 1] \in marks
    PROVE  UpTo(u, marks) = UpTo(v, marks)
<1> DEFINE m == Len(u)
           n == Len(v)
           K == {i \in 1 .. m : u[i] \in marks}
           L == {i \in 1 .. n : v[i] \in marks}
<1>1. m \in Nat /\ n \in Nat /\ K \subseteq Nat /\ L \subseteq Nat /\ K \in SUBSET Nat
    OBVIOUS
<1>2. UpTo(u, marks) = IF K = {} THEN u ELSE SubSeq(u, 1, Min(K) - 1)
    BY UpToIs
<1>3. UpTo(v, marks) = IF L = {} THEN v ELSE SubSeq(v, 1, Min(L) - 1)
    BY UpToIs
<1>4. \A i \in 1 .. m : i \in K <=> i \in L
    BY <1>1
<1>5. /\ \A x \in K : x \in 1 .. m
      /\ \A x \in L : x \in 1 .. n
      /\ m < n => m + 1 \in L
    BY <1>1
<1>6. ASSUME NEW k \in 0 .. m
      PROVE  SubSeq(u, 1, k) = SubSeq(v, 1, k)
    <2>1. 1 \in 1 .. m + 1 /\ k \in 1 - 1 .. m /\ m <= m /\ \A i \in 1 .. m : u[i] = v[i]
        BY <1>1
    <2> QED
        BY <1>1, <2>1, SamePiece
<1> HIDE DEF K, L
<1>7. CASE K # {}
    <2>1. PICK x \in K : \A y \in K : x <= y
        BY <1>1, <1>7, HasLeast
    <2>2. x \in L /\ \A y \in L : x <= y
        BY <1>1, <1>4, <1>5, <2>1
    <2>3. Min(K) = x /\ Min(L) = x
        BY <1>1, <2>1, <2>2, LeastIs
    <2>4. SubSeq(u, 1, x - 1) = SubSeq(v, 1, x - 1)
        <3>1. x - 1 \in 0 .. m
            BY <1>1, <1>5, <2>1
        <3> QED
            BY <1>6, <3>1
    <2> QED
        BY <1>2, <1>3, <2>1, <2>2, <2>3, <2>4
<1>8. CASE K = {}
    <2>1. \A i \in L : m + 1 <= i
        BY <1>1, <1>4, <1>5, <1>8
    <2>2. u = SubSeq(u, 1, m)
        OBVIOUS
    <2>3. CASE m = n
        <3>1. L = {}
            BY <1>1, <1>5, <2>1, <2>3
        <3>2. v = SubSeq(v, 1, n)
            OBVIOUS
        <3>3. SubSeq(u, 1, m) = SubSeq(v, 1, m)
            BY <1>1, <1>6
        <3> QED
            BY <1>2, <1>3, <1>8, <2>2, <2>3, <3>1, <3>2, <3>3
    <2>4. CASE m < n
        <3>1. m + 1 \in L
            BY <1>5, <2>4
        <3>2. Min(L) = m + 1
            BY <1>1, <2>1, <3>1, LeastIs
        <3>3. SubSeq(u, 1, m) = SubSeq(v, 1, m)
            BY <1>1, <1>6
        <3>4. (m + 1) - 1 = m /\ L # {}
            BY <1>1, <3>1
        <3> HIDE DEF m
        <3> QED
            BY <1>2, <1>3, <1>8, <2>2, <3>2, <3>3, <3>4
    <2> QED
        BY <1>1, <2>3, <2>4
<1> QED
    BY <1>7, <1>8

\* A name is read up to the blank behind it.
LEMMA NameSame ==
    ASSUME NEW u \in Seq(Tokens), u # <<>>, u[Len(u)] # Blank,
           NEW v \in Seq(Tokens), Len(u) <= Len(v), \A i \in 1 .. Len(u) : v[i] = u[i],
           Len(u) < Len(v) => v[Len(u) + 1] = Blank, NEW marks, Blank \in marks
    PROVE  UpTo(Trim(u), marks) = UpTo(Trim(v), marks)
<1> DEFINE m == Len(u)
           n == Len(v)
           blanks == {Blank}
<1>0. Trim(u) = Trimmed(u, blanks) /\ Trim(v) = Trimmed(v, blanks)
    BY TrimMeans
<1>1. /\ m \in Nat /\ n \in Nat /\ m \in 1 .. m /\ m \in 1 .. n
      /\ u[m] \notin blanks /\ v[m] = u[m]
    OBVIOUS
<1>2. PICK lo, hi : Core(u, blanks, lo, hi)
    BY <1>1, CoreExists
<1>3. PICK low, high : Core(v, blanks, low, high)
    BY <1>1, CoreExists
<1>4. /\ lo \in 1 .. m /\ hi \in 1 .. m /\ u[lo] \notin blanks
      /\ \A i \in 1 .. m : i < lo \/ hi < i => u[i] \in blanks
    BY <1>2 DEF Core
<1>5. /\ low \in 1 .. n /\ high \in 1 .. n /\ v[low] \notin blanks
      /\ \A i \in 1 .. n : i < low \/ high < i => v[i] \in blanks
    BY <1>3 DEF Core
<1> HIDE DEF blanks
<1>6. hi = m /\ m <= high
    BY <1>1, <1>4, <1>5
<1>7. low = lo
    <2>1. lo \in 1 .. n /\ v[lo] = u[lo]
        BY <1>1, <1>4
    <2>2. ~(lo < low)
        BY <1>4, <1>5, <2>1
    <2>3. ASSUME low < lo PROVE FALSE
        <3>1. low \in 1 .. m /\ v[low] = u[low]
            BY <1>1, <1>4, <1>5, <2>3
        <3> QED
            BY <1>4, <1>5, <2>3, <3>1
    <2> QED
        BY <1>4, <1>5, <2>2, <2>3
<1> DEFINE s == SubSeq(u, lo, m)
           t == SubSeq(v, lo, high)
<1>8. Trim(u) = s /\ Trim(v) = t
    BY <1>0, <1>2, <1>3, <1>6, <1>7, TrimToCore
<1>9. /\ s \in Seq(Tokens) /\ Len(s) = m - lo + 1
      /\ \A i \in 1 .. m - lo + 1 : s[i] = u[lo + i - 1]
    <2>1. m \in lo .. m
        BY <1>1, <1>4
    <2> QED
        BY <1>4, <2>1, SliceIs
<1>10. /\ t \in Seq(Tokens) /\ Len(t) = high - lo + 1
       /\ \A i \in 1 .. high - lo + 1 : t[i] = v[lo + i - 1]
    <2>1. lo \in 1 .. n /\ high \in lo .. n
        BY <1>1, <1>4, <1>5, <1>6
    <2> QED
        BY <2>1, SliceIs
<1> HIDE DEF s, t
<1>11. Len(s) <= Len(t) /\ \A i \in 1 .. Len(s) : t[i] = s[i]
    <2>1. Len(s) <= Len(t)
        BY <1>1, <1>4, <1>5, <1>6, <1>9, <1>10
    <2>2. ASSUME NEW i \in 1 .. Len(s)
          PROVE  t[i] = s[i]
        <3>1. i \in 1 .. m - lo + 1 /\ i \in 1 .. high - lo + 1 /\ lo + i - 1 \in 1 .. m
            BY <1>1, <1>4, <1>5, <1>6, <1>9
        <3> QED
            BY <1>9, <1>10, <3>1
    <2> QED
        BY <2>1, <2>2
<1>12. Len(s) < Len(t) => t[Len(s) + 1] \in marks
    <2> SUFFICES ASSUME Len(s) < Len(t) PROVE t[Len(s) + 1] \in marks
        OBVIOUS
    <2>1. m < n /\ Len(s) + 1 \in 1 .. high - lo + 1 /\ lo + (Len(s) + 1) - 1 = m + 1
        BY <1>1, <1>4, <1>5, <1>9, <1>10
    <2>2. t[Len(s) + 1] = v[m + 1]
        BY <1>10, <2>1
    <2> QED
        BY <2>1, <2>2
<1>13. UpTo(s, marks) = UpTo(t, marks)
    BY <1>9, <1>10, <1>11, <1>12, UpToSame
<1> QED
    BY <1>8, <1>13

----------------------------------------------------------------------------
(* The keywords of a statement.                                            *)

\* The first word of a text that is in set.
Found(text, set) == FirstWord(text, ScanWords(text), set)

\* The words of a text lie in it,
LEMMA HitsInside ==
    ASSUME NEW text \in Seq(Tokens), NEW set
    PROVE  Hits(text, set) \subseteq 1 .. Len(text)
BY TopAtInside DEF Hits

\* none of them is found when none is there,
LEMMA FoundNone ==
    ASSUME NEW text \in Seq(Tokens), NEW set, Hits(text, set) = {}
    PROVE  Found(text, set) = 0
BY FirstIs DEF Found, FirstUpTo

\* and the first one when there are some.
LEMMA FoundSome ==
    ASSUME NEW text \in Seq(Tokens), NEW set, Hits(text, set) # {}
    PROVE  /\ Found(text, set) \in Hits(text, set)
           /\ \A i \in Hits(text, set) : Found(text, set) <= i
<1> DEFINE f == Found(text, set)
           n == Len(text)
           hits == Hits(text, set)
<1>1. FirstUpTo(f, n, hits)
    BY FirstIs DEF Found
<1>2. hits \subseteq 1 .. n
    BY HitsInside
<1> HIDE DEF f, n
<1>3. hits # {}
    OBVIOUS
<1> HIDE DEF hits
<1>4. f \in hits /\ \A i \in hits : f <= i
    BY <1>1, <1>2, <1>3 DEF FirstUpTo
<1> QED
    BY <1>4 DEF f, hits

\* A word that is in the first text is found there,
LEMMA FoundLeft ==
    ASSUME NEW a \in Seq(Tokens), NEW b \in Seq(Tokens), Closed(a), NEW set, Hits(a, set) # {}
    PROVE  Found(a \o b, set) = Found(a, set) /\ Hits(a \o b, set) # {}
<1> DEFINE text == a \o b
           f == Found(a, set)
           g == Found(text, set)
           H == Hits(a, set)
           I == Hits(text, set)
           m == Len(a)
<1>0. text \in Seq(Tokens) /\ m \in Nat
    OBVIOUS
<1>1. \A i \in 1 .. m : i \in I <=> i \in H
    BY HitsJoin
<1> HIDE DEF text
<1>2. f \in H /\ H \subseteq 1 .. m
    BY FoundSome, HitsInside
<1>3. f \in I
    BY <1>1, <1>2
<1>4. g \in I /\ I \subseteq 1 .. Len(text) /\ \A i \in I : g <= i
    BY <1>0, <1>3, FoundSome, HitsInside
<1>5. \A i \in H : f <= i
    BY FoundSome
<1>6. Len(text) \in Nat
    BY <1>0
<1> HIDE DEF f, g, H, I, m
<1>7. g \in 1 .. m
    BY <1>0, <1>2, <1>3, <1>4, <1>6
<1>8. g \in H
    BY <1>1, <1>4, <1>7
<1>9. f <= g /\ g <= f /\ f \in Nat /\ g \in Nat
    BY <1>2, <1>3, <1>4, <1>5, <1>7, <1>8
<1>10. f = g
    BY <1>9
<1> QED
    BY <1>3, <1>10 DEF f, g, I, text

\* one that is in neither of two texts is in none,
LEMMA HitsNone ==
    ASSUME NEW a \in Seq(Tokens), NEW b \in Seq(Tokens), Closed(a), NEW set,
           Hits(a, set) = {}, Hits(b, set) = {}
    PROVE  Hits(a \o b, set) = {}
<1> SUFFICES ASSUME NEW i \in Hits(a \o b, set) PROVE FALSE
    OBVIOUS
<1> DEFINE text == a \o b
           m == Len(a)
           n == Len(b)
<1>1. text \in Seq(Tokens) /\ m \in Nat /\ n \in Nat /\ Len(text) = m + n
    OBVIOUS
<1>2. /\ \A j \in 1 .. m : j \in Hits(text, set) <=> j \in Hits(a, set)
      /\ \A j \in 1 .. n : m + j \in Hits(text, set) <=> j \in Hits(b, set)
    BY HitsJoin
<1>3. i \in 1 .. Len(text)
    BY <1>1, HitsInside
<1> HIDE DEF text, m, n
<1>4. i \in 1 .. m \/ (i - m \in 1 .. n /\ m + (i - m) = i)
    BY <1>1, <1>3
<1>5. i \in Hits(text, set)
    BY DEF text
<1> QED
    BY <1>2, <1>4, <1>5

\* and the second token of a clause is found where the clause begins.
LEMMA FoundHere ==
    ASSUME NEW a \in Seq(Tokens), NEW b \in Seq(Tokens), Closed(a), NEW set,
           Hits(a, set) = {}, 1 \notin Hits(b, set), 2 \in Hits(b, set)
    PROVE  Found(a \o b, set) = Len(a) + 2 /\ Hits(a \o b, set) # {}
<1> DEFINE text == a \o b
           m == Len(a)
           n == Len(b)
           g == Found(text, set)
           I == Hits(text, set)
<1>1. text \in Seq(Tokens) /\ m \in Nat /\ n \in Nat /\ Len(text) = m + n
    OBVIOUS
<1>2. /\ \A j \in 1 .. m : j \in I <=> j \in Hits(a, set)
      /\ \A j \in 1 .. n : m + j \in I <=> j \in Hits(b, set)
    BY HitsJoin
<1>3. 2 \in 1 .. n
    BY HitsInside
<1>4. m + 2 \in I
    BY <1>2, <1>3
<1> HIDE DEF text
<1>5. g \in I /\ I \subseteq 1 .. Len(text) /\ \A i \in I : g <= i
    BY <1>1, <1>4, FoundSome, HitsInside
<1> HIDE DEF g, I, m, n
<1>6. g \in 1 .. m + n /\ g <= m + 2
    BY <1>1, <1>4, <1>5
<1>7. g \notin 1 .. m
    BY <1>2, <1>5
<1>8. g # m + 1
    <2>1. 1 \in 1 .. n
        BY <1>1, <1>3
    <2> QED
        BY <1>2, <1>5, <2>1
<1>9. g = m + 2
    BY <1>1, <1>6, <1>7, <1>8
<1> QED
    BY <1>4, <1>9 DEF g, m, I, text

\* A clause begins with a blank and a word.
LEMMA BeginIs ==
    ASSUME NEW text \in Seq(Tokens), Len(text) > 1, text[1] = Blank, IsWord(text[2]), NEW set
    PROVE  /\ 1 \notin Hits(text, set)
           /\ text[2] \in set => 2 \in Hits(text, set)
<1>1. Situated(Contexts(text), text)
    BY ContextsAre
<1>2. 1 \in 1 .. Len(text) /\ Len(text) \in Nat
    OBVIOUS
<1>3. Contexts(text)[1] = Plain /\ Contexts(text)[1 + 1] = Past(Contexts(text)[1], text[1])
    BY <1>1, <1>2, Zenon DEF Situated
<1>4. Contexts(text)[2] = Plain
    <2>1. Past(Plain, Blank) = Plain
        BY PastMark
    <2> QED
        BY <1>3, <2>1
<1>5. 2 \in TopLevel(text)
    <2>1. 2 \in DOMAIN text
        BY <1>2
    <2> QED
        BY <1>4, <2>1 DEF TopLevel, Unquoted, Plain
<1>6. ~IsWord(Blank)
    BY Zenon DEF IsWord, Marks, Blank
<1> QED
    BY <1>5, <1>6 DEF Hits, TopAt

\* What is found at the same words is the same.
LEMMA FirstAgrees ==
    ASSUME NEW text, NEW part, NEW D, NEW words \in Seq(D), \A i \in D : text[i] = part[i],
           NEW set
    PROVE  FirstWord(text, words, set) = FirstWord(part, words, set)
<1> DEFINE n == Len(words)
           K == {k \in 1 .. n : text[words[k]] \in set}
           L == {k \in 1 .. n : part[words[k]] \in set}
<1>1. n \in Nat /\ \A i \in 1 .. n : words[i] \in D
    OBVIOUS
<1>2. K = L
    BY <1>1
<1>3. FirstWord(text, words, set) =
          IF (IF K # {} THEN Min(K) ELSE 0) = 0 THEN 0 ELSE words[IF K # {} THEN Min(K) ELSE 0]
    BY Zenon DEF FirstWord, SelectInSeq
<1>4. FirstWord(part, words, set) =
          IF (IF L # {} THEN Min(L) ELSE 0) = 0 THEN 0 ELSE words[IF L # {} THEN Min(L) ELSE 0]
    BY Zenon DEF FirstWord, SelectInSeq
<1> HIDE DEF K, L
<1> QED
    BY <1>2, <1>3, <1>4

\* The parts of a statement: a head with SELECT, a list, and clauses that are
\* left out or begin with their keyword.
Heading(h) ==
    /\ Statement(h) /\ h # <<>> /\ h[1] \in {"select", "with"}
    /\ Hits(h, {"select"}) # {} /\ Hits(h, ListEnd) = {}
Listing(l) == Statement(l) /\ Hits(l, ListEnd) = {}
Clause(x, keywords) ==
    x = <<>> \/ (Len(x) > 1 /\ x[1] = Blank /\ IsWord(x[2]) /\ x[2] \in keywords)
Source(f) ==
    /\ Statement(f) /\ Clause(f, {"from"})
    /\ f # <<>> => Len(f) > 2 /\ f[Len(f)] # Blank
    /\ Hits(f, {"where"}) = {} /\ Hits(f, {"limit"}) = {}
Condition(c) ==
    /\ Statement(c) /\ Clause(c, {"where"})
    /\ Hits(c, {"from"}) = {} /\ Hits(c, {"limit"}) = {}
Close(b) ==
    /\ Statement(b) /\ Clause(b, ListEnd)
    /\ Hits(b, {"from"}) = {} /\ Hits(b, {"where"}) = {}

\* Nothing behind a text leaves it as it is.
LEMMA NothingBehind ==
    ASSUME NEW a \in Seq(Tokens)
    PROVE  a \o <<>> = a
OBVIOUS

\* Nothing has no words.
LEMMA NoHits ==
    ASSUME NEW set
    PROVE  Hits(<<>>, set) = {}
<1> DEFINE none == <<>>
<1>1. none \in Seq(Tokens) /\ Len(none) = 0
    OBVIOUS
<1> HIDE DEF none
<1>2. Hits(none, set) \subseteq 1 .. 0
    BY <1>1, HitsInside
<1>3. 1 .. 0 = {}
    OBVIOUS
<1> QED
    BY <1>2, <1>3 DEF none

\* A clause that is written stands with its keyword where it begins.
LEMMA ClauseAt ==
    ASSUME NEW a, Statement(a), NEW x, Statement(x), NEW keywords, Clause(x, keywords),
           NEW set, keywords \subseteq set, Hits(a, set) = {}
    PROVE  /\ x = <<>> => a \o x = a
           /\ x # <<>> => Found(a \o x, set) = Len(a) + 2 /\ Hits(a \o x, set) # {}
<1>1. a \in Seq(Tokens) /\ x \in Seq(Tokens) /\ Closed(a)
    BY DEF Statement
<1>2. CASE x = <<>>
    BY <1>1, <1>2, NothingBehind
<1>3. CASE x # <<>>
    <2>1. 1 \notin Hits(x, set) /\ 2 \in Hits(x, set)
        BY <1>1, <1>3, BeginIs DEF Clause
    <2> QED
        BY <1>1, <1>3, <2>1, FoundHere
<1> QED
    BY <1>2, <1>3

\* What the head and the list have not is not in the one of them.
LEMMA FewerHits ==
    ASSUME NEW text, Hits(text, ListEnd) = {}
    PROVE  Hits(text, {"from"}) = {} /\ Hits(text, {"where"}) = {} /\ Hits(text, {"limit"}) = {}
BY DEF Hits, ListEnd

\* The keywords of a statement are found in the clause that they belong to.
LEMMA Keywords ==
    ASSUME NEW h, Heading(h), NEW l, Listing(l), NEW f, Source(f), NEW c, Condition(c),
           NEW b, Close(b)
    PROVE  LET m == Len(h \o l)
               body == (((h \o l) \o f) \o c) \o b
           IN  /\ Statement(body)
               /\ Found(body, {"select"}) = Found(h, {"select"})
               /\ Found(h, {"select"}) \in 1 .. Len(h)
               /\ Found(body, {"from"}) = IF f = <<>> THEN 0 ELSE m + 2
               /\ Found(body, {"where"}) # 0 <=> c # <<>>
               /\ Found(body, ListEnd) = IF f = <<>> /\ c = <<>> /\ b = <<>> THEN 0 ELSE m + 2
               /\ LimitOf(body, ScanWords(body)) = LimitOf(b, ScanWords(b))
<1> DEFINE a1 == h \o l
           a2 == a1 \o f
           a3 == a2 \o c
           body == a3 \o b
<1>1. Statement(h) /\ Statement(l) /\ Statement(f) /\ Statement(c) /\ Statement(b)
    BY DEF Heading, Listing, Source, Condition, Close
<1>2. Statement(a1)
    BY <1>1, StatementJoin
<1>10. \A set : Hits(h, set) # {} => Found(a1, set) = Found(h, set) /\ Hits(a1, set) # {}
    BY <1>1, FoundLeft DEF Statement
<1>11. \A set : Hits(h, set) = {} /\ Hits(l, set) = {} => Hits(a1, set) = {}
    BY <1>1, HitsNone DEF Statement
<1> HIDE DEF a1
<1>3. Statement(a2)
    BY <1>1, <1>2, StatementJoin
<1>12. \A set : Hits(a1, set) # {} => Found(a2, set) = Found(a1, set) /\ Hits(a2, set) # {}
    BY <1>1, <1>2, FoundLeft DEF Statement
<1>13. \A set : Hits(a1, set) = {} /\ Hits(f, set) = {} => Hits(a2, set) = {}
    BY <1>1, <1>2, HitsNone DEF Statement
<1>14. \A set : {"from"} \subseteq set /\ Hits(a1, set) = {} =>
          /\ f = <<>> => a2 = a1
          /\ f # <<>> => Found(a2, set) = Len(a1) + 2 /\ Hits(a2, set) # {}
    BY <1>1, <1>2, ClauseAt DEF Source
<1> HIDE DEF a2
<1>4. Statement(a3)
    BY <1>1, <1>3, StatementJoin
<1>15. \A set : Hits(a2, set) # {} => Found(a3, set) = Found(a2, set) /\ Hits(a3, set) # {}
    BY <1>1, <1>3, FoundLeft DEF Statement
<1>16. \A set : Hits(a2, set) = {} /\ Hits(c, set) = {} => Hits(a3, set) = {}
    BY <1>1, <1>3, HitsNone DEF Statement
<1>17. \A set : {"where"} \subseteq set /\ Hits(a2, set) = {} =>
          /\ c = <<>> => a3 = a2
          /\ c # <<>> => Found(a3, set) = Len(a2) + 2 /\ Hits(a3, set) # {}
    BY <1>1, <1>3, ClauseAt DEF Condition
<1> HIDE DEF a3
<1>5. Statement(body)
    BY <1>1, <1>4, StatementJoin
<1>18. \A set : Hits(a3, set) # {} => Found(body, set) = Found(a3, set) /\ Hits(body, set) # {}
    BY <1>1, <1>4, FoundLeft DEF Statement
<1>19. \A set : Hits(a3, set) = {} /\ Hits(b, set) = {} => Hits(body, set) = {}
    BY <1>1, <1>4, HitsNone DEF Statement
<1>20. Hits(a3, ListEnd) = {} =>
          /\ b = <<>> => body = a3
          /\ b # <<>> => Found(body, ListEnd) = Len(a3) + 2 /\ Hits(body, ListEnd) # {}
    BY <1>1, <1>4, ClauseAt DEF Close
<1>21. Hits(a3, {"limit"}) = {} => LimitOf(body, ScanWords(body)) = LimitOf(b, ScanWords(b))
    BY <1>1, <1>4, LimitJoin DEF Statement
<1> HIDE DEF body
<1>22. \A set : Hits(body, set) = {} => Found(body, set) = 0
    BY <1>5, FoundNone DEF Statement
<1>23. Len(a1) \in Nat /\ Len(a2) \in Nat /\ Len(a3) \in Nat
    BY <1>2, <1>3, <1>4 DEF Statement
<1>24. /\ Hits(h, {"select"}) # {} /\ Hits(h, ListEnd) = {} /\ Hits(l, ListEnd) = {}
       /\ Hits(f, {"where"}) = {} /\ Hits(f, {"limit"}) = {}
       /\ Hits(c, {"from"}) = {} /\ Hits(c, {"limit"}) = {}
       /\ Hits(b, {"from"}) = {} /\ Hits(b, {"where"}) = {}
    BY DEF Heading, Listing, Source, Condition, Close
<1>25. Hits(a1, ListEnd) = {}
    BY <1>11, <1>24
<1>26. Hits(a1, {"from"}) = {} /\ Hits(a1, {"where"}) = {} /\ Hits(a1, {"limit"}) = {}
    BY <1>25, FewerHits
<1>27. \A set : Hits(<<>>, set) = {}
    BY NoHits
<1>28. {"from"} \subseteq ListEnd /\ {"where"} \subseteq ListEnd
    BY DEF ListEnd
<1>31. Found(body, {"select"}) = Found(h, {"select"})
    BY <1>10, <1>12, <1>15, <1>18, <1>24
<1>32. Found(h, {"select"}) \in 1 .. Len(h)
    <2>1. h \in Seq(Tokens)
        BY <1>1 DEF Statement
    <2> QED
        BY <1>24, <2>1, FoundSome, HitsInside
<1>33. Found(body, {"from"}) = IF f = <<>> THEN 0 ELSE Len(a1) + 2
    <2>1. CASE f = <<>>
        <3>1. Hits(f, {"from"}) = {}
            BY <1>27, <2>1
        <3> QED
            BY <1>13, <1>16, <1>19, <1>22, <1>24, <1>26, <2>1, <3>1
    <2>2. CASE f # <<>>
        BY <1>14, <1>15, <1>18, <1>26, <2>2
    <2> QED
        BY <2>1, <2>2
<1>34. Found(body, {"where"}) # 0 <=> c # <<>>
    <2>0. Hits(a2, {"where"}) = {}
        BY <1>13, <1>24, <1>26
    <2>1. CASE c = <<>>
        <3>1. Hits(c, {"where"}) = {}
            BY <1>27, <2>1
        <3> QED
            BY <1>16, <1>19, <1>22, <1>24, <2>0, <2>1, <3>1
    <2>2. CASE c # <<>>
        <3>1. Found(body, {"where"}) = Len(a2) + 2
            BY <1>17, <1>18, <2>0, <2>2
        <3> QED
            BY <1>23, <2>2, <3>1
    <2> QED
        BY <2>1, <2>2
<1>35. Found(body, ListEnd) = IF f = <<>> /\ c = <<>> /\ b = <<>> THEN 0 ELSE Len(a1) + 2
    <2>1. CASE f # <<>>
        BY <1>14, <1>15, <1>18, <1>25, <1>28, <2>1
    <2>2. CASE f = <<>> /\ c # <<>>
        <3>1. a2 = a1
            BY <1>14, <1>25, <1>28, <2>2
        <3> QED
            BY <1>17, <1>18, <1>25, <1>28, <2>2, <3>1
    <2>3. CASE f = <<>> /\ c = <<>>
        <3>1. a2 = a1 /\ a3 = a1
            BY <1>14, <1>17, <1>25, <1>28, <2>3
        <3>2. CASE b = <<>>
            BY <1>20, <1>22, <1>25, <2>3, <3>1, <3>2
        <3>3. CASE b # <<>>
            BY <1>20, <1>25, <2>3, <3>1, <3>3
        <3> QED
            BY <3>2, <3>3
    <2> QED
        BY <2>1, <2>2, <2>3
<1>36. LimitOf(body, ScanWords(body)) = LimitOf(b, ScanWords(b))
    BY <1>13, <1>16, <1>21, <1>24, <1>26
<1> QED
    BY <1>5, <1>31, <1>32, <1>33, <1>34, <1>35, <1>36 DEF body, a3, a2, a1

\* A text that begins with a word is trimmed at its end alone, and has the same words then.
LEMMA TrimmedEnd ==
    ASSUME NEW body \in Seq(Tokens), body # <<>>, body[1] # Blank
    PROVE  LET t == Trim(body)
           IN  /\ t \in Seq(Tokens) /\ Len(t) \in 1 .. Len(body)
               /\ \A i \in 1 .. Len(t) : t[i] = body[i]
               /\ t = SubSeq(body, 1, Len(t))
               /\ body[Len(t)] # Blank
               /\ \A i \in 1 .. Len(body) : Len(t) < i => body[i] = Blank
               /\ ScanWords(t) = ScanWords(body)
<1> DEFINE t == Trim(body)
           n == Len(body)
           blanks == {Blank}
<1>1. n \in Nat /\ 1 \in 1 .. n /\ body[1] \notin blanks
    OBVIOUS
<1>2. PICK lo, hi : Core(body, blanks, lo, hi)
    BY <1>1, CoreExists
<1>3. /\ lo \in 1 .. n /\ hi \in 1 .. n /\ body[hi] \notin blanks
      /\ \A i \in 1 .. n : i < lo \/ hi < i => body[i] \in blanks
    BY <1>2 DEF Core
<1>4. lo = 1
    BY <1>1, <1>3
<1>5. t = SubSeq(body, 1, hi)
    <2>1. t = Trimmed(body, blanks)
        BY TrimMeans
    <2> HIDE DEF blanks
    <2> QED
        BY <1>2, <1>4, <2>1, TrimToCore
<1> HIDE DEF t
<1>6. /\ t \in Seq(Tokens) /\ Len(t) = hi - 1 + 1
      /\ \A i \in 1 .. hi - 1 + 1 : t[i] = body[1 + i - 1]
    <2>1. hi \in 1 .. n
        BY <1>3
    <2> QED
        BY <1>1, <1>5, <2>1, SliceIs
<1>7. Len(t) = hi /\ \A i \in 1 .. hi : t[i] = body[i]
    BY <1>3, <1>6
<1>8. \A i \in 1 .. n : hi < i => body[i] = Blank
    BY <1>3
<1>9. ~IsWord(Blank)
    BY Zenon DEF IsWord, Marks, Blank
<1>10. ScanWords(body) = ScanWords(t)
    <2>1. Len(t) <= n /\ (\A i \in 1 .. Len(t) : body[i] = t[i])
          /\ \A i \in 1 .. n : Len(t) < i => ~IsWord(body[i])
        BY <1>1, <1>3, <1>7, <1>8, <1>9
    <2> QED
        BY <1>6, <2>1, MarksBehind
<1>11. body[hi] # Blank
    BY <1>3
<1> QED
    BY <1>3, <1>5, <1>6, <1>7, <1>8, <1>10, <1>11 DEF t

\* A word at the beginning is the first of the words.
LEMMA WordFirst ==
    ASSUME NEW text \in Seq(Tokens), text # <<>>, IsWord(text[1])
    PROVE  ScanWords(text) # <<>> /\ ScanWords(text)[1] = 1
<1> DEFINE n == Len(text)
           bad == (1 .. n) \ TopAt(text)
           rest == {i \in 1 .. n : 1 + i \in bad}
           m == n - 1
           w == Without(Positions(m), rest)
           one == 1
           f == Further(w, one)
<1>1. n \in Nat /\ n - 1 \in Nat /\ 1 + (n - 1) = n /\ 1 \in DOMAIN text
    OBVIOUS
<1>2. 1 \notin bad
    <2>1. Contexts(text)[1] = Plain
        BY ContextsAre DEF Situated
    <2> QED
        BY <1>1, <2>1 DEF TopAt, TopLevel, Unquoted, Plain
<1>3. ScanWords(text) = Without(Positions(n), bad)
    BY ScanWordsIs
<1>4. m \in Nat /\ one \in Nat /\ \A i \in 1 .. m : one + i \in bad <=> i \in rest
    BY <1>1
<1> HIDE DEF n, bad, rest, m, one
<1>5. Without(Positions(one + m), bad) = Without(Positions(one), bad) \o f
    BY <1>4, PositionsJoin
<1>6. Without(Positions(one), bad) = <<1>>
    <2> DEFINE zero == 0
    <2>1. Positions(zero) = <<>>
        BY DEF Positions
    <2>2. Without(Positions(zero), bad) = <<>>
        BY <2>1, WithoutOfNone
    <2>3. zero \in Nat /\ zero + 1 = one /\ one = 1
        BY DEF one
    <2> HIDE DEF zero
    <2>4. Without(Positions(zero + 1), bad) =
              IF zero + 1 \in bad THEN Without(Positions(zero), bad)
              ELSE Append(Without(Positions(zero), bad), zero + 1)
        BY <2>3, PositionsWithout
    <2> QED
        BY <1>2, <2>2, <2>3, <2>4
<1>7. f \in Seq(Nat)
    <2> DEFINE N == 1 .. m
    <2>1. Positions(m) \in Seq(N)
        BY <1>4 DEF Positions
    <2>2. w \in Seq(N)
        <3> HIDE DEF N
        <3> QED
            BY <2>1, WithoutIsFold
    <2> HIDE DEF w
    <2> QED
        BY <1>4, <2>2 DEF Further
<1> HIDE DEF f
<1>8. <<1>> \o f # <<>> /\ (<<1>> \o f)[1] = 1
    BY <1>7
<1>9. one + m = n
    BY <1>1 DEF one, m
<1> QED
    BY <1>3, <1>5, <1>6, <1>8, <1>9

\* A statement that begins so is read as a SELECT.
LEMMA ReadAsSelect ==
    ASSUME NEW text, NEW t, t = Trim(Unterminated(Trim(text))), t # <<>>,
           ScanWords(t) # <<>>, t[ScanWords(t)[1]] \in {"select", "with"}
    PROVE  Extract(text) = ExtractSelect(t, ScanWords(t))
BY Zenon DEF Extract

\* The marks that end the name of a table.
NameEnd == {" ", ",", ";", "(", ")"}

\* RawAfter, with its marks named.
LEMMA RawAfterIs ==
    ASSUME NEW text, NEW words, NEW kw
    PROVE  /\ RawAfter(text, words, kw) =
                  LET at == FirstWord(text, words, {kw})
                  IN  IF at = 0 THEN <<>>
                      ELSE UpTo(Trim(SubSeq(text, at + 1, Len(text))), NameEnd)
           /\ Blank \in NameEnd
<1>1. RawAfter(text, words, kw) =
                  LET at == FirstWord(text, words, {kw})
                  IN  IF at = 0 THEN <<>>
                      ELSE UpTo(Trim(SubSeq(text, at + 1, Len(text))), NameEnd)
    BY Zenon DEF RawAfter, NameEnd
<1>2. Blank \in NameEnd
    BY Zenon DEF Blank, NameEnd
<1> QED
    BY <1>1, <1>2

\* Where the parts of a statement lie in it.
Laid(a, f, c, b, body) ==
    /\ body \in Seq(Tokens) /\ Len(body) >= Len(a) + Len(f)
    /\ \A i \in 1 .. Len(a) : body[i] = a[i]
    /\ \A i \in 1 .. Len(f) : body[Len(a) + i] = f[i]
    /\ Len(a) + Len(f) < Len(body) => body[(Len(a) + Len(f)) + 1] = Blank
    /\ Len(a) < Len(body) => body[Len(a) + 1] = Blank
    /\ f = <<>> /\ c = <<>> /\ b = <<>> => Len(body) = Len(a)

\* A statement is laid out so.
LEMMA Layout ==
    ASSUME NEW a \in Seq(Tokens), NEW f \in Seq(Tokens), NEW c \in Seq(Tokens),
           NEW b \in Seq(Tokens),
           f # <<>> => f[1] = Blank, c # <<>> => c[1] = Blank, b # <<>> => b[1] = Blank
    PROVE  Laid(a, f, c, b, ((a \o f) \o c) \o b)
<1> DEFINE m == Len(a)
           n == Len(f)
           o == Len(c)
           p == Len(b)
           a2 == a \o f
           a3 == a2 \o c
           body == a3 \o b
<1>1. /\ m \in Nat /\ n \in Nat /\ o \in Nat /\ p \in Nat
      /\ (f = <<>> <=> n = 0) /\ (c = <<>> <=> o = 0) /\ (b = <<>> <=> p = 0)
    OBVIOUS
<1>2. a2 \in Seq(Tokens) /\ Len(a2) = m + n
      /\ (\A i \in 1 .. m : a2[i] = a[i]) /\ \A i \in 1 .. n : a2[m + i] = f[i]
    OBVIOUS
<1> HIDE DEF a2
<1> DEFINE k == Len(a2)
<1>3. a3 \in Seq(Tokens) /\ Len(a3) = k + o
      /\ (\A i \in 1 .. k : a3[i] = a2[i]) /\ \A i \in 1 .. o : a3[k + i] = c[i]
    <2>1. a2 \in Seq(Tokens)
        BY <1>2
    <2> QED
        BY <2>1
<1> HIDE DEF a3
<1> DEFINE l == Len(a3)
<1>4. body \in Seq(Tokens) /\ Len(body) = l + p
      /\ (\A i \in 1 .. l : body[i] = a3[i]) /\ \A i \in 1 .. p : body[l + i] = b[i]
    <2>1. a3 \in Seq(Tokens)
        BY <1>3
    <2> QED
        BY <2>1
<1>5. (n # 0 => f[1] = Blank) /\ (o # 0 => c[1] = Blank) /\ (p # 0 => b[1] = Blank)
    BY <1>1
<1>6. k = m + n /\ l = k + o /\ k \in Nat /\ l \in Nat
    BY <1>1, <1>2, <1>3
<1> HIDE DEF body, m, n, o, p, k, l
<1>7. \A i \in 1 .. m : body[i] = a[i]
    <2> TAKE i \in 1 .. m
    <2>1. i \in 1 .. k /\ i \in 1 .. l
        BY <1>1, <1>6
    <2> QED
        BY <1>2, <1>3, <1>4, <2>1
<1>8. \A i \in 1 .. n : body[m + i] = f[i]
    <2> TAKE i \in 1 .. n
    <2>1. m + i \in 1 .. k /\ m + i \in 1 .. l
        BY <1>1, <1>6
    <2> QED
        BY <1>2, <1>3, <1>4, <2>1
<1>12. \A i \in 1 .. o : body[k + i] = c[i]
    <2> TAKE i \in 1 .. o
    <2>1. k + i \in 1 .. l
        BY <1>1, <1>6
    <2> QED
        BY <1>3, <1>4, <2>1
<1>9. m + n < Len(body) => body[(m + n) + 1] = Blank
    <2>1. CASE o # 0
        <3>1. 1 \in 1 .. o
            BY <1>1, <2>1
        <3> QED
            BY <1>5, <1>6, <1>12, <2>1, <3>1
    <2>2. CASE o = 0 /\ p # 0
        <3>1. 1 \in 1 .. p /\ l = m + n
            BY <1>1, <1>6, <2>2
        <3> QED
            BY <1>4, <1>5, <2>2, <3>1
    <2>3. CASE o = 0 /\ p = 0
        BY <1>1, <1>4, <1>6, <2>3
    <2> QED
        BY <2>1, <2>2, <2>3
<1>10. m < Len(body) => body[m + 1] = Blank
    <2>1. CASE n # 0
        <3>1. 1 \in 1 .. n
            BY <1>1, <2>1
        <3> QED
            BY <1>5, <1>8, <2>1, <3>1
    <2>2. CASE n = 0
        <3>1. m + n = m
            BY <1>1, <2>2
        <3> QED
            BY <1>9, <3>1
    <2> QED
        BY <2>1, <2>2
<1>11. Len(body) >= m + n /\ (n = 0 /\ o = 0 /\ p = 0 => Len(body) = m)
    BY <1>1, <1>4, <1>6
<1>13. f = <<>> /\ c = <<>> /\ b = <<>> <=> n = 0 /\ o = 0 /\ p = 0
    BY <1>1
<1> QED
    BY <1>4, <1>7, <1>8, <1>9, <1>10, <1>11, <1>13 DEF Laid, body, a3, a2, m, n

\* The list of a statement is what stands between its SELECT and its first clause.
LEMMA ListOfStatement ==
    ASSUME NEW a \in Seq(Tokens), NEW t \in Seq(Tokens), NEW s \in 1 .. Len(a), s <= Len(t),
           \A i \in 1 .. Len(a) : i <= Len(t) => t[i] = a[i],
           NEW end, \/ end = Len(a) + 2 /\ Len(a) < Len(t) /\ t[Len(a) + 1] = Blank
                    \/ end = 0 /\ Len(t) <= Len(a)
                       /\ \A i \in 1 .. Len(a) : Len(t) < i => a[i] = Blank
    PROVE  Trim(SubSeq(t, s + 1, IF end = 0 THEN Len(t) ELSE end - 1))
               = Trim(SubSeq(a, s + 1, Len(a)))
<1> DEFINE m == Len(a)
           n == Len(t)
           e == IF end = 0 THEN n ELSE end - 1
           u == SubSeq(t, s + 1, e)
           v == SubSeq(a, s + 1, m)
<1>1. m \in Nat /\ n \in Nat /\ s \in Nat /\ s + 1 \in 1 .. m + 1 /\ m \in (s + 1) - 1 .. m
    OBVIOUS
<1>2. /\ v \in Seq(Tokens) /\ Len(v) = m - (s + 1) + 1
      /\ \A i \in 1 .. m - (s + 1) + 1 : v[i] = a[(s + 1) + i - 1]
    BY <1>1, PieceIs
<1>3. s + 1 \in 1 .. n + 1 /\ e \in (s + 1) - 1 .. n
    BY <1>1
<1> HIDE DEF e
<1>4. /\ u \in Seq(Tokens) /\ Len(u) = e - (s + 1) + 1
      /\ \A i \in 1 .. e - (s + 1) + 1 : u[i] = t[(s + 1) + i - 1]
    BY <1>3, PieceIs
<1> HIDE DEF u, v, Tokens
<1>5. CASE end = m + 2 /\ m < n /\ t[m + 1] = Blank
    <2>1. e = m + 1
        BY <1>1, <1>5 DEF e
    <2>2. Len(v) = m - s /\ Len(u) = (m - s) + 1
        BY <1>1, <1>2, <1>4, <2>1
    <2>3. ASSUME NEW i \in 1 .. Len(v)
          PROVE  u[i] = v[i]
        <3>0. i \in 1 .. m - s
            BY <2>2
        <3> HIDE DEF m, n
        <3>1. i \in 1 .. m - (s + 1) + 1 /\ i \in 1 .. e - (s + 1) + 1
              /\ (s + 1) + i - 1 \in 1 .. m /\ (s + 1) + i - 1 <= n
            <4>1. /\ m \in Nat /\ n \in Nat /\ s \in Nat /\ s <= m /\ m < n
                  /\ i \in Nat /\ 1 <= i /\ i <= m - s
                BY <1>1, <1>5, <3>0
            <4>2. (s + 1) + i - 1 = s + i /\ m - (s + 1) + 1 = m - s
                  /\ e - (s + 1) + 1 = (m - s) + 1
                BY <2>1, <4>1
            <4>3. s + i \in 1 .. m /\ s + i <= n /\ i \in 1 .. (m - s) + 1
                BY <4>1
            <4> QED
                BY <3>0, <4>2, <4>3
        <3> USE DEF m, n
        <3>2. t[(s + 1) + i - 1] = a[(s + 1) + i - 1]
            BY <3>1
        <3> QED
            BY <1>2, <1>4, <3>1, <3>2
    <2>4. ASSUME NEW i \in 1 .. Len(u), Len(v) < i
          PROVE  u[i] = Blank
        <3> DEFINE k == Len(u)
        <3>0. k \in Nat /\ k = (m - s) + 1 /\ m - s \in Nat /\ m - s < i /\ i \in 1 .. k
            BY <1>1, <1>4, <2>2, <2>4
        <3> HIDE DEF k, m
        <3>1. i = (m - s) + 1
            BY <3>0
        <3>2. i \in 1 .. e - (s + 1) + 1 /\ (s + 1) + i - 1 = m + 1
            BY <1>1, <2>1, <3>1
        <3> QED
            BY <1>4, <1>5, <3>2
    <2>5. Len(v) <= Len(u)
        BY <1>1, <2>2
    <2>6. Trim(v) = Trim(u)
        BY <1>2, <1>4, <2>3, <2>4, <2>5, TrimSame
    <2> QED
        BY <2>6 DEF u, v, e
<1>6. CASE end = 0 /\ n <= m /\ \A i \in 1 .. m : n < i => a[i] = Blank
    <2>1. e = n
        BY <1>6 DEF e
    <2>2. Len(v) = m - s /\ Len(u) = n - s
        BY <1>1, <1>2, <1>4, <2>1
    <2>3. ASSUME NEW i \in 1 .. Len(u)
          PROVE  v[i] = u[i]
        <3>0. i \in 1 .. n - s
            BY <2>2
        <3> HIDE DEF m, n
        <3>1. i \in 1 .. m - (s + 1) + 1 /\ i \in 1 .. e - (s + 1) + 1
              /\ (s + 1) + i - 1 \in 1 .. m /\ (s + 1) + i - 1 <= n
            <4>1. /\ m \in Nat /\ n \in Nat /\ s \in Nat /\ s <= m /\ n <= m
                  /\ i \in Nat /\ 1 <= i /\ i <= n - s
                BY <1>1, <1>6, <3>0
            <4>2. (s + 1) + i - 1 = s + i /\ m - (s + 1) + 1 = m - s
                  /\ e - (s + 1) + 1 = n - s
                BY <2>1, <4>1
            <4>3. s + i \in 1 .. m /\ s + i <= n /\ i \in 1 .. m - s /\ i \in 1 .. n - s
                BY <4>1
            <4> QED
                BY <4>2, <4>3
        <3> USE DEF m, n
        <3>2. t[(s + 1) + i - 1] = a[(s + 1) + i - 1]
            BY <3>1
        <3> QED
            BY <1>2, <1>4, <3>1, <3>2
    <2>4. ASSUME NEW i \in 1 .. Len(v), Len(u) < i
          PROVE  v[i] = Blank
        <3>1. i \in 1 .. m - (s + 1) + 1 /\ (s + 1) + i - 1 \in 1 .. m /\ n < (s + 1) + i - 1
            BY <1>1, <2>2, <2>4
        <3> QED
            BY <1>2, <1>6, <3>1
    <2>5. Len(u) <= Len(v)
        BY <1>1, <1>6, <2>2
    <2>6. Trim(u) = Trim(v)
        BY <1>2, <1>4, <2>3, <2>4, <2>5, TrimSame
    <2> QED
        BY <2>6 DEF u, v, e
<1> QED
    BY <1>5, <1>6

\* A statement and its parts, put together.
Body(h, l, f, c, b) == (((h \o l) \o f) \o c) \o b

\* A SELECT of such parts.
Parts(h, l, f, c, b) == Heading(h) /\ Listing(l) /\ Source(f) /\ Condition(c) /\ Close(b)

\* The parts are texts, and each clause begins with a blank.
LEMMA PartsAreTexts ==
    ASSUME NEW h, NEW l, NEW f, NEW c, NEW b, Parts(h, l, f, c, b)
    PROVE  /\ h \in Seq(Tokens) /\ l \in Seq(Tokens) /\ f \in Seq(Tokens)
           /\ c \in Seq(Tokens) /\ b \in Seq(Tokens)
           /\ h \o l \in Seq(Tokens) /\ Len(h \o l) = Len(h) + Len(l)
           /\ \A i \in 1 .. Len(h) : (h \o l)[i] = h[i]
           /\ f # <<>> => f[1] = Blank
           /\ c # <<>> => c[1] = Blank
           /\ b # <<>> => b[1] = Blank
           /\ h # <<>> /\ IsWord(h[1])
<1>1. /\ h \in Seq(Tokens) /\ l \in Seq(Tokens) /\ f \in Seq(Tokens)
      /\ c \in Seq(Tokens) /\ b \in Seq(Tokens)
    BY DEF Parts, Heading, Listing, Source, Condition, Close, Statement
<1>2. /\ f # <<>> => f[1] = Blank
      /\ c # <<>> => c[1] = Blank
      /\ b # <<>> => b[1] = Blank
    BY DEF Parts, Source, Condition, Close, Clause
<1>3. IsWord("select") /\ IsWord("with")
    BY Zenon DEF IsWord, Marks, Operators
<1>4. h # <<>> /\ IsWord(h[1])
    BY <1>3 DEF Parts, Heading
<1>5. /\ h \o l \in Seq(Tokens) /\ Len(h \o l) = Len(h) + Len(l)
      /\ \A i \in 1 .. Len(h) : (h \o l)[i] = h[i]
    BY <1>1
<1> QED
    BY <1>1, <1>2, <1>4, <1>5

\* Its text, trimmed, is its text up to the last token that is no blank.
LEMMA TrimmedBody ==
    ASSUME NEW h, NEW l, NEW f, NEW c, NEW b, Parts(h, l, f, c, b)
    PROVE  LET body == Body(h, l, f, c, b)
               t == Trim(body)
           IN  /\ Statement(body) /\ body \in Seq(Tokens)
               /\ t \in Seq(Tokens) /\ t # <<>> /\ Len(t) \in 1 .. Len(body)
               /\ \A i \in 1 .. Len(t) : t[i] = body[i]
               /\ body[Len(t)] # Blank
               /\ \A i \in 1 .. Len(body) : Len(t) < i => body[i] = Blank
               /\ ScanWords(t) = ScanWords(body) /\ ScanWords(t) \in Seq(1 .. Len(t))
               /\ ScanWords(t) # <<>> /\ ScanWords(t)[1] = 1 /\ t[1] = h[1]
               /\ \A set : FirstWord(t, ScanWords(t), set) = Found(body, set)
               /\ LimitOf(t, ScanWords(t)) = LimitOf(body, ScanWords(body))
<1> DEFINE body == Body(h, l, f, c, b)
           t == Trim(body)
           n == Len(t)
           a == h \o l
<1>1. /\ h \in Seq(Tokens) /\ f \in Seq(Tokens) /\ c \in Seq(Tokens) /\ b \in Seq(Tokens)
      /\ a \in Seq(Tokens) /\ Len(a) = Len(h) + Len(l) /\ l \in Seq(Tokens)
      /\ \A i \in 1 .. Len(h) : a[i] = h[i]
      /\ f # <<>> => f[1] = Blank
      /\ c # <<>> => c[1] = Blank
      /\ b # <<>> => b[1] = Blank
      /\ h # <<>> /\ IsWord(h[1])
    BY PartsAreTexts
<1>2. Statement(body)
    BY Keywords DEF Parts, Body
<1>3. body \in Seq(Tokens) /\ Len(body) >= Len(a) + Len(f) /\ \A i \in 1 .. Len(a) : body[i] = a[i]
    <2> HIDE DEF a
    <2>1. Laid(a, f, c, b, ((a \o f) \o c) \o b)
        BY <1>1, Layout
    <2>2. body = ((a \o f) \o c) \o b
        BY DEF Body, a
    <2> HIDE DEF body
    <2> QED
        BY <2>1, <2>2, Zenon DEF Laid
<1>4. Len(h) >= 1 /\ Len(h) \in Nat /\ Len(l) \in Nat /\ Len(f) \in Nat
    BY <1>1
<1> HIDE DEF body, t, a
<1>5. body # <<>> /\ body[1] = h[1] /\ IsWord(body[1])
    <2>1. /\ Len(a) \in Nat /\ Len(body) \in Nat
          /\ Len(a) = Len(h) + Len(l) /\ Len(body) >= Len(a) + Len(f)
        BY <1>1, <1>3
    <2>2. 1 <= Len(a) /\ 1 <= Len(body)
        BY <1>4, <2>1
    <2>3. 1 \in 1 .. Len(h) /\ 1 \in 1 .. Len(a) /\ Len(body) >= 1
        BY <1>4, <2>1, <2>2
    <2>4. body[1] = a[1] /\ a[1] = h[1] /\ body # <<>>
        BY <1>1, <1>3, <2>3
    <2> QED
        BY <1>1, <2>4
<1>6. body[1] # Blank
    <2>1. ~IsWord(Blank)
        BY Zenon DEF IsWord, Marks, Blank
    <2> QED
        BY <1>5, <2>1
<1>7. /\ t \in Seq(Tokens) /\ Len(t) \in 1 .. Len(body)
      /\ \A i \in 1 .. Len(t) : t[i] = body[i]
      /\ body[Len(t)] # Blank
      /\ \A i \in 1 .. Len(body) : Len(t) < i => body[i] = Blank
      /\ ScanWords(t) = ScanWords(body)
    BY <1>3, <1>5, <1>6, TrimmedEnd DEF t
<1>8. t # <<>> /\ t[1] = h[1] /\ IsWord(t[1])
    <2>1. 1 \in 1 .. Len(t)
        BY <1>3, <1>7
    <2> QED
        BY <1>5, <1>7, <2>1
<1>9. ScanWords(t) # <<>> /\ ScanWords(t)[1] = 1
    BY <1>7, <1>8, WordFirst
<1>10. ScanWords(t) \in Seq(1 .. Len(t))
    <2>1. ScanWords(t) \in Seq(TopAt(t)) /\ TopAt(t) \subseteq 1 .. Len(t)
        BY <1>7, ScanWordsIs, TopAtInside
    <2> QED
        BY <2>1
<1>11. \A set : FirstWord(t, ScanWords(t), set) = Found(body, set)
    <2> TAKE set
    <2> DEFINE D == 1 .. Len(t)
               words == ScanWords(t)
    <2>1. words \in Seq(D) /\ \A i \in D : t[i] = body[i]
        BY <1>7, <1>10
    <2> HIDE DEF D, words
    <2>2. FirstWord(t, words, set) = FirstWord(body, words, set)
        BY <2>1, FirstAgrees
    <2> QED
        BY <1>7, <2>2 DEF Found, words
<1>12. LimitOf(t, ScanWords(t)) = LimitOf(body, ScanWords(body))
    <2> DEFINE D == 1 .. Len(t)
               words == ScanWords(t)
    <2>1. words \in Seq(D) /\ \A i \in D : t[i] = body[i]
        BY <1>7, <1>10
    <2> HIDE DEF D, words
    <2>2. LimitOf(t, words) = LimitOf(body, words)
        BY <2>1, LimitAgrees
    <2> QED
        BY <1>7, <2>2 DEF words
<1> QED
    BY <1>2, <1>3, <1>7, <1>8, <1>9, <1>10, <1>11, <1>12 DEF body, t

\* Its list is read from the head and the list alone,
LEMMA ListIsRead ==
    ASSUME NEW h, NEW l, NEW f, NEW c, NEW b, Parts(h, l, f, c, b)
    PROVE  LET t == Trim(Body(h, l, f, c, b))
               words == ScanWords(t)
               sel == FirstWord(t, words, {"select"})
               end == FirstWord(t, Without(words, 1 .. sel), ListEnd)
           IN  /\ sel = Found(h, {"select"}) /\ sel # 0
               /\ Trim(SubSeq(t, sel + 1, IF end = 0 THEN Len(t) ELSE end - 1))
                      = Trim(SubSeq(h \o l, sel + 1, Len(h \o l)))
<1> DEFINE body == Body(h, l, f, c, b)
           t == Trim(body)
           words == ScanWords(t)
           sel == FirstWord(t, words, {"select"})
           end == FirstWord(t, Without(words, 1 .. sel), ListEnd)
           a == h \o l
           m == Len(a)
           n == Len(t)
           none == f = <<>> /\ c = <<>> /\ b = <<>>
<1>1. /\ body \in Seq(Tokens) /\ t \in Seq(Tokens) /\ n \in 1 .. Len(body)
      /\ \A i \in 1 .. n : t[i] = body[i]
      /\ \A i \in 1 .. Len(body) : n < i => body[i] = Blank
      /\ words = ScanWords(body) /\ words \in Seq(1 .. n)
      /\ \A set : FirstWord(t, words, set) = Found(body, set)
    BY TrimmedBody
<1>2. /\ Found(body, {"select"}) = Found(h, {"select"}) /\ Found(h, {"select"}) \in 1 .. Len(h)
      /\ Found(body, ListEnd) = IF none THEN 0 ELSE m + 2
    BY Keywords DEF Parts, Body
<1>3. /\ h \in Seq(Tokens) /\ l \in Seq(Tokens) /\ a \in Seq(Tokens) /\ m = Len(h) + Len(l)
      /\ f \in Seq(Tokens) /\ c \in Seq(Tokens) /\ b \in Seq(Tokens)
      /\ f # <<>> => f[1] = Blank
      /\ c # <<>> => c[1] = Blank
      /\ b # <<>> => b[1] = Blank
    BY PartsAreTexts
<1>4. /\ \A i \in 1 .. m : body[i] = a[i]
      /\ m < Len(body) => body[m + 1] = Blank
      /\ none => Len(body) = m
    <2> HIDE DEF a
    <2>1. Laid(a, f, c, b, ((a \o f) \o c) \o b)
        BY <1>3, Layout
    <2>2. body = ((a \o f) \o c) \o b
        BY DEF Body, a
    <2> HIDE DEF body
    <2> QED
        BY <2>1, <2>2, Zenon DEF Laid
<1>5. /\ \A i \in Hits(body, ListEnd) : ~none /\ m + 2 <= i
      /\ ~none => m + 2 \in 1 .. n
    <2>1. CASE Hits(body, ListEnd) = {}
        <3>1. Found(body, ListEnd) = 0
            BY <1>1, <2>1, FoundNone
        <3>2. m \in Nat
            BY <1>3
        <3> HIDE DEF body, m, none
        <3>3. none
            BY <1>2, <3>1, <3>2
        <3> QED
            BY <2>1, <3>3
    <2>2. CASE Hits(body, ListEnd) # {}
        <3>1. /\ Found(body, ListEnd) \in Hits(body, ListEnd)
              /\ \A i \in Hits(body, ListEnd) : Found(body, ListEnd) <= i
            BY <1>1, <2>2, FoundSome
        <3>2. Hits(body, ListEnd) \subseteq 1 .. Len(body) /\ Len(body) \in Nat /\ n \in Nat
            BY <1>1, HitsInside
        <3>3. Found(body, ListEnd) # 0
            BY <3>1, <3>2
        <3>4. Found(body, ListEnd) = m + 2 /\ ~none
            BY <1>2, <3>3
        <3>5. IsWord(body[m + 2])
            BY <3>1, <3>4 DEF Hits, TopAt
        <3>6. ~IsWord(Blank)
            BY Zenon DEF IsWord, Marks, Blank
        <3> HIDE DEF body, m, none, n
        <3>7. m + 2 \in 1 .. n
            BY <1>1, <3>1, <3>2, <3>4, <3>5, <3>6
        <3> QED
            BY <3>1, <3>4, <3>7
    <2> QED
        BY <2>1, <2>2
<1>6. sel = Found(h, {"select"}) /\ sel \in 1 .. Len(h)
    BY <1>1, <1>2
<1>7. m \in Nat /\ Len(h) <= m /\ Len(h) \in Nat /\ Len(body) \in Nat
    BY <1>1, <1>3
<1> HIDE DEF body, t, a
<1>8. sel \in 1 .. m /\ sel \in Nat
    BY <1>6, <1>7
<1> HIDE DEF sel
<1>9. end = Found(body, ListEnd)
    <2>1. words \in Seq(Nat \ {0})
        <3>1. n \in Nat
            BY <1>1
        <3> HIDE DEF words, n
        <3> QED
            BY <1>1, <3>1
    <2>2. ASSUME NEW k \in 1 .. Len(words), words[k] \in 1 .. sel
          PROVE  t[words[k]] \notin ListEnd
        <3>1. words \in Seq(TopAt(body))
            BY <1>1, ScanWordsIs
        <3>2. words[k] \in TopAt(body) /\ words[k] \in 1 .. n
            <4> HIDE DEF words, n
            <4> QED
                BY <1>1, <3>1
        <3>3. words[k] \in Hits(body, ListEnd) => m + 2 <= words[k]
            BY <1>5
        <3>4. words[k] \notin Hits(body, ListEnd)
            <4> DEFINE w == words[k]
            <4>1. w \in 1 .. sel /\ (w \in Hits(body, ListEnd) => m + 2 <= w)
                BY <2>2, <3>3
            <4> HIDE DEF w, m
            <4>2. w \notin Hits(body, ListEnd)
                BY <1>7, <1>8, <4>1
            <4> QED
                BY <4>2 DEF w
        <3> QED
            BY <1>1, <3>2, <3>4 DEF Hits
    <2> HIDE DEF words
    <2>3. FirstWord(t, Without(words, 1 .. sel), ListEnd) = FirstWord(t, words, ListEnd)
        BY <2>1, <2>2, FirstAfter
    <2> QED
        BY <1>1, <2>3 DEF words
<1>10. sel <= n
    <2>1. FirstWord(t, words, {"select"}) \in 0 .. Len(t)
        BY <1>1, FirstIs
    <2> QED
        BY <1>1, <2>1 DEF sel
<1> HIDE DEF end, words
<1>11. \/ end = m + 2 /\ m < n /\ t[m + 1] = Blank
       \/ end = 0 /\ n <= m /\ \A i \in 1 .. m : n < i => a[i] = Blank
    <2>1. CASE none
        <3>1. end = 0 /\ Len(body) = m
            BY <1>2, <1>4, <1>9, <2>1
        <3> HIDE DEF m, n, none
        <3>2. n <= m /\ \A i \in 1 .. m : n < i => a[i] = Blank
            BY <1>1, <1>4, <1>7, <3>1
        <3> QED
            BY <3>1, <3>2
    <2>2. CASE ~none
        <3>1. end = m + 2 /\ m + 2 \in 1 .. n
            BY <1>2, <1>5, <1>9, <2>2
        <3> HIDE DEF m, n, none
        <3>2. m < n /\ m < Len(body) /\ m + 1 \in 1 .. n
            BY <1>1, <1>7, <3>1
        <3> QED
            BY <1>1, <1>4, <3>1, <3>2
    <2> QED
        BY <2>1, <2>2
<1>12. \A i \in 1 .. m : i <= n => t[i] = a[i]
    BY <1>1, <1>4
<1>13. Trim(SubSeq(t, sel + 1, IF end = 0 THEN n ELSE end - 1)) = Trim(SubSeq(a, sel + 1, m))
    <2>1. /\ a \in Seq(Tokens) /\ t \in Seq(Tokens) /\ sel \in 1 .. Len(a) /\ sel <= Len(t)
          /\ \A i \in 1 .. Len(a) : i <= Len(t) => t[i] = a[i]
          /\ \/ end = Len(a) + 2 /\ Len(a) < Len(t) /\ t[Len(a) + 1] = Blank
             \/ end = 0 /\ Len(t) <= Len(a)
                /\ \A i \in 1 .. Len(a) : Len(t) < i => a[i] = Blank
        BY <1>1, <1>3, <1>8, <1>10, <1>11, <1>12
    <2> HIDE DEF Tokens
    <2> QED
        BY <2>1, ListOfStatement
<1> QED
    BY <1>6, <1>8, <1>13 DEF sel, end, words, t, body, a

\* its table from the FROM alone,
LEMMA TableIsRead ==
    ASSUME NEW h, NEW l, NEW f, NEW c, NEW b, Parts(h, l, f, c, b)
    PROVE  LET t == Trim(Body(h, l, f, c, b))
           IN  RawAfter(t, ScanWords(t), "from") = RawAfter(f, ScanWords(f), "from")
<1> DEFINE body == Body(h, l, f, c, b)
           t == Trim(body)
           words == ScanWords(t)
           a == h \o l
           m == Len(a)
           n == Len(t)
           p == Len(f)
<1>1. /\ body \in Seq(Tokens) /\ t \in Seq(Tokens) /\ n \in 1 .. Len(body)
      /\ \A i \in 1 .. n : t[i] = body[i]
      /\ \A i \in 1 .. Len(body) : n < i => body[i] = Blank
      /\ \A set : FirstWord(t, words, set) = Found(body, set)
    BY TrimmedBody
<1>2. Found(body, {"from"}) = IF f = <<>> THEN 0 ELSE m + 2
    BY Keywords DEF Parts, Body
<1>3. /\ f \in Seq(Tokens) /\ c \in Seq(Tokens) /\ b \in Seq(Tokens) /\ a \in Seq(Tokens)
      /\ f # <<>> => f[1] = Blank
      /\ c # <<>> => c[1] = Blank
      /\ b # <<>> => b[1] = Blank
    BY PartsAreTexts
<1>4. FirstWord(t, words, {"from"}) = IF f = <<>> THEN 0 ELSE m + 2
    BY <1>1, <1>2
<1>5. CASE f = <<>>
    <2> DEFINE none == <<>>
               ws == ScanWords(none)
    <2>1. FirstWord(none, ws, {"from"}) = 0
        <3>1. none \in Seq(Tokens)
            OBVIOUS
        <3> QED
            BY <3>1, NoHits, FoundNone DEF Found
    <2> HIDE DEF none, ws, words, t
    <2>2. RawAfter(none, ws, "from") = <<>> /\ RawAfter(t, words, "from") = <<>>
        BY <1>4, <1>5, <2>1, RawAfterIs
    <2> QED
        BY <1>5, <2>2 DEF none, ws, words, t
<1>6. CASE f # <<>>
    <2> DEFINE u == SubSeq(f, 3, p)
               v == SubSeq(t, m + 3, n)
    <2>1. Found(f, {"from"}) = 2
        <3>1. Statement(f) /\ Clause(f, {"from"})
            BY DEF Parts, Source
        <3>2. 1 \notin Hits(f, {"from"}) /\ 2 \in Hits(f, {"from"})
            BY <1>3, <1>6, <3>1, BeginIs DEF Clause
        <3>3. /\ Found(f, {"from"}) \in Hits(f, {"from"}) /\ Found(f, {"from"}) <= 2
              /\ Hits(f, {"from"}) \subseteq 1 .. p /\ p \in Nat
            BY <1>3, <3>2, FoundSome, HitsInside
        <3> QED
            BY <3>2, <3>3
    <2>2. p > 2 /\ p \in Nat /\ f[p] # Blank
        BY <1>3, <1>6 DEF Parts, Source
    <2>3. Laid(a, f, c, b, body)
        <3> HIDE DEF a
        <3>1. Laid(a, f, c, b, ((a \o f) \o c) \o b)
            BY <1>3, Layout
        <3>2. body = ((a \o f) \o c) \o b
            BY DEF Body, a
        <3> HIDE DEF body
        <3> QED
            BY <3>1, <3>2
    <2>4. m \in Nat /\ n \in Nat /\ Len(body) \in Nat
        BY <1>1, <1>3
    <2> HIDE DEF body, t, a
    <2>5. /\ Len(body) >= m + p
          /\ \A i \in 1 .. p : body[m + i] = f[i]
          /\ m + p < Len(body) => body[(m + p) + 1] = Blank
        BY <2>3 DEF Laid
    <2>6. m + p <= n
        <3>1. m + p \in 1 .. Len(body) /\ p \in 1 .. p
            BY <2>2, <2>4, <2>5
        <3>2. body[m + p] # Blank
            BY <2>2, <2>5, <3>1
        <3> HIDE DEF n, m, p
        <3> QED
            BY <1>1, <2>2, <2>4, <3>1, <3>2
    <2>7. /\ u \in Seq(Tokens) /\ Len(u) = p - 2
          /\ \A i \in 1 .. p - 2 : u[i] = f[i + 2]
        <3>1. 3 \in 1 .. p + 1 /\ p \in 3 - 1 .. p
            BY <2>2
        <3>2. /\ u \in Seq(Tokens) /\ Len(u) = p - 3 + 1
              /\ \A i \in 1 .. p - 3 + 1 : u[i] = f[3 + i - 1]
            BY <1>3, <3>1, PieceIs
        <3>3. p - 3 + 1 = p - 2 /\ \A i \in 1 .. p - 2 : 3 + i - 1 = i + 2
            BY <2>2
        <3> HIDE DEF u, p
        <3> QED
            BY <3>2, <3>3
    <2>8. /\ v \in Seq(Tokens) /\ Len(v) = n - (m + 2)
          /\ \A i \in 1 .. n - (m + 2) : v[i] = t[m + (i + 2)]
        <3>1. m + 3 \in 1 .. n + 1 /\ n \in (m + 3) - 1 .. n
            BY <2>2, <2>4, <2>6
        <3>2. /\ v \in Seq(Tokens) /\ Len(v) = n - (m + 3) + 1
              /\ \A i \in 1 .. n - (m + 3) + 1 : v[i] = t[(m + 3) + i - 1]
            BY <1>1, <3>1, PieceIs
        <3>3. n - (m + 3) + 1 = n - (m + 2)
              /\ \A i \in 1 .. n - (m + 2) : (m + 3) + i - 1 = m + (i + 2)
            BY <2>4
        <3> HIDE DEF v, m, n
        <3> QED
            BY <3>2, <3>3
    <2> HIDE DEF u, v, m, n, p
    <2>9. Len(u) <= Len(v) /\ u # <<>> /\ Len(u) \in 1 .. p - 2
        <3>1. Len(u) <= Len(v) /\ Len(u) \in 1 .. p - 2
            BY <2>2, <2>4, <2>6, <2>7, <2>8
        <3> QED
            BY <2>2, <3>1
    <2>10. \A i \in 1 .. Len(u) : v[i] = u[i]
        <3> TAKE i \in 1 .. Len(u)
        <3>1. /\ i \in 1 .. p - 2 /\ i \in 1 .. n - (m + 2) /\ i + 2 \in 1 .. p
              /\ m + (i + 2) \in 1 .. n
            BY <2>2, <2>4, <2>6, <2>7
        <3> QED
            BY <1>1, <2>5, <2>7, <2>8, <3>1
    <2>11. u[Len(u)] # Blank
        <3>1. Len(u) + 2 = p
            BY <2>2, <2>7
        <3> QED
            BY <2>2, <2>7, <2>9, <3>1
    <2>12. Len(u) < Len(v) => v[Len(u) + 1] = Blank
        <3> SUFFICES ASSUME Len(u) < Len(v) PROVE v[Len(u) + 1] = Blank
            OBVIOUS
        <3>1. /\ Len(u) + 1 \in 1 .. n - (m + 2) /\ m + ((Len(u) + 1) + 2) = (m + p) + 1
              /\ (m + p) + 1 \in 1 .. n /\ m + p < Len(body)
            BY <1>1, <2>2, <2>4, <2>6, <2>7, <2>8
        <3> QED
            BY <1>1, <2>5, <2>8, <3>1
    <2>13. UpTo(Trim(u), NameEnd) = UpTo(Trim(v), NameEnd)
        <3>1. Blank \in NameEnd
            BY RawAfterIs
        <3> QED
            BY <2>7, <2>8, <2>9, <2>10, <2>11, <2>12, <3>1, NameSame
    <2>14. RawAfter(f, ScanWords(f), "from") = UpTo(Trim(u), NameEnd)
        <3>1. FirstWord(f, ScanWords(f), {"from"}) = 2 /\ 2 + 1 = 3
            BY <2>1 DEF Found
        <3> QED
            BY <3>1, RawAfterIs DEF u, p
    <2>15. RawAfter(t, words, "from") = UpTo(Trim(v), NameEnd)
        <3>1. FirstWord(t, words, {"from"}) = m + 2 /\ m + 2 # 0 /\ (m + 2) + 1 = m + 3
            BY <1>4, <1>6, <2>4
        <3> HIDE DEF words
        <3> QED
            BY <3>1, RawAfterIs DEF v, n
    <2> QED
        BY <2>13, <2>14, <2>15 DEF t, body
<1> QED
    BY <1>5, <1>6

\* The columns of a list, and whether it has a star.
ColumnsOf(items) == FlattenSeq([k \in DOMAIN items |-> ParseItem(items[k])])
HasStar(items) == \E k \in DOMAIN items : IsStar(items[k])

\* The list of a SELECT, when it is known where it ends.
LEMMA ExtractSelectIs ==
    ASSUME NEW text, NEW words, NEW sel, sel = FirstWord(text, words, {"select"}), sel # 0,
           NEW end, end = FirstWord(text, Without(words, 1 .. sel), ListEnd),
           NEW list,
           list = Trim(SubSeq(text, sel + 1, IF end = 0 THEN Len(text) ELSE end - 1))
    PROVE  LET r == ExtractSelect(text, words)
           IN  /\ r.kind = "select"
               /\ r.columns = ColumnsOf(Items(list))
               /\ r.star = HasStar(Items(list))
               /\ r.table = (WordAfter(text, words, "from") # <<>>)
               /\ r.catalog = IsSystemCatalog(RawAfter(text, words, "from"))
               /\ r.where = (FirstWord(text, words, {"where"}) # 0)
               /\ r.limit = LimitOf(text, words)
<1> DEFINE columns == ColumnsOf(Items(list))
           star == HasStar(Items(list))
           table == WordAfter(text, words, "from") # <<>>
           catalog == IsSystemCatalog(RawAfter(text, words, "from"))
           where == FirstWord(text, words, {"where"}) # 0
           limit == LimitOf(text, words)
<1>1. ExtractSelect(text, words) =
          [Result("select", columns)
              EXCEPT !.table = table, !.catalog = catalog, !.star = star, !.where = where,
                     !.limit = limit]
    BY DEF ExtractSelect, ColumnsOf, HasStar
<1> HIDE DEF columns, star, table, catalog, where, limit
<1>2. LET r == ExtractSelect(text, words)
      IN  /\ r.kind = "select" /\ r.columns = columns /\ r.star = star
          /\ r.table = table /\ r.catalog = catalog /\ r.where = where /\ r.limit = limit
    BY <1>1 DEF Result
<1> QED
    BY <1>2 DEF columns, star, table, catalog, where, limit

\* A SELECT is read from its parts: what it returns from the list, whether it
\* reads a table from the FROM, whether it restrains itself from the others.
LEMMA SelectIsRead ==
    ASSUME NEW h, NEW l, NEW f, NEW c, NEW b, Parts(h, l, f, c, b),
           NEW text, Ended(text, Body(h, l, f, c, b))
    PROVE  LET r == Extract(text)
               items == Items(Trim(SubSeq(h \o l, Found(h, {"select"}) + 1, Len(h \o l))))
           IN  /\ r.kind = "select" /\ r.columns = ColumnsOf(items) /\ r.star = HasStar(items)
               /\ r.table = (WordAfter(f, ScanWords(f), "from") # <<>>)
               /\ r.catalog = IsSystemCatalog(RawAfter(f, ScanWords(f), "from"))
               /\ r.where = (c # <<>>) /\ r.limit = LimitOf(b, ScanWords(b))
<1> DEFINE body == Body(h, l, f, c, b)
           t == Trim(body)
           words == ScanWords(t)
           sel == FirstWord(t, words, {"select"})
           end == FirstWord(t, Without(words, 1 .. sel), ListEnd)
           list == Trim(SubSeq(t, sel + 1, IF end = 0 THEN Len(t) ELSE end - 1))
           item == Items(list)
<1>1. /\ Statement(body) /\ t # <<>> /\ words # <<>> /\ words[1] = 1 /\ t[1] = h[1]
      /\ \A set : FirstWord(t, words, set) = Found(body, set)
      /\ LimitOf(t, words) = LimitOf(body, ScanWords(body))
    BY TrimmedBody
<1>2. t = Trim(Unterminated(Trim(text)))
    <2>1. body \in Seq(Tokens)
        BY <1>1 DEF Statement
    <2> HIDE DEF body
    <2>2. (body \o <<Semicolon>>) \o <<>> = body \o <<Semicolon>>
        BY <2>1, MarksAreTokens
    <2>3. text = body \/ text = body \o <<Semicolon>>
        BY <2>2 DEF Ended, body
    <2> QED
        BY <1>1, <2>3, EndIsCut
<1>3. h[1] \in {"select", "with"}
    BY DEF Parts, Heading
<1>4. Extract(text) = ExtractSelect(t, words)
    <2> HIDE DEF t
    <2> QED
        BY <1>1, <1>2, <1>3, ReadAsSelect
<1>5. /\ sel = Found(h, {"select"}) /\ sel # 0
      /\ list = Trim(SubSeq(h \o l, Found(h, {"select"}) + 1, Len(h \o l)))
    <2>1. /\ sel = Found(h, {"select"}) /\ sel # 0
          /\ list = Trim(SubSeq(h \o l, sel + 1, Len(h \o l)))
        BY ListIsRead
    <2> HIDE DEF list, sel
    <2> QED
        BY <2>1
<1>6. RawAfter(t, words, "from") = RawAfter(f, ScanWords(f), "from")
    BY TableIsRead
<1>7. WordAfter(t, words, "from") = WordAfter(f, ScanWords(f), "from")
    BY <1>6 DEF WordAfter
<1>8. /\ Found(body, {"where"}) # 0 <=> c # <<>>
      /\ LimitOf(body, ScanWords(body)) = LimitOf(b, ScanWords(b))
    BY Keywords DEF Parts, Body
<1>9. LET r == ExtractSelect(t, words)
      IN  /\ r.kind = "select" /\ r.columns = ColumnsOf(item) /\ r.star = HasStar(item)
          /\ r.table = (WordAfter(t, words, "from") # <<>>)
          /\ r.catalog = IsSystemCatalog(RawAfter(t, words, "from"))
          /\ r.where = (FirstWord(t, words, {"where"}) # 0)
          /\ r.limit = LimitOf(t, words)
    <2> HIDE DEF t, words
    <2> QED
        BY <1>5, ExtractSelectIs
<1>10. FirstWord(t, words, {"where"}) # 0 <=> c # <<>>
    BY <1>1, <1>8
<1> HIDE DEF t, words, list, sel
<1> QED
    BY <1>1, <1>4, <1>5, <1>6, <1>7, <1>8, <1>9, <1>10

----------------------------------------------------------------------------
(* The clauses that are written.                                           *)

Dollar == "$"

\* A text without parameters.
Free(text) == \A i \in 1 .. Len(text) : text[i] # Dollar

\* It is what ClausesAssumption says,
LEMMA FreeIs ==
    ASSUME NEW text, ~Contains(text, "$")
    PROVE  Free(text)
BY Zenon DEF Contains, Free, Dollar

\* A word counts in a text when it is hit.
LEMMA TopWordsAre ==
    ASSUME NEW text, NEW set
    PROVE  TopWords(text) \cap set = {} <=> Hits(text, set) = {}
BY DEF TopWords, Hits, TopAt

\* The keywords are words.
LEMMA ListEndWords == \A w \in ListEnd : IsWord(w)
BY Zenon DEF ListEnd, IsWord, Marks, Operators

\* A text that begins with a keyword is a clause.
LEMMA BeginsIsClause ==
    ASSUME NEW text, NEW words, Begins(text, words), words \subseteq ListEnd
    PROVE  Clause(text, words)
<1>1. Len(text) > 1 /\ text[1] = Blank /\ text[2] \in words
    BY Zenon DEF Begins, Blank
<1> QED
    BY <1>1, ListEndWords DEF Clause

\* The heads of ClausesAssumption are the heads of a SELECT,
LEMMA HeadsAre ==
    ASSUME NEW h \in Heads
    PROVE  Heading(h) /\ Free(h)
<1>1. /\ h # <<>> /\ h[1] \in {"select", "with"} /\ "select" \in TopWords(h)
      /\ TopWords(h) \cap ListEnd = {} /\ ~Contains(h, "$")
    BY Zenon, ClausesAssumption
<1>2. TopWords(h) \cap {"select"} # {}
    BY <1>1, Zenon
<1>3. Hits(h, {"select"}) # {} /\ Hits(h, ListEnd) = {}
    BY <1>1, <1>2, TopWordsAre, Zenon
<1>4. Statement(h)
    BY TextsAre
<1>5. Free(h)
    BY <1>1, FreeIs, Zenon
<1>6. h # <<>> /\ h[1] \in {"select", "with"}
    BY <1>1, Zenon
<1> QED
    BY <1>3, <1>4, <1>5, <1>6 DEF Heading

\* its lists are lists,
LEMMA ListsAre ==
    ASSUME NEW l \in Lists
    PROVE  Listing(l.text) /\ Free(l.text)
<1>1. TopWords(l.text) \cap ListEnd = {} /\ ~Contains(l.text, "$")
    BY Zenon, ClausesAssumption
<1>2. Hits(l.text, ListEnd) = {} /\ Free(l.text)
    BY <1>1, TopWordsAre, FreeIs, Zenon
<1>3. Statement(l.text)
    BY TextsAre
<1> QED
    BY <1>2, <1>3 DEF Listing

\* Nothing has no parameters.
LEMMA NothingIsFree == Free(<<>>)
<1>1. Len(<<>>) = 0 /\ 1 .. 0 = {}
    OBVIOUS
<1> QED
    BY <1>1 DEF Free

\* and its FROMs are FROMs.
LEMMA FromsAre ==
    ASSUME NEW f \in Froms
    PROVE  Source(f.text) /\ Free(f.text)
<1>1. Statement(f.text)
    BY TextsAre
<1>2. CASE f.text = <<>>
    BY <1>1, <1>2, NoHits, NothingIsFree DEF Source, Clause
<1>3. CASE f.text # <<>>
    <2> DEFINE text == f.text
    <2>1. f \in {p \in Froms : p.text # <<>>}
        BY <1>3
    <2>2. /\ Begins(text, {"from"}) /\ Len(text) > 2 /\ Last(text) # Blank
          /\ TopWords(text) \cap {"where", "limit"} = {} /\ ~Contains(text, "$")
        BY <2>1, Zenon, ClausesAssumption DEF Blank
    <2>3. TopWords(text) \cap {"where"} = {} /\ TopWords(text) \cap {"limit"} = {}
        BY <2>2, Zenon
    <2>4. Hits(text, {"where"}) = {} /\ Hits(text, {"limit"}) = {} /\ Free(text)
        BY <2>2, <2>3, TopWordsAre, FreeIs, Zenon
    <2>5. {"from"} \subseteq ListEnd
        BY DEF ListEnd
    <2>6. Clause(text, {"from"})
        BY <2>2, <2>5, BeginsIsClause, Zenon
    <2>7. Last(text) = text[Len(text)]
        BY DEF Last
    <2>8. Len(text) > 2 /\ text[Len(text)] # Blank
        BY <2>2, <2>7, Zenon
    <2> QED
        BY <1>1, <2>4, <2>6, <2>8 DEF Source
<1> QED
    BY <1>2, <1>3

\* A WHERE may have parameters, but does not end within one.
LEMMA WheresAre ==
    ASSUME NEW c \in Wheres
    PROVE  Condition(c.text) /\ (c.text # <<>> => c.text[Len(c.text)] # Dollar)
<1>1. Statement(c.text)
    BY TextsAre
<1>2. CASE c.text = <<>>
    BY <1>1, <1>2, NoHits DEF Condition, Clause
<1>3. CASE c.text # <<>>
    <2> DEFINE text == c.text
    <2>1. c \in {p \in Wheres : p.text # <<>>}
        BY <1>3
    <2>2. /\ Begins(text, {"where"}) /\ Last(text) # Dollar
          /\ TopWords(text) \cap {"from", "limit"} = {}
        BY <2>1, Zenon, ClausesAssumption DEF Dollar
    <2>3. TopWords(text) \cap {"from"} = {} /\ TopWords(text) \cap {"limit"} = {}
        BY <2>2, Zenon
    <2>4. Hits(text, {"from"}) = {} /\ Hits(text, {"limit"}) = {}
        BY <2>3, TopWordsAre, Zenon
    <2>5. {"where"} \subseteq ListEnd
        BY DEF ListEnd
    <2>6. Clause(text, {"where"})
        BY <2>2, <2>5, BeginsIsClause, Zenon
    <2>7. Last(text) = text[Len(text)]
        BY DEF Last
    <2>8. text[Len(text)] # Dollar
        BY <2>2, <2>7, Zenon
    <2> QED
        BY <1>1, <2>4, <2>6, <2>8 DEF Condition
<1> QED
    BY <1>2, <1>3

\* What ends a statement is no word of it.
LEMMA EndedSame ==
    ASSUME NEW text, NEW b, Statement(b), Ended(text, b)
    PROVE  /\ text \in Seq(Tokens) /\ Len(b) \in Nat /\ Len(text) \in Nat
           /\ text = b \/ (Len(text) = Len(b) + 1 /\ text[Len(b) + 1] = Semicolon)
           /\ \A i \in 1 .. Len(b) : text[i] = b[i]
           /\ TopAt(text) = TopAt(b)
           /\ \A set : Hits(text, set) = Hits(b, set)
           /\ LimitOf(text, ScanWords(text)) = LimitOf(b, ScanWords(b))
<1>1. b \in Seq(Tokens) /\ Len(b) \in Nat
    BY DEF Statement
<1>2. CASE text = b
    BY <1>1, <1>2
<1>3. CASE text = (b \o <<Semicolon>>) \o <<>>
    <2> DEFINE t == b \o <<Semicolon>>
               words == ScanWords(b)
               D == 1 .. Len(b)
    <2>1. /\ t \in Seq(Tokens) /\ Len(t) = Len(b) + 1 /\ t[Len(b) + 1] = Semicolon
          /\ \A i \in 1 .. Len(b) : t[i] = b[i]
        BY <1>1, MarksAreTokens, OneBehind
    <2> HIDE DEF t
    <2>2. text = t
        BY <1>3, <2>1 DEF t
    <2>3. ~IsWord(Semicolon)
        BY Zenon DEF IsWord, Marks, Semicolon
    <2>4. \A i \in 1 .. Len(t) : Len(b) < i => ~IsWord(t[i])
        BY <1>1, <2>1, <2>3
    <2>5. ScanWords(t) = words /\ TopAt(t) = TopAt(b)
        BY <1>1, <2>1, <2>4, MarksBehind
    <2>6. \A set : Hits(t, set) = Hits(b, set)
        <3>1. \A i \in TopAt(b) : i \in 1 .. Len(b)
            BY <1>1, TopAtInside
        <3> QED
            BY <2>1, <2>5, <3>1 DEF Hits
    <2>7. words \in Seq(D) /\ \A i \in D : t[i] = b[i]
        <3>1. words \in Seq(TopAt(b)) /\ TopAt(b) \subseteq D
            BY <1>1, ScanWordsIs, TopAtInside
        <3> QED
            BY <2>1, <3>1
    <2> HIDE DEF words, D
    <2>8. LimitOf(t, words) = LimitOf(b, words)
        BY <2>7, LimitAgrees
    <2> QED
        BY <1>1, <2>1, <2>2, <2>5, <2>6, <2>8 DEF words
<1> QED
    BY <1>2, <1>3 DEF Ended

\* A tail closes a statement that may have its end.
LEMMA TailsAre ==
    ASSUME NEW t \in Tails
    PROVE  \E b : /\ Ended(t.text, b) /\ Close(b) /\ Free(b)
                  /\ LimitOf(t.text, ScanWords(t.text)) = LimitOf(b, ScanWords(b))
<1> DEFINE text == t.text
           none == <<>>
<1>1. none \in Seq(Tokens) /\ Statement(none) /\ Close(none) /\ Free(none)
    BY BlankIsStatement, NoHits, NothingIsFree DEF Close, Clause
<1>2. CASE text = <<>>
    BY <1>1, <1>2 DEF Ended
<1>3. CASE text = <<Semicolon>>
    <2> DEFINE s == <<Semicolon>>
    <2>1. s \in Seq(Tokens)
        BY MarksAreTokens
    <2> HIDE DEF s
    <2>2. (<<>> \o s) \o <<>> = s
        BY <2>1
    <2>3. Ended(text, none)
        BY <1>3, <2>2 DEF Ended, s
    <2> HIDE DEF none, text
    <2>4. LimitOf(text, ScanWords(text)) = LimitOf(none, ScanWords(none))
        BY <1>1, <2>3, EndedSame
    <2> QED
        BY <1>1, <2>3, <2>4 DEF text
<1>4. CASE text \notin {<<>>, <<Semicolon>>}
    <2>1. /\ Begins(text, ListEnd \ {"from", "where"})
          /\ TopWords(text) \cap {"from", "where"} = {} /\ ~Contains(text, "$")
        <3>1. t \in {p \in Tails : p.text \notin {<<>>, <<";">>}}
            BY <1>4, Zenon DEF Semicolon
        <3> QED
            BY <3>1, Zenon, ClausesAssumption
    <2>2. TopWords(text) \cap {"from"} = {} /\ TopWords(text) \cap {"where"} = {}
        BY <2>1, Zenon
    <2>3. Hits(text, {"from"}) = {} /\ Hits(text, {"where"}) = {} /\ Free(text)
        BY <2>1, <2>2, TopWordsAre, FreeIs, Zenon
    <2>4. /\ Len(text) > 1 /\ text[1] = Blank /\ text[2] \in ListEnd
        BY <2>1, Zenon DEF Begins, Blank
    <2>5. PICK b : Statement(b) /\ Ended(text, b)
        BY TextsAre DEF Finished
    <2> HIDE DEF text
    <2>6. /\ text \in Seq(Tokens) /\ Len(b) \in Nat /\ Len(text) \in Nat
          /\ text = b \/ (Len(text) = Len(b) + 1 /\ text[Len(b) + 1] = Semicolon)
          /\ \A i \in 1 .. Len(b) : text[i] = b[i]
          /\ \A set : Hits(text, set) = Hits(b, set)
          /\ LimitOf(text, ScanWords(text)) = LimitOf(b, ScanWords(b))
        BY <2>5, EndedSame
    <2>7. IsWord(text[2]) /\ ~IsWord(Semicolon)
        <3>1. ~IsWord(Semicolon)
            BY Zenon DEF IsWord, Marks, Semicolon
        <3> QED
            BY <2>4, <3>1, ListEndWords
    <2>8. Len(b) > 1
        <3> SUFFICES ASSUME ~(Len(b) > 1) PROVE FALSE
            OBVIOUS
        <3>1. Len(text) = Len(b) + 1 /\ Len(b) + 1 = 2
            BY <2>4, <2>6
        <3>2. text[2] = Semicolon
            BY <2>4, <2>6, <3>1
        <3> QED
            BY <2>7, <3>2
    <2>9. b[1] = Blank /\ b[2] \in ListEnd /\ IsWord(b[2])
        <3>1. 1 \in 1 .. Len(b) /\ 2 \in 1 .. Len(b)
            BY <2>6, <2>8
        <3> QED
            BY <2>4, <2>6, <2>7, <3>1
    <2>10. Close(b)
        BY <2>3, <2>5, <2>6, <2>8, <2>9 DEF Close, Clause
    <2>11. Free(b)
        <3>1. \A i \in 1 .. Len(b) : i \in 1 .. Len(text)
            BY <2>6
        <3> QED
            BY <2>3, <2>6, <3>1 DEF Free
    <2> QED
        BY <2>5, <2>6, <2>10, <2>11 DEF text
<1> QED
    BY <1>2, <1>3, <1>4

\* A SELECT that is written is one of its parts.
LEMMA TextHasParts ==
    ASSUME NEW h \in Heads, NEW l \in Lists, NEW f \in Froms, NEW c \in Wheres, NEW t \in Tails
    PROVE  \E b : /\ Parts(h, l.text, f.text, c.text, b) /\ Free(b)
                  /\ Ended(Text(Select(h, l, f, c, t)), Body(h, l.text, f.text, c.text, b))
                  /\ LimitOf(t.text, ScanWords(t.text)) = LimitOf(b, ScanWords(b))
<1>1. PICK b : /\ Ended(t.text, b) /\ Close(b) /\ Free(b)
               /\ LimitOf(t.text, ScanWords(t.text)) = LimitOf(b, ScanWords(b))
    BY TailsAre
<1>2. Parts(h, l.text, f.text, c.text, b)
    BY <1>1, HeadsAre, ListsAre, FromsAre, WheresAre DEF Parts
<1> DEFINE a1 == h \o l.text
           a2 == a1 \o f.text
           a3 == a2 \o c.text
<1>3. /\ Statement(h) /\ Statement(l.text) /\ Statement(f.text) /\ Statement(c.text)
      /\ Statement(b)
    BY <1>1, <1>2 DEF Parts, Heading, Listing, Source, Condition, Close
<1>4. Statement(a1)
    BY <1>3, StatementJoin
<1> HIDE DEF a1
<1>5. Statement(a2)
    BY <1>3, <1>4, StatementJoin
<1> HIDE DEF a2
<1>6. Statement(a3)
    BY <1>3, <1>5, StatementJoin
<1> HIDE DEF a3
<1>7. Ended(a3 \o t.text, a3 \o b)
    BY <1>1, <1>3, <1>6, EndedJoin
<1>8. /\ Text(Select(h, l, f, c, t)) = a3 \o t.text
      /\ Body(h, l.text, f.text, c.text, b) = a3 \o b
    BY DEF Text, Select, Body, a1, a2, a3
<1> QED
    BY <1>1, <1>2, <1>7, <1>8

\* What ReadApart says of a SELECT.
LEMMA ReadOfSelect ==
    ASSUME NEW h \in Heads, NEW l \in Lists, NEW f \in Froms, NEW c \in Wheres, NEW t \in Tails,
           ReadApart(Select(h, l, f, c, t))
    PROVE  LET items == Items(Trim(SubSeq(h \o l.text, Found(h, {"select"}) + 1,
                                          Len(h \o l.text))))
           IN  /\ l.columns = ColumnsOf(items) /\ l.star = HasStar(items)
               /\ f.table = (WordAfter(f.text, ScanWords(f.text), "from") # <<>>)
               /\ f.catalog = IsSystemCatalog(RawAfter(f.text, ScanWords(f.text), "from"))
               /\ c.where = (c.text # <<>>) /\ c.params = ParamTypes(c.text)
               /\ t.limit = LimitOf(t.text, ScanWords(t.text))
<1> DEFINE w == Select(h, l, f, c, t)
<1>1. /\ w.head = h /\ w.list = l /\ w.from = f /\ w.where = c /\ w.tail = t
    BY DEF Select
<1>2. ReadApart(w) /\ w.head \in Heads
    BY <1>1
<1> HIDE DEF w
<1> QED
    BY <1>1, <1>2 DEF ReadApart, Found, ColumnsOf, HasStar

\* If each clause is read for itself, the SELECT is read.
LEMMA SelectMeans ==
    ASSUME NEW h \in Heads, NEW l \in Lists, NEW f \in Froms, NEW c \in Wheres, NEW t \in Tails,
           ReadApart(Select(h, l, f, c, t))
    PROVE  LET w == Select(h, l, f, c, t)
           IN  /\ ShapeRead(Extract(Text(w))) = Meant(w)
               /\ Extract(Text(w)).columns = w.list.columns
<1> DEFINE w == Select(h, l, f, c, t)
           r == Extract(Text(w))
           items == Items(Trim(SubSeq(h \o l.text, Found(h, {"select"}) + 1, Len(h \o l.text))))
<1>1. PICK b : /\ Parts(h, l.text, f.text, c.text, b)
               /\ Ended(Text(w), Body(h, l.text, f.text, c.text, b))
               /\ LimitOf(t.text, ScanWords(t.text)) = LimitOf(b, ScanWords(b))
    BY TextHasParts
<1>2. /\ r.kind = "select" /\ r.columns = ColumnsOf(items) /\ r.star = HasStar(items)
      /\ r.table = (WordAfter(f.text, ScanWords(f.text), "from") # <<>>)
      /\ r.catalog = IsSystemCatalog(RawAfter(f.text, ScanWords(f.text), "from"))
      /\ r.where = (c.text # <<>>) /\ r.limit = LimitOf(b, ScanWords(b))
    <2> DEFINE text == Text(w)
    <2>1. Ended(text, Body(h, l.text, f.text, c.text, b))
        BY <1>1
    <2> HIDE DEF text
    <2>2. LET q == Extract(text)
          IN  /\ q.kind = "select" /\ q.columns = ColumnsOf(items) /\ q.star = HasStar(items)
              /\ q.table = (WordAfter(f.text, ScanWords(f.text), "from") # <<>>)
              /\ q.catalog = IsSystemCatalog(RawAfter(f.text, ScanWords(f.text), "from"))
              /\ q.where = (c.text # <<>>) /\ q.limit = LimitOf(b, ScanWords(b))
        BY <1>1, <2>1, SelectIsRead
    <2> QED
        BY <2>2 DEF text
<1>3. l.columns = ColumnsOf(items) /\ l.star = HasStar(items)
    BY ReadOfSelect
<1>4. /\ f.table = (WordAfter(f.text, ScanWords(f.text), "from") # <<>>)
      /\ f.catalog = IsSystemCatalog(RawAfter(f.text, ScanWords(f.text), "from"))
    BY ReadOfSelect
<1>5. c.where = (c.text # <<>>) /\ t.limit = LimitOf(t.text, ScanWords(t.text))
    BY ReadOfSelect
<1>6. /\ w.kind = "select" /\ w.list = l /\ w.from = f /\ w.where = c /\ w.tail = t
    BY DEF Select
<1> HIDE DEF r, w, items
<1>7. /\ r.kind = w.kind /\ r.table = w.from.table /\ r.catalog = w.from.catalog
      /\ r.columns = w.list.columns /\ r.star = w.list.star /\ r.where = w.where.where
      /\ r.limit = w.tail.limit
    BY <1>1, <1>2, <1>3, <1>4, <1>5, <1>6
<1>8. ShapeRead(r) = Meant(w)
    BY <1>7 DEF ShapeRead, Meant
<1> QED
    BY <1>7, <1>8 DEF r, w

\* A query is a SELECT or a statement without clauses, and its shape is what it means.
Made(w) ==
    \/ \E h \in Heads, l \in Lists, f \in Froms, c \in Wheres, t \in Tails :
           w = Select(h, l, f, c, t)
    \/ \E o \in Others : w = Whole(o)

MadeAndMeant == Made(writing) /\ shape = Meant(writing)

\* Only a SELECT has a head that others share.
LEMMA OthersAre ==
    ASSUME NEW o \in Others
    PROVE  Whole(o).head \notin Heads
<1>1. o.text \notin Heads
    BY Zenon, ClausesAssumption
<1> QED
    BY <1>1 DEF Whole

\* A query stays made of the parts there are.
LEMMA MadeInvariant == WriteSpec => []MadeAndMeant
<1>1. WriteInit => MadeAndMeant
    BY DEF WriteInit, MadeAndMeant, Made
<1>2. MadeAndMeant /\ [WriteNext]_<<writing, shape, threshold>> => MadeAndMeant'
    <2> SUFFICES ASSUME MadeAndMeant, [WriteNext]_<<writing, shape, threshold>>
                 PROVE  Made(writing') /\ shape' = Meant(writing')
        BY DEF MadeAndMeant
    <2>1. ASSUME writing.head \in Heads
          PROVE  \E h \in Heads, l \in Lists, f \in Froms, c \in Wheres, t \in Tails :
                     writing = Select(h, l, f, c, t)
        BY <2>1, OthersAre DEF MadeAndMeant, Made
    <2>2. CASE WriteWhere
        <3>1. PICK x \in Wheres : Rewrite([writing EXCEPT !.where = x])
            BY <2>2 DEF WriteWhere
        <3>2. PICK h \in Heads, l \in Lists, f \in Froms, c \in Wheres, t \in Tails :
                       writing = Select(h, l, f, c, t)
            BY <2>1, <2>2 DEF WriteWhere
        <3>3. writing' = Select(h, l, f, x, t)
            BY <3>1, <3>2 DEF Rewrite, Select
        <3> QED
            BY <3>1, <3>3 DEF Rewrite, Made
    <2>3. CASE WriteLimit
        <3>1. PICK x \in Tails : Rewrite([writing EXCEPT !.tail = x])
            BY <2>3 DEF WriteLimit
        <3>2. PICK h \in Heads, l \in Lists, f \in Froms, c \in Wheres, t \in Tails :
                       writing = Select(h, l, f, c, t)
            BY <2>1, <2>3 DEF WriteLimit
        <3>3. writing' = Select(h, l, f, c, x)
            BY <3>1, <3>2 DEF Rewrite, Select
        <3> QED
            BY <3>1, <3>3 DEF Rewrite, Made
    <2>4. CASE WriteColumns
        <3>1. PICK x \in Lists : Rewrite([writing EXCEPT !.list = x])
            BY <2>4 DEF WriteColumns
        <3>2. PICK h \in Heads, l \in Lists, f \in Froms, c \in Wheres, t \in Tails :
                       writing = Select(h, l, f, c, t)
            BY <2>1, <2>4 DEF WriteColumns
        <3>3. writing' = Select(h, x, f, c, t)
            BY <3>1, <3>2 DEF Rewrite, Select
        <3> QED
            BY <3>1, <3>3 DEF Rewrite, Made
    <2>5. CASE UNCHANGED <<writing, shape, threshold>>
        BY <2>5 DEF MadeAndMeant
    <2> QED
        BY <2>2, <2>3, <2>4, <2>5 DEF WriteNext
<1> QED
    BY <1>1, <1>2, PTL DEF WriteSpec

\* A statement without clauses is its text.
LEMMA WholeMeans ==
    ASSUME NEW o \in Others, ReadApart(Whole(o))
    PROVE  LET w == Whole(o)
           IN  /\ Text(w) = o.text
               /\ ShapeRead(Extract(Text(w))) = Meant(w)
               /\ Extract(Text(w)).columns = w.list.columns
               /\ ParamTypes(Text(w)) = w.where.params
<1>1. Text(Whole(o)) = o.text
    <2> DEFINE head == o.text
    <2>1. head \in Seq(Tokens)
        BY TextsAre, EndedIsSplit DEF Finished
    <2> HIDE DEF head
    <2>2. head \o <<>> = head
        BY <2>1
    <2>3. head \o <<>> \o <<>> \o <<>> \o <<>> = head
        BY <2>2
    <2> QED
        BY <2>3 DEF Text, Whole, head
<1>2. /\ Meant(Whole(o)) = ShapeRead(Extract(o.text))
      /\ o.columns = Extract(o.text).columns /\ ParamTypes(o.text) = o.params
    <2>1. Whole(o).head = o.text /\ Whole(o).list.columns = o.columns
          /\ Whole(o).where.params = o.params
        BY DEF Whole
    <2> QED
        BY <2>1, OthersAre DEF ReadApart
<1>3. Whole(o).list.columns = o.columns /\ Whole(o).where.params = o.params
    BY DEF Whole
<1> QED
    BY <1>1, <1>2, <1>3

\* A server that reads each clause for itself reads every query that is put
\* together from them: a keyword, a comma or a semicolon inside parentheses or
\* quotes belongs to its clause, and no clause hides another (RestraintsAreRead).
THEOREM RestraintsRead == WriteSpec => [](ClausesAreRead => RestraintsAreRead)
<1>1. MadeAndMeant => (ClausesAreRead => RestraintsAreRead)
    BY SelectMeans, WholeMeans DEF MadeAndMeant, Made, ClausesAreRead, RestraintsAreRead
<1> QED
    BY <1>1, MadeInvariant, PTL

\* Nor does a clause change the columns of the list (ColumnsAreRead).
THEOREM ColumnsRead == WriteSpec => [](ClausesAreRead => ColumnsAreRead)
<1>1. MadeAndMeant => (ClausesAreRead => ColumnsAreRead)
    BY SelectMeans, WholeMeans DEF MadeAndMeant, Made, ClausesAreRead, ColumnsAreRead
<1> QED
    BY <1>1, MadeInvariant, PTL

----------------------------------------------------------------------------
(* The columns that parameters are compared with.                          *)

\* What is no part of the name of a column.
Breaks(tok) == ~(IsWord(tok) \/ tok = ".")

\* The greatest of a set of positions, 0 if there is none.
LastOf(A) == Max({0} \cup A)

\* The name that a text ends with, before its operator.
NameBefore(left) ==
    LET ops == LastOf({i \in DOMAIN left : left[i] \notin Operators})
        name == Trim(SubSeq(left, 1, ops))
        from == LastOf({i \in DOMAIN name : Breaks(name[i])})
    IN  IF ops = Len(left) THEN <<>> ELSE LastSegment(SubSeq(name, from + 1, Len(name)))

\* It is the column of a parameter.
LEMMA NearbyIs ==
    ASSUME NEW text, NEW dollar
    PROVE  NearbyColumn(text, dollar) = NameBefore(Trim(SubSeq(text, 1, dollar - 1)))
BY Zenon DEF NearbyColumn, NameBefore, Breaks, LastOf

\* A text behind another one.
Joined(p, u, v) ==
    /\ p \in Seq(Tokens) /\ u \in Seq(Tokens) /\ v \in Seq(Tokens)
    /\ Len(v) = Len(p) + Len(u)
    /\ \A i \in 1 .. Len(p) : v[i] = p[i]
    /\ \A i \in 1 .. Len(u) : v[Len(p) + i] = u[i]

\* Its beginnings,
LEMMA JoinedHead ==
    ASSUME NEW p, NEW u, NEW v, Joined(p, u, v), NEW hi \in 0 .. Len(u)
    PROVE  /\ Joined(p, SubSeq(u, 1, hi), SubSeq(v, 1, Len(p) + hi))
           /\ Len(SubSeq(u, 1, hi)) = hi
           /\ \A i \in 1 .. hi : SubSeq(u, 1, hi)[i] = u[i]
<1> DEFINE s == SubSeq(u, 1, hi)
           m == Len(p)
           n == Len(u)
           t == SubSeq(v, 1, m + hi)
<1>1. /\ p \in Seq(Tokens) /\ u \in Seq(Tokens) /\ v \in Seq(Tokens)
      /\ m \in Nat /\ n \in Nat /\ Len(v) = m + n
      /\ \A i \in 1 .. m : v[i] = p[i]
      /\ \A i \in 1 .. n : v[m + i] = u[i]
    BY DEF Joined
<1>2. s \in Seq(Tokens) /\ Len(s) = hi /\ \A i \in 1 .. hi : s[i] = u[i]
    <2>1. 1 \in 1 .. n + 1 /\ hi \in 1 - 1 .. n
        BY <1>1
    <2>2. s \in Seq(Tokens) /\ Len(s) = hi - 1 + 1 /\ \A i \in 1 .. hi - 1 + 1 : s[i] = u[1 + i - 1]
        BY <1>1, <2>1, PieceIs
    <2>3. hi - 1 + 1 = hi /\ \A i \in 1 .. hi : 1 + i - 1 = i
        BY <1>1
    <2> HIDE DEF s, n
    <2> QED
        BY <2>2, <2>3
<1>3. t \in Seq(Tokens) /\ Len(t) = m + hi /\ \A i \in 1 .. m + hi : t[i] = v[i]
    <2>1. 1 \in 1 .. Len(v) + 1 /\ m + hi \in 1 - 1 .. Len(v)
        BY <1>1
    <2> DEFINE k == m + hi
    <2>2. t \in Seq(Tokens) /\ Len(t) = k - 1 + 1 /\ \A i \in 1 .. k - 1 + 1 : t[i] = v[1 + i - 1]
        BY <1>1, <2>1, PieceIs
    <2>3. k - 1 + 1 = k /\ \A i \in 1 .. k : 1 + i - 1 = i
        BY <1>1
    <2> HIDE DEF t, k
    <2>4. t \in Seq(Tokens) /\ Len(t) = k /\ \A i \in 1 .. k : t[i] = v[i]
        BY <2>2, <2>3
    <2> QED
        BY <2>4 DEF k
<1> HIDE DEF s, t, m, n
<1>4. /\ \A i \in 1 .. m : i \in 1 .. m + hi
      /\ \A i \in 1 .. hi : m + i \in 1 .. m + hi /\ i \in 1 .. n
    BY <1>1 DEF n
<1>5. /\ Len(t) = m + Len(s) /\ \A i \in 1 .. m : t[i] = p[i]
      /\ \A i \in 1 .. Len(s) : t[m + i] = s[i]
    BY <1>1, <1>2, <1>3, <1>4
<1>6. Joined(p, s, t)
    BY <1>1, <1>2, <1>3, <1>5 DEF Joined, m
<1> QED
    BY <1>2, <1>6 DEF s, t, m

\* its ends,
LEMMA JoinedTail ==
    ASSUME NEW p, NEW u, NEW v, Joined(p, u, v), NEW lo \in 1 .. Len(u) + 1,
           NEW hi \in lo - 1 .. Len(u)
    PROVE  SubSeq(v, Len(p) + lo, Len(p) + hi) = SubSeq(u, lo, hi)
<1> DEFINE s == SubSeq(u, lo, hi)
           m == Len(p)
           n == Len(u)
           t == SubSeq(v, m + lo, m + hi)
<1>1. /\ p \in Seq(Tokens) /\ u \in Seq(Tokens) /\ v \in Seq(Tokens)
      /\ m \in Nat /\ n \in Nat /\ Len(v) = m + n
      /\ \A i \in 1 .. n : v[m + i] = u[i]
    BY DEF Joined
<1>2. s \in Seq(Tokens) /\ Len(s) = hi - lo + 1 /\ \A i \in 1 .. hi - lo + 1 : s[i] = u[lo + i - 1]
    BY <1>1, PieceIs
<1>3. /\ t \in Seq(Tokens) /\ Len(t) = (m + hi) - (m + lo) + 1
      /\ \A i \in 1 .. (m + hi) - (m + lo) + 1 : t[i] = v[(m + lo) + i - 1]
    <2>1. m + lo \in 1 .. Len(v) + 1 /\ m + hi \in (m + lo) - 1 .. Len(v)
        BY <1>1
    <2> QED
        BY <1>1, <2>1, PieceIs
<1> DEFINE k == hi - lo + 1
<1>4. /\ (m + hi) - (m + lo) + 1 = k
      /\ \A i \in 1 .. k : (m + lo) + i - 1 = m + (lo + i - 1) /\ lo + i - 1 \in 1 .. n
    BY <1>1
<1> HIDE DEF s, t, m, n
<1>5. Len(s) = k /\ Len(t) = k
    BY <1>2, <1>3, <1>4
<1>6. ASSUME NEW i \in 1 .. Len(s)
      PROVE  s[i] = t[i]
    <2>1. i \in 1 .. k
        BY <1>5
    <2> HIDE DEF k
    <2>2. t[i] = v[(m + lo) + i - 1]
        BY <1>3, <1>4, <2>1
    <2>3. s[i] = u[lo + i - 1]
        BY <1>2, <2>1 DEF k
    <2> QED
        BY <1>1, <1>4, <2>1, <2>2, <2>3
<1> HIDE DEF k, Tokens
<1>7. s = t
    BY <1>2, <1>3, <1>5, <1>6, SeqEqual
<1> QED
    BY <1>7 DEF s, t, m

\* and what is left of it when it is trimmed.
LEMMA JoinedTrim ==
    ASSUME NEW p, NEW u, NEW v, Joined(p, u, v), p # <<>>, p[1] # Blank, u # <<>>, u[1] # Blank
    PROVE  Joined(p, Trim(u), Trim(v)) /\ Trim(u) # <<>> /\ Trim(u)[1] = u[1]
<1> DEFINE w == Trim(u)
           m == Len(p)
           k == Len(w)
           marks == {Blank}
<1>1. /\ p \in Seq(Tokens) /\ u \in Seq(Tokens) /\ v \in Seq(Tokens)
      /\ m \in Nat /\ m >= 1 /\ Len(u) \in Nat /\ Len(v) = m + Len(u)
      /\ \A i \in 1 .. m : v[i] = p[i]
      /\ \A i \in 1 .. Len(u) : v[m + i] = u[i]
    BY DEF Joined
<1>2. /\ w \in Seq(Tokens) /\ k \in 1 .. Len(u) /\ w = SubSeq(u, 1, k)
      /\ \A i \in 1 .. k : w[i] = u[i]
      /\ u[k] # Blank /\ \A i \in 1 .. Len(u) : k < i => u[i] = Blank
    BY <1>1, TrimmedEnd
<1> HIDE DEF w, m
<1>3. Core(v, marks, 1, m + k)
    <2> HIDE DEF k
    <2>1. 1 \in 1 .. Len(v) /\ m + k \in 1 .. Len(v) /\ 1 \in 1 .. m
        BY <1>1, <1>2
    <2>2. v[1] \notin marks /\ v[m + k] \notin marks
        BY <1>1, <1>2, <2>1
    <2>3. ASSUME NEW i \in 1 .. Len(v), i < 1 \/ m + k < i
          PROVE  v[i] \in marks
        <3> DEFINE j == i - m
        <3>1. j \in 1 .. Len(u) /\ k < j /\ m + j = i
            BY <1>1, <1>2, <2>3
        <3> HIDE DEF j
        <3>2. v[m + j] = Blank
            BY <1>1, <1>2, <3>1
        <3> QED
            BY <3>1, <3>2
    <2> QED
        BY <2>1, <2>2, <2>3 DEF Core
<1>4. Trim(v) = SubSeq(v, 1, m + k)
    <2> DEFINE e == m + k
               one == 1
    <2>1. Core(v, marks, one, e)
        BY <1>3
    <2> HIDE DEF marks, e, one
    <2>2. Trimmed(v, marks) = SubSeq(v, one, e)
        BY <1>1, <2>1, TrimToCore
    <2> QED
        BY <2>2, TrimMeans DEF marks, e, one
<1>5. Joined(p, SubSeq(u, 1, k), SubSeq(v, 1, m + k))
    <2>1. k \in 0 .. Len(u)
        BY <1>2
    <2> HIDE DEF k
    <2> QED
        BY <2>1, JoinedHead DEF m
<1>6. w # <<>> /\ w[1] = u[1]
    <2>1. 1 \in 1 .. k
        BY <1>1, <1>2
    <2> QED
        BY <1>2, <2>1
<1> QED
    BY <1>2, <1>4, <1>5, <1>6 DEF w

\* Positions in a text and in the same text behind another one.
Shifted(m, n, A, B) ==
    /\ m \in Nat /\ n \in Nat /\ A \subseteq 1 .. n /\ B \subseteq 1 .. m + n
    /\ \A i \in 1 .. n : m + i \in B <=> i \in A
    /\ A # {} \/ m \in B

\* The last of them is the same.
LEMMA LastShifted ==
    ASSUME NEW m, NEW n, NEW A, NEW B, Shifted(m, n, A, B)
    PROVE  /\ LastOf(A) \in 0 .. n /\ LastOf(B) = m + LastOf(A)
           /\ \A i \in A : i <= LastOf(A)
<1> DEFINE AA == {0} \cup A
           BB == {0} \cup B
<1>0. /\ m \in Nat /\ n \in Nat /\ A \subseteq 1 .. n /\ B \subseteq 1 .. m + n
      /\ \A i \in 1 .. n : m + i \in B <=> i \in A
      /\ A # {} \/ m \in B
    BY DEF Shifted
<1>1. AA \in SUBSET Nat /\ AA \in SUBSET (0 .. n) /\ AA # {} /\ BB \subseteq Nat
    BY <1>0
<1>2. PICK r \in AA : \A y \in AA : y <= r
    <2> HIDE DEF AA
    <2> QED
        BY <1>0, <1>1, HasGreatest
<1>3. Max(AA) = r
    BY <1>1, <1>2, GreatestIs
<1>4. m + r \in BB
    <2>1. CASE r = 0
        <3>1. A = {}
            BY <1>0, <1>2, <2>1
        <3> QED
            BY <1>0, <2>1, <3>1
    <2>2. CASE r # 0
        BY <1>0, <1>2, <2>2
    <2> QED
        BY <2>1, <2>2
<1>5. ASSUME NEW y \in BB
      PROVE  y <= m + r
    <2>1. r \in Nat
        BY <1>1, <1>2
    <2>2. CASE y <= m
        BY <1>0, <1>1, <2>1, <2>2
    <2>3. CASE ~(y <= m)
        <3>1. y - m \in 1 .. n /\ m + (y - m) = y /\ y \in B
            BY <1>0, <2>3
        <3>2. y - m \in AA
            BY <1>0, <3>1
        <3>3. y - m <= r
            BY <1>2, <3>2
        <3> QED
            BY <1>0, <2>1, <3>1, <3>3
    <2> QED
        BY <2>2, <2>3
<1>6. Max(BB) = m + r
    BY <1>1, <1>4, <1>5, GreatestIs
<1> QED
    BY <1>0, <1>1, <1>2, <1>3, <1>6 DEF LastOf

\* What the marks of a name are.
LEMMA MarksOfNames ==
    /\ Breaks(Blank) /\ Blank \notin Operators
    /\ \A tok : IsWord(tok) => tok \notin Operators /\ tok # Blank
<1>1. Breaks(Blank)
    BY Zenon DEF Breaks, IsWord, Marks, Operators, Blank
<1>2. Blank \notin Operators
    BY Zenon DEF Operators, Blank
<1>3. \A tok : IsWord(tok) => tok \notin Operators /\ tok # Blank
    BY Zenon DEF IsWord, Marks, Blank
<1> QED
    BY <1>1, <1>2, <1>3

\* What stands before a blank is no part of the name.
LEMMA NameJoined ==
    ASSUME NEW p, NEW u, NEW v, Joined(p, u, v), p # <<>>, p[1] # Blank, p[Len(p)] = Blank,
           u # <<>>, IsWord(u[1])
    PROVE  NameBefore(v) = NameBefore(u)
<1> DEFINE m == Len(p)
           n == Len(u)
           A == {i \in DOMAIN u : u[i] \notin Operators}
           B == {i \in DOMAIN v : v[i] \notin Operators}
           o == LastOf(A)
           x == Trim(SubSeq(u, 1, o))
           y == Trim(SubSeq(v, 1, m + o))
           C == {i \in DOMAIN x : Breaks(x[i])}
           D == {i \in DOMAIN y : Breaks(y[i])}
           q == LastOf(C)
<1>1. /\ p \in Seq(Tokens) /\ u \in Seq(Tokens) /\ v \in Seq(Tokens)
      /\ m \in Nat /\ n \in Nat /\ Len(v) = m + n
      /\ DOMAIN u = 1 .. n /\ DOMAIN v = 1 .. m + n
      /\ \A i \in 1 .. n : v[m + i] = u[i]
      /\ m >= 1 /\ n >= 1
    BY DEF Joined
<1>2. 1 \in A
    BY <1>1, MarksOfNames
<1>3. /\ A \subseteq 1 .. n /\ B \subseteq 1 .. m + n
      /\ \A i \in 1 .. n : m + i \in B <=> i \in A
    <2>1. \A i \in 1 .. n : m + i \in 1 .. m + n
        BY <1>1
    <2> HIDE DEF m, n
    <2> QED
        BY <1>1, <2>1
<1> HIDE DEF A, B
<1>4. /\ o \in 0 .. n /\ LastOf(B) = m + o /\ \A i \in A : i <= o
    <2>1. Shifted(m, n, A, B)
        BY <1>1, <1>2, <1>3 DEF Shifted
    <2> HIDE DEF m, n
    <2> QED
        BY <2>1, LastShifted
<1> HIDE DEF o
<1>5. o \in 1 .. n
    <2> HIDE DEF n
    <2> QED
        BY <1>1, <1>2, <1>4
<1>6. Joined(p, x, y) /\ x # <<>>
    <2> DEFINE s == SubSeq(u, 1, o)
               t == SubSeq(v, 1, m + o)
    <2>1. /\ Joined(p, s, t) /\ Len(s) = o
          /\ \A i \in 1 .. o : s[i] = u[i]
        <3>1. o \in 0 .. Len(u)
            BY <1>5
        <3> QED
            BY <3>1, JoinedHead
    <2> HIDE DEF s, t
    <2>2. s # <<>> /\ s[1] = u[1]
        <3>1. 1 \in 1 .. o
            BY <1>5
        <3>2. Len(<<>>) = 0
            OBVIOUS
        <3> QED
            BY <1>5, <2>1, <3>1, <3>2
    <2>3. s[1] # Blank
        BY <2>2, MarksOfNames
    <2>4. Joined(p, Trim(s), Trim(t)) /\ Trim(s) # <<>>
        BY <2>1, <2>2, <2>3, JoinedTrim
    <2> QED
        BY <2>4 DEF s, t
<1> HIDE DEF x, y
<1> DEFINE k == Len(x)
<1>7. /\ x \in Seq(Tokens) /\ y \in Seq(Tokens) /\ k \in Nat /\ Len(y) = m + k
      /\ DOMAIN x = 1 .. k /\ DOMAIN y = 1 .. m + k
      /\ \A i \in 1 .. k : y[m + i] = x[i]
      /\ y[m] = Blank
    <2>1. /\ x \in Seq(Tokens) /\ y \in Seq(Tokens) /\ Len(y) = m + k
          /\ \A i \in 1 .. m : y[i] = p[i]
          /\ \A i \in 1 .. k : y[m + i] = x[i]
        BY <1>6 DEF Joined
    <2>2. m \in 1 .. m
        BY <1>1
    <2> QED
        BY <2>1, <2>2
<1>8. /\ C \subseteq 1 .. k /\ D \subseteq 1 .. m + k /\ m \in D
      /\ \A i \in 1 .. k : m + i \in D <=> i \in C
    <2>1. m \in 1 .. m + k /\ \A i \in 1 .. k : m + i \in 1 .. m + k
        BY <1>1, <1>7
    <2> HIDE DEF m, k
    <2> QED
        BY <1>7, <2>1, MarksOfNames
<1> HIDE DEF C, D
<1>9. q \in 0 .. k /\ LastOf(D) = m + q
    <2>1. Shifted(m, k, C, D)
        BY <1>1, <1>7, <1>8 DEF Shifted
    <2> HIDE DEF m, k
    <2> QED
        BY <2>1, LastShifted
<1> HIDE DEF q
<1>10. SubSeq(y, m + (q + 1), m + k) = SubSeq(x, q + 1, k)
    <2> DEFINE lo == q + 1
    <2>1. lo \in 1 .. Len(x) + 1 /\ k \in lo - 1 .. Len(x)
        BY <1>7, <1>9
    <2> HIDE DEF lo
    <2>2. SubSeq(y, m + lo, m + k) = SubSeq(x, lo, k)
        BY <1>6, <2>1, JoinedTail
    <2> QED
        BY <2>2 DEF lo
<1>11. m + (q + 1) = (m + q) + 1 /\ (m + o = m + n <=> o = n)
    <2>1. m \in Nat /\ n \in Nat /\ k \in Nat
        BY <1>1, <1>7
    <2> HIDE DEF m, n, k
    <2>2. q \in Nat /\ o \in Nat
        BY <1>5, <1>9, <2>1
    <2> QED
        BY <2>1, <2>2
<1>12. NameBefore(u) = IF o = n THEN <<>> ELSE LastSegment(SubSeq(x, q + 1, k))
    BY DEF NameBefore, o, x, q, A, C
<1>13. NameBefore(v) = IF m + o = m + n THEN <<>>
                       ELSE LastSegment(SubSeq(y, (m + q) + 1, m + k))
    <2> DEFINE ops == LastOf(B)
               name == Trim(SubSeq(v, 1, ops))
               E == {i \in DOMAIN name : Breaks(name[i])}
               from == LastOf(E)
    <2>1. NameBefore(v) = IF ops = Len(v) THEN <<>>
                          ELSE LastSegment(SubSeq(name, from + 1, Len(name)))
        BY DEF NameBefore, B
    <2>2. ops = m + o
        BY <1>4
    <2>3. name = y
        BY <2>2 DEF y
    <2>4. E = D
        BY <2>3 DEF D
    <2>5. from = m + q
        BY <1>9, <2>4
    <2> HIDE DEF ops, name, from
    <2> QED
        BY <1>1, <1>7, <2>1, <2>2, <2>3, <2>5
<1>14. SubSeq(y, (m + q) + 1, m + k) = SubSeq(x, q + 1, k)
    BY <1>10, <1>11
<1> DEFINE same == SubSeq(x, q + 1, k)
<1> HIDE DEF same
<1>15. CASE o = n
    BY <1>11, <1>12, <1>13, <1>15
<1>16. CASE o # n
    BY <1>11, <1>12, <1>13, <1>14, <1>16
<1> QED
    BY <1>15, <1>16

\* The column that a parameter of a WHERE is compared with stands in the WHERE.
LEMMA NearbySame ==
    ASSUME NEW a \in Seq(Tokens), a # <<>>, a[1] # Blank,
           NEW c \in Seq(Tokens), Len(c) > 1, c[1] = Blank, IsWord(c[2]),
           NEW text \in Seq(Tokens), Len(text) >= Len(a) + Len(c),
           \A i \in 1 .. Len(a) : text[i] = a[i],
           \A i \in 1 .. Len(c) : text[Len(a) + i] = c[i],
           NEW j \in 3 .. Len(c)
    PROVE  NearbyColumn(text, Len(a) + j) = NearbyColumn(c, j)
<1> DEFINE m == Len(a)
           p == a \o <<Blank>>
           u == SubSeq(c, 2, j - 1)
           v == SubSeq(text, 1, (m + j) - 1)
           d == SubSeq(c, 1, j - 1)
<1>1. m \in Nat /\ m >= 1 /\ Len(c) \in Nat /\ Len(text) \in Nat /\ Blank \in Tokens
    BY MarksAreTokens
<1>2. /\ p \in Seq(Tokens) /\ Len(p) = m + 1 /\ p[m + 1] = Blank
      /\ \A i \in 1 .. m : p[i] = a[i]
    BY <1>1, OneBehind
<1>3. u \in Seq(Tokens) /\ Len(u) = j - 2 /\ \A i \in 1 .. j - 2 : u[i] = c[i + 1]
    <2>1. 2 \in 1 .. Len(c) + 1 /\ j - 1 \in 2 - 1 .. Len(c)
        BY <1>1
    <2>2. /\ u \in Seq(Tokens) /\ Len(u) = (j - 1) - 2 + 1
          /\ \A i \in 1 .. (j - 1) - 2 + 1 : u[i] = c[2 + i - 1]
        BY <2>1, PieceIs
    <2>3. (j - 1) - 2 + 1 = j - 2 /\ \A i \in 1 .. j - 2 : 2 + i - 1 = i + 1
        BY <1>1
    <2> HIDE DEF u
    <2> QED
        BY <2>2, <2>3
<1>4. /\ v \in Seq(Tokens) /\ Len(v) = (m + j) - 1
      /\ \A i \in 1 .. (m + j) - 1 : v[i] = text[i]
    <2> DEFINE k == (m + j) - 1
    <2>1. 1 \in 1 .. Len(text) + 1 /\ k \in 1 - 1 .. Len(text)
        BY <1>1
    <2>2. /\ v \in Seq(Tokens) /\ Len(v) = k - 1 + 1
          /\ \A i \in 1 .. k - 1 + 1 : v[i] = text[1 + i - 1]
        BY <2>1, PieceIs
    <2>3. k - 1 + 1 = k /\ \A i \in 1 .. k : 1 + i - 1 = i
        BY <1>1
    <2> HIDE DEF v, k
    <2>4. v \in Seq(Tokens) /\ Len(v) = k /\ \A i \in 1 .. k : v[i] = text[i]
        BY <2>2, <2>3
    <2> QED
        BY <2>4 DEF k
<1>5. d = <<Blank>> \o u
    <2> DEFINE s == <<Blank>>
               e == s \o u
    <2>1. d \in Seq(Tokens) /\ Len(d) = j - 1 /\ \A i \in 1 .. j - 1 : d[i] = c[i]
        <3> DEFINE k == j - 1
        <3>1. 1 \in 1 .. Len(c) + 1 /\ k \in 1 - 1 .. Len(c)
            BY <1>1
        <3>2. /\ d \in Seq(Tokens) /\ Len(d) = k - 1 + 1
              /\ \A i \in 1 .. k - 1 + 1 : d[i] = c[1 + i - 1]
            BY <3>1, PieceIs
        <3>3. k - 1 + 1 = k /\ \A i \in 1 .. k : 1 + i - 1 = i
            BY <1>1
        <3> HIDE DEF d, k
        <3>4. d \in Seq(Tokens) /\ Len(d) = k /\ \A i \in 1 .. k : d[i] = c[i]
            BY <3>2, <3>3
        <3> QED
            BY <3>4 DEF k
    <2> HIDE DEF d, u, Tokens
    <2>2. /\ e \in Seq(Tokens) /\ Len(e) = Len(u) + 1 /\ e[1] = Blank
          /\ \A i \in 1 .. Len(u) : e[i + 1] = u[i]
        BY <1>1, <1>3, OneBefore
    <2> HIDE DEF e
    <2>3. ASSUME NEW i \in 1 .. Len(d)
          PROVE  d[i] = e[i]
        <3>1. i \in 1 .. j - 1
            BY <1>1, <2>1
        <3>2. CASE i = 1
            BY <2>1, <2>2, <3>1, <3>2
        <3>3. CASE i # 1
            <4> DEFINE k == i - 1
            <4>1. k \in 1 .. j - 2 /\ k + 1 = i
                BY <3>1, <3>3
            <4> HIDE DEF k
            <4>2. e[k + 1] = u[k] /\ u[k] = c[k + 1]
                BY <1>3, <2>2, <4>1
            <4> QED
                BY <2>1, <3>1, <4>1, <4>2
        <3> QED
            BY <3>2, <3>3
    <2>4. Len(d) = Len(e)
        BY <1>1, <1>3, <2>1, <2>2
    <2>5. d = e
        BY <2>1, <2>2, <2>3, <2>4, SeqEqual
    <2> QED
        BY <2>5 DEF e, s
<1> HIDE DEF p, u, v, d, m
<1>6. Joined(p, u, v)
    <2>1. Len(v) = Len(p) + Len(u)
        BY <1>1, <1>2, <1>3, <1>4
    <2>2. ASSUME NEW i \in 1 .. Len(p)
          PROVE  v[i] = p[i]
        <3>1. i \in 1 .. (m + j) - 1 /\ (i \in 1 .. m \/ i = m + 1)
            BY <1>1, <1>2
        <3>2. CASE i \in 1 .. m
            BY <1>2, <1>4, <3>1, <3>2 DEF m
        <3>3. CASE i = m + 1
            <4>1. 1 \in 1 .. Len(c)
                BY <1>1
            <4> QED
                BY <1>2, <1>4, <3>1, <3>3, <4>1 DEF m
        <3> QED
            BY <3>1, <3>2, <3>3
    <2>3. ASSUME NEW i \in 1 .. Len(u)
          PROVE  v[Len(p) + i] = u[i]
        <3>1. /\ Len(p) + i \in 1 .. (m + j) - 1 /\ Len(p) + i = m + (i + 1)
              /\ i + 1 \in 1 .. Len(c) /\ i \in 1 .. j - 2
            BY <1>1, <1>2, <1>3
        <3>2. v[Len(p) + i] = text[m + (i + 1)]
            BY <1>4, <3>1
        <3>3. text[m + (i + 1)] = c[i + 1]
            BY <3>1 DEF m
        <3> QED
            BY <1>3, <3>1, <3>2, <3>3
    <2> QED
        BY <1>2, <1>3, <1>4, <2>1, <2>2, <2>3 DEF Joined
<1>7. p # <<>> /\ p[1] # Blank /\ p[Len(p)] = Blank
    <2>1. 1 \in 1 .. m /\ Len(<<>>) = 0
        BY <1>1
    <2> QED
        BY <1>1, <1>2, <2>1
<1>8. u # <<>> /\ u[1] = c[2] /\ u[1] # Blank
    <2>1. 1 \in 1 .. j - 2 /\ Len(u) # 0 /\ Len(<<>>) = 0 /\ 1 + 1 = 2
        BY <1>3
    <2>2. u[1] = c[2]
        BY <1>3, <2>1
    <2> QED
        BY <2>1, <2>2, MarksOfNames
<1>9. Joined(p, Trim(u), Trim(v)) /\ Trim(u) # <<>> /\ Trim(u)[1] = u[1]
    BY <1>6, <1>7, <1>8, JoinedTrim
<1>10. NameBefore(Trim(v)) = NameBefore(Trim(u))
    BY <1>7, <1>8, <1>9, NameJoined
<1>11. Trim(d) = Trim(u)
    <2> DEFINE marks == {Blank}
    <2>1. Blank \in marks
        OBVIOUS
    <2> HIDE DEF marks
    <2>2. Trimmed(<<Blank>> \o u, marks) = Trimmed(u, marks)
        BY <1>1, <1>3, <2>1, TrimFront
    <2> QED
        BY <1>5, <2>2, TrimMeans DEF marks
<1> QED
    BY <1>10, <1>11, NearbyIs DEF v, d, m

\* Where the parameters of a text stand, those with the number n, and their numbers.
NumberedAt(text) ==
    {i \in 1 .. Len(text) - 1 : text[i] = Dollar /\ text[i + 1] \in Numerals \ {"0"}}
NumberAt(text, i) == ParsedNumber(text[i + 1])
OfNumber(text, n) == {i \in NumberedAt(text) : NumberAt(text, i) = n}
NumbersOf(text) == {NumberAt(text, i) : i \in NumberedAt(text)}
TypeOf(text, n) ==
    IF OfNumber(text, n) = {} THEN "text"
    ELSE TypeOfName(NearbyColumn(text, Max(OfNumber(text, n))))

\* ParamTypes, with its parts named.
LEMMA ParamTypesIs ==
    ASSUME NEW text
    PROVE  ParamTypes(text) = [n \in 1 .. LastOf(NumbersOf(text)) |-> TypeOf(text, n)]
BY Zenon DEF ParamTypes, NumberedAt, NumberAt, OfNumber, NumbersOf, TypeOf, LastOf, Dollar

\* Parameters that stand in two texts, with the same columns before them, have
\* the same types.
LEMMA ParamsSame ==
    ASSUME NEW text, NEW c, NEW m \in Nat, NEW k \in Nat, NumberedAt(c) \subseteq 0 .. k,
           \A j \in NumberedAt(c) :
              /\ m + j \in NumberedAt(text) /\ text[(m + j) + 1] = c[j + 1]
              /\ NearbyColumn(text, m + j) = NearbyColumn(c, j),
           \A i \in NumberedAt(text) : \E j \in NumberedAt(c) : i = m + j
    PROVE  ParamTypes(text) = ParamTypes(c)
<1> DEFINE F == NumberedAt(text)
           G == NumberedAt(c)
<1>1. \A j \in G : /\ j \in Nat /\ m + j \in F /\ m + j \in Nat
                   /\ NumberAt(text, m + j) = NumberAt(c, j)
                   /\ NearbyColumn(text, m + j) = NearbyColumn(c, j)
    BY DEF NumberAt
<1>2. \A i \in F : \E j \in G : i = m + j
    OBVIOUS
<1>3. G \subseteq 0 .. k
    OBVIOUS
<1>4. NumbersOf(text) = NumbersOf(c)
    <2> HIDE DEF F, G
    <2>1. ASSUME NEW x
          PROVE  (\E i \in F : x = NumberAt(text, i)) <=> \E j \in G : x = NumberAt(c, j)
        BY <1>1, <1>2
    <2>2. {NumberAt(text, i) : i \in F} = {NumberAt(c, j) : j \in G}
        BY <2>1
    <2> QED
        BY <2>2 DEF NumbersOf, F, G
<1>5. ASSUME NEW n
      PROVE  TypeOf(text, n) = TypeOf(c, n)
    <2> DEFINE A == OfNumber(text, n)
               B == OfNumber(c, n)
    <2>1. \A j \in G : m + j \in A <=> j \in B
        BY <1>1 DEF OfNumber
    <2>2. A \subseteq F /\ B \subseteq G
        BY DEF OfNumber
    <2> HIDE DEF A, B, F, G
    <2>3. CASE B = {}
        <3>1. A = {}
            BY <1>2, <2>1, <2>2, <2>3
        <3> QED
            BY <2>3, <3>1 DEF TypeOf, A, B
    <2>4. CASE B # {}
        <3>1. B \in SUBSET (0 .. k)
            BY <1>3, <2>2
        <3>2. PICK x \in B : \A y \in B : y <= x
            BY <2>4, <3>1, HasGreatest
        <3>3. Max(B) = x
            <4>1. B \subseteq Nat
                BY <3>1
            <4> QED
                BY <3>2, <4>1, GreatestIs
        <3>4. x \in G /\ x \in Nat /\ m + x \in A
            BY <1>1, <2>1, <2>2, <3>2
        <3>5. A \subseteq Nat
            BY <1>1, <1>2, <2>2
        <3>6. \A y \in A : y <= m + x
            <4> TAKE y \in A
            <4>1. PICK j \in G : y = m + j
                BY <1>2, <2>2
            <4>2. j \in B /\ j \in Nat
                BY <1>1, <2>1, <4>1
            <4>3. j <= x
                BY <3>2, <4>2
            <4> QED
                BY <3>4, <4>1, <4>2, <4>3
        <3>7. Max(A) = m + x
            BY <3>4, <3>5, <3>6, GreatestIs
        <3>8. NearbyColumn(text, m + x) = NearbyColumn(c, x)
            BY <1>1, <3>4
        <3>9. A # {}
            BY <3>4
        <3> QED
            BY <2>4, <3>3, <3>7, <3>8, <3>9 DEF TypeOf, A, B
    <2> QED
        BY <2>3, <2>4
<1> DEFINE N == 1 .. LastOf(NumbersOf(c))
<1>6. ParamTypes(text) = [n \in N |-> TypeOf(text, n)]
    BY <1>4, ParamTypesIs
<1>7. ParamTypes(c) = [n \in N |-> TypeOf(c, n)]
    BY ParamTypesIs
<1> HIDE DEF N
<1> QED
    BY <1>5, <1>6, <1>7

\* A parameter begins with neither a word nor a blank.
LEMMA DollarIsMark == ~IsWord(Dollar) /\ Dollar # Blank
<1>1. ~IsWord(Dollar)
    BY Zenon DEF IsWord, Marks, Dollar
<1>2. Dollar # Blank
    BY Zenon DEF Dollar, Blank
<1> QED
    BY <1>1, <1>2

\* Before and behind a WHERE without parameters, what counts is the WHERE.
LEMMA ParamsOfWhere ==
    ASSUME NEW a \in Seq(Tokens), a # <<>>, a[1] # Blank, Free(a),
           NEW c, Condition(c), c # <<>> => c[Len(c)] # Dollar,
           NEW b \in Seq(Tokens), Free(b)
    PROVE  ParamTypes((a \o c) \o b) = ParamTypes(c)
<1> DEFINE m == Len(a)
           n == Len(c)
           o == Len(b)
           ac == a \o c
           text == ac \o b
           F == NumberedAt(text)
           G == NumberedAt(c)
<1>1. m \in Nat /\ n \in Nat /\ o \in Nat /\ c \in Seq(Tokens)
    BY DEF Condition, Statement
<1>2. /\ ac \in Seq(Tokens) /\ Len(ac) = m + n
      /\ \A i \in 1 .. m : ac[i] = a[i]
      /\ \A i \in 1 .. n : ac[m + i] = c[i]
    BY <1>1
<1> HIDE DEF ac
<1>3. /\ text \in Seq(Tokens) /\ Len(text) = Len(ac) + o
      /\ \A i \in 1 .. Len(ac) : text[i] = ac[i]
      /\ \A i \in 1 .. o : text[Len(ac) + i] = b[i]
    BY <1>2
<1> HIDE DEF text
<1>4. /\ Len(text) = (m + n) + o
      /\ \A i \in 1 .. m : text[i] = a[i]
      /\ \A i \in 1 .. n : text[m + i] = c[i]
      /\ \A i \in 1 .. o : text[(m + n) + i] = b[i]
    <2>1. Len(text) = (m + n) + o /\ \A i \in 1 .. o : text[(m + n) + i] = b[i]
        BY <1>2, <1>3
    <2>2. (\A i \in 1 .. m : i \in 1 .. m + n) /\ \A i \in 1 .. n : m + i \in 1 .. m + n
        BY <1>1
    <2> HIDE DEF m, n
    <2>3. \A i \in 1 .. m : text[i] = a[i]
        BY <1>2, <1>3, <2>2
    <2>4. \A i \in 1 .. n : text[m + i] = c[i]
        BY <1>2, <1>3, <2>2
    <2> QED
        BY <2>1, <2>3, <2>4
<1>5. (\A i \in 1 .. m : a[i] # Dollar) /\ \A i \in 1 .. o : b[i] # Dollar
    BY DEF Free
<1>6. \A j \in G : /\ j \in 1 .. n - 1 /\ c[j] = Dollar /\ c[j + 1] \in Numerals \ {"0"}
    BY DEF NumberedAt
<1>7. \A i \in F : /\ i \in 1 .. Len(text) - 1 /\ text[i] = Dollar
                   /\ text[i + 1] \in Numerals \ {"0"}
    BY DEF NumberedAt
<1>8. \A j \in 1 .. n - 1 : c[j] = Dollar /\ c[j + 1] \in Numerals \ {"0"} => j \in G
    BY DEF NumberedAt
<1>9. \A i \in 1 .. Len(text) - 1 :
          text[i] = Dollar /\ text[i + 1] \in Numerals \ {"0"} => i \in F
    BY DEF NumberedAt
<1>10. c # <<>> => n > 1 /\ c[1] = Blank /\ IsWord(c[2]) /\ c[n] # Dollar
    BY DEF Condition, Clause
<1>11. c = <<>> => n = 0
    OBVIOUS
<1> DEFINE D == Numerals \ {"0"}
<1> HIDE DEF F, G, m, n, o, D
<1>12. ASSUME NEW j \in G
       PROVE  /\ m + j \in F /\ text[(m + j) + 1] = c[j + 1]
              /\ NearbyColumn(text, m + j) = NearbyColumn(c, j)
    <2>0. j \in 1 .. n - 1
        BY <1>6
    <2>1. j \in 1 .. n /\ j + 1 \in 1 .. n /\ (m + j) + 1 = m + (j + 1)
        BY <1>1, <2>0
    <2>2. text[m + j] = c[j] /\ text[(m + j) + 1] = c[j + 1]
        BY <1>4, <2>1
    <2>3. m + j \in 1 .. Len(text) - 1
        BY <1>1, <1>4, <2>1
    <2>4. m + j \in F
        BY <1>6, <1>9, <2>2, <2>3
    <2>5. c # <<>> /\ n > 1 /\ c[1] = Blank /\ IsWord(c[2])
        <3>1. n # 0
            BY <1>1, <2>1
        <3> QED
            BY <1>10, <1>11, <3>1
    <2>6. j \in 3 .. n
        <3>1. j # 1 /\ j # 2
            BY <1>6, <2>5, DollarIsMark
        <3> QED
            BY <1>1, <2>1, <3>1
    <2>7. Len(text) >= m + n
        BY <1>1, <1>4
    <2>8. NearbyColumn(text, m + j) = NearbyColumn(c, j)
        BY <1>1, <1>3, <1>4, <2>5, <2>6, <2>7, NearbySame DEF m, n
    <2> QED
        BY <2>2, <2>4, <2>8
<1>13. ASSUME NEW i \in F
       PROVE  \E j \in G : i = m + j
    <2>1. i \in 1 .. ((m + n) + o) - 1 /\ text[i] = Dollar /\ text[i + 1] \in Numerals \ {"0"}
        BY <1>4, <1>7
    <2>2. ~(i <= m)
        <3> SUFFICES ASSUME i <= m PROVE FALSE
            OBVIOUS
        <3>1. i \in 1 .. m
            BY <1>1, <2>1
        <3> QED
            BY <1>4, <1>5, <2>1, <3>1
    <2>3. ~(m + n < i)
        <3> SUFFICES ASSUME m + n < i PROVE FALSE
            OBVIOUS
        <3> DEFINE r == i - (m + n)
        <3>1. r \in 1 .. o /\ (m + n) + r = i
            BY <1>1, <2>1
        <3> HIDE DEF r
        <3>2. text[i] = b[r]
            BY <1>4, <3>1
        <3> QED
            BY <1>5, <2>1, <3>1, <3>2
    <2> DEFINE j == i - m
    <2>4. j \in 1 .. n /\ m + j = i
        BY <1>1, <2>1, <2>2, <2>3
    <2> HIDE DEF j
    <2>5. c[j] = Dollar
        BY <1>4, <2>1, <2>4
    <2>6. j # n
        <3>1. n # 0
            BY <1>1, <2>4
        <3> QED
            BY <1>10, <1>11, <2>5, <3>1
    <2>7. j \in 1 .. n - 1 /\ j + 1 \in 1 .. n /\ m + (j + 1) = i + 1
        BY <1>1, <2>4, <2>6
    <2>8. c[j + 1] = text[i + 1]
        BY <1>4, <2>7
    <2>9. j \in G
        BY <1>8, <2>1, <2>5, <2>7, <2>8
    <2> QED
        BY <2>4, <2>9
<1>14. G \subseteq 0 .. n
    BY <1>1, <1>6
<1>15. ParamTypes(text) = ParamTypes(c)
    BY <1>1, <1>12, <1>13, <1>14, ParamsSame DEF F, G
<1> QED
    BY <1>15 DEF text, ac

\* A tail has no parameters.
LEMMA TailsAreFree ==
    ASSUME NEW t \in Tails
    PROVE  Free(t.text) /\ t.text \in Seq(Tokens)
<1>1. t.text \in Seq(Tokens)
    BY TextsAre, EndedIsSplit DEF Finished
<1>2. CASE t.text = <<>>
    BY <1>1, <1>2, NothingIsFree
<1>3. CASE t.text = <<Semicolon>>
    <2>1. Semicolon # Dollar
        BY Zenon DEF Semicolon, Dollar
    <2> DEFINE s == <<Semicolon>>
    <2>2. Len(s) = 1 /\ s[1] = Semicolon
        OBVIOUS
    <2> HIDE DEF s
    <2>3. Free(s)
        BY <2>1, <2>2 DEF Free
    <2> QED
        BY <1>1, <1>3, <2>3 DEF s
<1>4. CASE t.text \notin {<<>>, <<Semicolon>>}
    <2>1. t \in {p \in Tails : p.text \notin {<<>>, <<";">>}}
        BY <1>4, Zenon DEF Semicolon
    <2> DEFINE text == t.text
    <2>2. ~Contains(text, "$")
        BY <2>1, Zenon, ClausesAssumption
    <2> HIDE DEF text
    <2>3. Free(text)
        BY <2>2, FreeIs, Zenon
    <2> QED
        BY <1>1, <2>3 DEF text
<1> QED
    BY <1>2, <1>3, <1>4

\* A text that is put together has the parameters of its pieces.
LEMMA FreeJoin ==
    ASSUME NEW a \in Seq(Tokens), Free(a), NEW b \in Seq(Tokens), Free(b)
    PROVE  Free(a \o b)
<1> DEFINE m == Len(a)
           n == Len(b)
           text == a \o b
<1>1. /\ m \in Nat /\ n \in Nat /\ Len(text) = m + n
      /\ (\A i \in 1 .. m : text[i] = a[i]) /\ \A i \in 1 .. n : text[m + i] = b[i]
    OBVIOUS
<1>2. (\A i \in 1 .. m : a[i] # Dollar) /\ \A i \in 1 .. n : b[i] # Dollar
    BY DEF Free
<1> HIDE DEF m, n, text
<1>3. ASSUME NEW i \in 1 .. m + n
      PROVE  text[i] # Dollar
    <2>1. CASE i <= m
        <3>1. i \in 1 .. m
            BY <1>1, <2>1
        <3> QED
            BY <1>1, <1>2, <3>1
    <2>2. CASE ~(i <= m)
        <3> DEFINE j == i - m
        <3>1. j \in 1 .. n /\ m + j = i
            BY <1>1, <2>2
        <3> HIDE DEF j
        <3> QED
            BY <1>1, <1>2, <3>1
    <2> QED
        BY <2>1, <2>2
<1>4. Free(text)
    BY <1>1, <1>3 DEF Free
<1> QED
    BY <1>4 DEF text

\* The parameters of a SELECT are those of its WHERE.
LEMMA SelectParams ==
    ASSUME NEW h \in Heads, NEW l \in Lists, NEW f \in Froms, NEW c \in Wheres, NEW t \in Tails
    PROVE  ParamTypes(Text(Select(h, l, f, c, t))) = ParamTypes(c.text)
<1> DEFINE a1 == h \o l.text
           a2 == a1 \o f.text
<1>1. PICK b : Parts(h, l.text, f.text, c.text, b)
    BY TextHasParts
<1>2. /\ h \in Seq(Tokens) /\ f.text \in Seq(Tokens) /\ a1 \in Seq(Tokens)
      /\ \A i \in 1 .. Len(h) : a1[i] = h[i]
      /\ Len(a1) = Len(h) + Len(l.text) /\ l.text \in Seq(Tokens)
      /\ h # <<>> /\ IsWord(h[1])
    BY <1>1, PartsAreTexts
<1>3. Free(h) /\ Free(l.text) /\ Free(f.text)
    BY HeadsAre, ListsAre, FromsAre
<1>4. Free(a1)
    BY <1>2, <1>3, FreeJoin
<1>5. Len(h) >= 1 /\ Len(h) \in Nat /\ Len(l.text) \in Nat
    BY <1>2
<1>6. Len(a1) >= 1 /\ a1[1] = h[1] /\ 1 \in 1 .. Len(a1)
    BY <1>2, <1>5
<1> HIDE DEF a1
<1>7. Free(a2)
    BY <1>2, <1>3, <1>4, FreeJoin
<1>8. a2 \in Seq(Tokens) /\ Len(a2) >= 1 /\ a2[1] = a1[1]
    BY <1>2, <1>6
<1> HIDE DEF a2
<1>9. a2 # <<>> /\ a2[1] # Blank
    BY <1>2, <1>6, <1>8, MarksOfNames
<1>10. Condition(c.text) /\ (c.text # <<>> => c.text[Len(c.text)] # Dollar)
    BY WheresAre
<1>11. Free(t.text) /\ t.text \in Seq(Tokens)
    BY TailsAreFree
<1>12. ParamTypes((a2 \o c.text) \o t.text) = ParamTypes(c.text)
    BY <1>7, <1>8, <1>9, <1>10, <1>11, ParamsOfWhere
<1>13. Text(Select(h, l, f, c, t)) = (a2 \o c.text) \o t.text
    BY DEF Text, Select, a1, a2
<1> QED
    BY <1>12, <1>13

\* The types of the parameters are read from the WHERE, wherever it stands: the
\* column before a parameter is found behind whatever else is written
\* (ParamsHaveTheirTypes).
THEOREM ParamsTyped == WriteSpec => [](ClausesAreRead => ParamsHaveTheirTypes)
<1>1. ASSUME NEW h \in Heads, NEW l \in Lists, NEW f \in Froms, NEW c \in Wheres, NEW t \in Tails,
             ReadApart(Select(h, l, f, c, t))
      PROVE  ParamTypes(Text(Select(h, l, f, c, t))) = Select(h, l, f, c, t).where.params
    <2>1. c.params = ParamTypes(c.text)
        BY <1>1, ReadOfSelect
    <2>2. Select(h, l, f, c, t).where = c
        BY DEF Select
    <2> QED
        BY <2>1, <2>2, SelectParams
<1>2. MadeAndMeant => (ClausesAreRead => ParamsHaveTheirTypes)
    BY <1>1, WholeMeans DEF MadeAndMeant, Made, ClausesAreRead, ParamsHaveTheirTypes
<1> QED
    BY <1>2, MadeInvariant, PTL
=============================================================================
