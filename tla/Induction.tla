----------------------------- MODULE Induction -----------------------------
(***************************************************************************)
(* Induction over the natural numbers, and functions defined by recursion  *)
(* over them.  A property is the set of the numbers that have it, a        *)
(* recursive definition the function that makes one value of the last, so  *)
(* that no lemma has an operator as a parameter.                           *)
(***************************************************************************)
EXTENDS Integers, Sequences, WellFoundedInduction, TLAPS

LEMMA HasLeast ==
    ASSUME NEW T \in SUBSET Nat, T # {}
    PROVE  \E x \in T : \A y \in T : x <= y
<1> DEFINE Less == {p \in Nat \X Nat : p[1] < p[2]}
<1>1. IsWellFoundedOn(Less, Nat)
    BY NatLessThanWellFounded DEF OpToRel
<1>2. \A x, y \in Nat : y < x => <<y, x>> \in Less
    OBVIOUS
<1> HIDE DEF Less
<1>3. PICK x \in T : \A y \in T : ~ (<<y, x>> \in Less)
    BY <1>1, WFMin, Zenon
<1>4. ASSUME NEW y \in T
      PROVE  x <= y
    <2>1. x \in Nat /\ y \in Nat
        OBVIOUS
    <2>2. ~ (y < x)
        BY <1>2, <1>3, <2>1, Zenon
    <2> QED
        BY <2>1, <2>2
<1> QED
    BY <1>4

\* A set of numbers up to n that is not empty has a greatest element.
LEMMA HasGreatest ==
    ASSUME NEW n \in Nat, NEW T \in SUBSET (0 .. n), T # {}
    PROVE  \E x \in T : \A y \in T : y <= x
<1> DEFINE U == {k \in Nat : n - k \in T}
<1>1. U # {}
    <2>1. PICK x \in T : TRUE
        OBVIOUS
    <2>2. n - x \in Nat /\ n - (n - x) = x
        BY <2>1
    <2>3. n - x \in U
        BY <2>1, <2>2
    <2> QED
        BY <2>3
<1>2. PICK k \in U : \A l \in U : k <= l
    BY <1>1, HasLeast
<1>3. ASSUME NEW y \in T
      PROVE  y <= n - k
    <2>1. n - y \in Nat /\ n - (n - y) = y
        OBVIOUS
    <2>2. n - y \in U
        BY <2>1
    <2>3. k <= n - y
        BY <1>2, <2>2
    <2> QED
        BY <2>1, <2>3
<1> QED
    BY <1>2, <1>3

\* Induction: what holds of 0 and of the successor of each number that it
\* holds of, holds of every number.
LEMMA Induct ==
    ASSUME NEW P, 0 \in P, \A n \in Nat : n \in P => n + 1 \in P
    PROVE  Nat \subseteq P
<1> SUFFICES ASSUME Nat \ P # {} PROVE FALSE
    OBVIOUS
<1>1. PICK x \in Nat \ P : \A y \in Nat \ P : x <= y
    BY HasLeast
<1>2. x # 0 /\ x - 1 \in Nat
    BY <1>1
<1>3. x - 1 \in P
    BY <1>1, <1>2
<1> QED
    BY <1>1, <1>2, <1>3
----------------------------------------------------------------------------
(* Folds: a sequence of elements of E is read from left to right, and step  *)
(* says what an element makes of the value of A before it.                 *)

Foldable(s, a, step, A, E) == a \in A /\ step \in [A \X E -> A] /\ s \in Seq(E)

\* f holds the value after each element.
Follows(f, s, a, step, A) ==
    /\ f \in [0 .. Len(s) -> A]
    /\ f[0] = a
    /\ \A k \in 1 .. Len(s) : f[k] = step[<<f[k - 1], s[k]>>]

\* The same of a function whose values are not known to be in A.
Heeds(g, s, a, step, A) ==
    /\ g[0] = a
    /\ \A k \in 1 .. Len(s) : g[k - 1] \in A => g[k] = step[<<g[k - 1], s[k]>>]

Fold(s, a, step) ==
    LET f[n \in 0 .. Len(s)] == IF n = 0 THEN a ELSE step[<<f[n - 1], s[n]>>]
    IN  f[Len(s)]

Reads(g, s, a, step, A, E) == Foldable(s, a, step, A, E) /\ Heeds(g, s, a, step, A)

Reached(s, a, step, A) == \E h : Heeds(h, s, a, step, A) /\ Fold(s, a, step) = h[Len(s)]

\* One more element is one more step.
Grows(s, a, step, A, E) ==
    \A e \in E : /\ Fold(s, a, step) \in A
                 /\ Fold(Append(s, e), a, step) = step[<<Fold(s, a, step), e>>]

\* There is such a function.
LEMMA FoldExists ==
    ASSUME NEW A, NEW E, NEW a, NEW step, NEW s, Foldable(s, a, step, A, E)
    PROVE  \E f : Follows(f, s, a, step, A)
<1> USE DEF Foldable
<1> DEFINE Upto(f, m) == /\ f \in [0 .. m -> A]
                         /\ f[0] = a
                         /\ \A k \in 1 .. m : f[k] = step[<<f[k - 1], s[k]>>]
           P == {m \in Nat : m <= Len(s) => \E f : Upto(f, m)}
<1>1. 0 \in P
    <2>1. Upto([k \in 0 .. 0 |-> a], 0)
        OBVIOUS
    <2> QED
        BY <2>1
<1>2. ASSUME NEW m \in Nat, m \in P
      PROVE  m + 1 \in P
    <2> SUFFICES ASSUME m + 1 <= Len(s)
                 PROVE  \E f : Upto(f, m + 1)
        OBVIOUS
    <2>1. PICK f : Upto(f, m)
        BY <1>2
    <2> DEFINE g == [k \in 0 .. m + 1 |->
                        IF k <= m THEN f[k] ELSE step[<<f[m], s[m + 1]>>]]
    <2>2. f[m] \in A /\ s[m + 1] \in E
        BY <2>1
    <2>3. g \in [0 .. m + 1 -> A]
        BY <2>1, <2>2
    <2>4. g[0] = a
        BY <2>1
    <2>5. ASSUME NEW k \in 1 .. m + 1
          PROVE  g[k] = step[<<g[k - 1], s[k]>>]
        <3>1. CASE k <= m
            BY <2>1, <3>1
        <3>2. CASE k = m + 1
            <4>1. g[k] = step[<<f[m], s[m + 1]>>] /\ g[k - 1] = f[m]
                BY <3>2
            <4> QED
                BY <3>2, <4>1
        <3> QED
            BY <3>1, <3>2
    <2> QED
        BY <2>3, <2>4, <2>5
<1> HIDE DEF P
<1>3. Len(s) \in P
    BY <1>1, <1>2, Induct
<1> QED
    BY <1>3 DEF P, Follows

\* There is no other one.
LEMMA FoldUnique ==
    ASSUME NEW A, NEW a, NEW step, NEW s, Len(s) \in Nat,
           NEW f, Follows(f, s, a, step, A), NEW g, Heeds(g, s, a, step, A)
    PROVE  \A k \in 0 .. Len(s) : g[k] = f[k] /\ f[k] \in A
<1> DEFINE P == {k \in Nat : k <= Len(s) => g[k] = f[k]}
<1>1. 0 \in P
    BY DEF Follows, Heeds
<1>2. ASSUME NEW k \in Nat, k \in P
      PROVE  k + 1 \in P
    <2> SUFFICES ASSUME k + 1 <= Len(s)
                 PROVE  g[k + 1] = f[k + 1]
        OBVIOUS
    <2>1. k + 1 \in 1 .. Len(s) /\ (k + 1) - 1 = k
        OBVIOUS
    <2>2. g[k] = f[k] /\ f[k] \in A
        BY <1>2 DEF Follows
    <2>3. f[k + 1] = step[<<f[k], s[k + 1]>>]
        BY <2>1 DEF Follows
    <2>4. g[k + 1] = step[<<g[k], s[k + 1]>>]
        BY <2>1, <2>2 DEF Heeds
    <2> QED
        BY <2>1, <2>2, <2>3, <2>4
<1> HIDE DEF P
<1>3. \A k \in Nat : k \in P
    BY <1>1, <1>2, Induct
<1> QED
    BY <1>3 DEF P, Follows

\* The function that Fold chooses follows step.
LEMMA FoldChosen ==
    ASSUME NEW A, NEW E, NEW a, NEW step, NEW s, Foldable(s, a, step, A, E)
    PROVE  Reached(s, a, step, A)
<1>1. PICK f : Follows(f, s, a, step, A)
    BY FoldExists, Zenon
<1>2. Len(s) \in Nat
    BY DEF Foldable
<1> DEFINE body(h) == [n \in 0 .. Len(s) |-> IF n = 0 THEN a ELSE step[<<h[n - 1], s[n]>>]]
           chosen == CHOOSE h : h = body(h)
<1>3. f = body(f)
    <2>1. \A n \in 0 .. Len(s) : f[n] = IF n = 0 THEN a ELSE step[<<f[n - 1], s[n]>>]
        BY <1>1, <1>2 DEF Follows
    <2>2. f = [n \in 0 .. Len(s) |-> f[n]]
        BY <1>1 DEF Follows
    <2>3. body(f) = [n \in 0 .. Len(s) |-> f[n]]
        BY <2>1
    <2> QED
        BY <2>2, <2>3
<1>4. Fold(s, a, step) = chosen[Len(s)]
    BY DEF Fold
<1> HIDE DEF body
<1>5. chosen = body(chosen)
    BY <1>3
<1> HIDE DEF chosen
<1>6. \A n \in 0 .. Len(s) : chosen[n] = IF n = 0 THEN a ELSE step[<<chosen[n - 1], s[n]>>]
    <2>1. \A n \in 0 .. Len(s) : body(chosen)[n] =
              IF n = 0 THEN a ELSE step[<<chosen[n - 1], s[n]>>]
        BY DEF body
    <2> QED
        BY <1>5, <2>1, Zenon
<1>7. 0 \in 0 .. Len(s) /\ \A k \in 1 .. Len(s) : k \in 0 .. Len(s) /\ k # 0
    BY <1>2
<1>8. Heeds(chosen, s, a, step, A)
    BY <1>6, <1>7, Zenon DEF Heeds
<1> QED
    BY <1>4, <1>8, Zenon DEF Reached

\* A function that follows step ends in the fold.
LEMMA FoldIs ==
    ASSUME NEW A, NEW E, NEW a, NEW step, NEW s, NEW g, Reads(g, s, a, step, A, E)
    PROVE  g[Len(s)] = Fold(s, a, step) /\ Fold(s, a, step) \in A
<1>a. Foldable(s, a, step, A, E) /\ Heeds(g, s, a, step, A)
    BY Zenon DEF Reads
<1>1. PICK f : Follows(f, s, a, step, A)
    BY <1>a, FoldExists, Zenon
<1>2. PICK h : Heeds(h, s, a, step, A) /\ Fold(s, a, step) = h[Len(s)]
    <2>1. Reached(s, a, step, A)
        BY <1>a, FoldChosen, Zenon
    <2> QED
        BY <2>1, Zenon DEF Reached
<1>3. Len(s) \in Nat /\ Len(s) \in 0 .. Len(s)
    BY <1>a DEF Foldable
<1>4. \A k \in 0 .. Len(s) : h[k] = f[k] /\ f[k] \in A
    BY <1>1, <1>2, <1>3, FoldUnique, Zenon
<1>5. \A k \in 0 .. Len(s) : g[k] = f[k] /\ f[k] \in A
    BY <1>a, <1>1, <1>3, FoldUnique, Zenon
<1> QED
    BY <1>2, <1>3, <1>4, <1>5, Zenon

LEMMA FoldEmpty ==
    ASSUME NEW A, NEW E, NEW a, NEW step, Foldable(<<>>, a, step, A, E)
    PROVE  Fold(<<>>, a, step) = a
<1> DEFINE g == [k \in 0 .. 0 |-> a]
           s == <<>>
<1>1. Len(s) = 0 /\ g[0] = a
    OBVIOUS
<1> HIDE DEF g
<1>2. Heeds(g, s, a, step, A)
    BY <1>1 DEF Heeds
<1>3. Reads(g, s, a, step, A, E)
    BY <1>2 DEF Reads
<1> HIDE DEF s
<1>4. g[Len(s)] = Fold(s, a, step) /\ Fold(s, a, step) \in A
    BY <1>3, FoldIs, Zenon
<1> QED
    BY <1>1, <1>4 DEF s

LEMMA FoldAppend ==
    ASSUME NEW A, NEW E, NEW a, NEW step, NEW s, Foldable(s, a, step, A, E)
    PROVE  Grows(s, a, step, A, E)
<1> SUFFICES ASSUME NEW e \in E
             PROVE  /\ Fold(s, a, step) \in A
                    /\ Fold(Append(s, e), a, step) = step[<<Fold(s, a, step), e>>]
    BY DEF Grows
<1> DEFINE t == Append(s, e)
<1>1. /\ t \in Seq(E) /\ Len(s) \in Nat /\ Len(t) = Len(s) + 1 /\ t[Len(t)] = e
      /\ \A k \in 1 .. Len(s) : s[k] = t[k]
    BY DEF Foldable
<1>2. Foldable(t, a, step, A, E)
    BY <1>1 DEF Foldable
<1> HIDE DEF t
<1>3. PICK g : Follows(g, t, a, step, A)
    BY <1>2, FoldExists, Zenon
<1>4. Heeds(g, t, a, step, A)
    BY <1>3 DEF Follows, Heeds
<1>5. Heeds(g, s, a, step, A)
    BY <1>1, <1>3 DEF Follows, Heeds
<1>6. g[Len(t)] = Fold(t, a, step) /\ Fold(t, a, step) \in A
    <2>1. Reads(g, t, a, step, A, E)
        BY <1>2, <1>4 DEF Reads
    <2> QED
        BY <2>1, FoldIs, Zenon
<1>7. g[Len(s)] = Fold(s, a, step) /\ Fold(s, a, step) \in A
    <2>1. Reads(g, s, a, step, A, E)
        BY <1>5 DEF Reads
    <2> QED
        BY <2>1, FoldIs, Zenon
<1>8. g[Len(t)] = step[<<g[Len(s)], e>>]
    BY <1>1, <1>3 DEF Follows
<1> QED
    BY <1>6, <1>7, <1>8 DEF t
=============================================================================
