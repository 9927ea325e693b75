--------------------------- MODULE EventStoreProofs ---------------------------
(***************************************************************************)
(* Proofs about EventStore for any stores, events, readers and queries,    *)
(* and, first, about the selection that its queries are made of.           *)
(*                                                                         *)
(* The argument: records only grow, so what a query matches up to a        *)
(* position a store has reached stays the same for ever.  A reader that    *)
(* has a cursor holds exactly what its query matches up to that cursor; a  *)
(* page is the beginning of what is matched after it, cut at a record      *)
(* whose own cursor is the next one, and the two together are again what   *)
(* the query matches up to a position.                                     *)
(***************************************************************************)
EXTENDS EventStore, SequenceTheorems, WellFoundedInduction, FiniteSetTheorems, TLAPS

---------------------------------------------------------------------------
(* What Selected computes, for every sequence and every set of positions.  *)
(*                                                                         *)
(* The induction theorems of the library take an operator, which the       *)
(* provers cannot instantiate.  Here induction is about a set of numbers,  *)
(* from the least element of what is not in it, and a recursive definition *)
(* is given by a function from numbers and values to values: both are      *)
(* first-order facts.                                                      *)

(* The order of the natural numbers is a well-founded relation.             *)
LEMMA NumbersWellFounded ==
  \E R : /\ IsWellFoundedOn(R, Nat)
         /\ \A y, x \in Nat : y < x => <<y, x>> \in R
<1>1. \A y, x \in Nat : y < x => <<y, x>> \in OpToRel(<, Nat)
  BY DEF OpToRel
<1>2. QED
  BY <1>1, NatLessThanWellFounded, Zenon

(* A set of natural numbers that is not empty has a least element.          *)
LEMMA LeastNumber ==
  ASSUME NEW T \in SUBSET Nat, T # {}
  PROVE  \E m \in T : \A k \in T : m <= k
<1>1. PICK R : /\ IsWellFoundedOn(R, Nat)
               /\ \A y, x \in Nat : y < x => <<y, x>> \in R
  BY NumbersWellFounded
<1>2. T \subseteq Nat /\ IsWellFoundedOn(R, Nat)
  BY <1>1
<1>3. \E x \in T : \A y \in T : ~ (<<y, x>> \in R)
  BY <1>2, WFMin
<1>4. PICK x \in T : \A y \in T : ~ (<<y, x>> \in R)
  BY <1>3
<1>5. ASSUME NEW y \in T PROVE x <= y
  <2>1. x \in Nat /\ y \in Nat
    BY <1>2
  <2>2. ~(y < x)
    BY <1>1, <1>4, <2>1, Zenon
  <2>3. QED
    BY <2>1, <2>2
<1>6. QED
  BY <1>5

(* A set that holds 0 and with each number the next holds every number.     *)
LEMMA NumbersInduction ==
  ASSUME NEW T \in SUBSET Nat, 0 \in T, \A n \in Nat : n \in T => n + 1 \in T
  PROVE  \A n \in Nat : n \in T
<1> SUFFICES ASSUME Nat \ T # {} PROVE FALSE
  OBVIOUS
<1>1. PICK m \in Nat \ T : \A k \in Nat \ T : m <= k
  BY LeastNumber
<1>2. m - 1 \in Nat /\ m - 1 \notin Nat \ T
  BY <1>1
<1>3. QED
  BY <1>2

(* A value of X, and for every number a function on X to go on with.        *)
Iteration(X, x0, step) == x0 \in X /\ step \in [Nat -> [X -> X]]

(* The values that are met on the way from x0.                              *)
Iterates(f, X, x0, step) ==
  /\ f \in [Nat -> X]
  /\ f[0] = x0
  /\ \A n \in Nat : f[n + 1] = step[n][f[n]]

(* Iterating functions on the values defines a function on the numbers.     *)
LEMMA NumbersRecursion ==
  ASSUME NEW X, NEW x0, NEW step, Iteration(X, x0, step)
  PROVE  \E f : Iterates(f, X, x0, step)
<1>0. x0 \in X /\ step \in [Nat -> [X -> X]]
  BY DEF Iteration
<1> DEFINE Partial(m) == {g \in [0..m -> X] :
                            /\ g[0] = x0
                            /\ \A i \in 0..(m - 1) : g[i + 1] = step[i][g[i]]}
<1> USE <1>0
<1>1. \A m \in Nat : \E g : g \in Partial(m)
  <2> DEFINE T == {m \in Nat : \E g : g \in Partial(m)}
  <2>1. 0 \in T
    <3>1. [i \in 0..0 |-> x0] \in Partial(0)
      OBVIOUS
    <3>2. QED
      BY <3>1
  <2>2. ASSUME NEW m \in Nat, m \in T PROVE m + 1 \in T
    <3>1. PICK g : g \in Partial(m)
      BY <2>2
    <3>2. g \in [0..m -> X] /\ g[m] \in X /\ step[m][g[m]] \in X
      BY <3>1
    <3> DEFINE h == [i \in 0..(m + 1) |-> IF i <= m THEN g[i] ELSE step[m][g[m]]]
    <3>3. h \in [0..(m + 1) -> X] /\ h[0] = x0
      BY <3>1, <3>2
    <3>4. ASSUME NEW i \in 0..(m + 1 - 1) PROVE h[i + 1] = step[i][h[i]]
      <4>1. CASE i < m
        BY <3>1, <4>1
      <4>2. CASE i = m
        BY <3>1, <4>2
      <4>3. QED
        BY <4>1, <4>2
    <3> HIDE DEF h
    <3>5. h \in Partial(m + 1)
      BY <3>3, <3>4
    <3> HIDE DEF Partial
    <3>6. m + 1 \in Nat /\ \E k : k \in Partial(m + 1)
      BY <3>5
    <3>7. QED
      BY <3>6
  <2>3. T \in SUBSET Nat
    OBVIOUS
  <2> HIDE DEF T
  <2>4. \A m \in Nat : m \in T
    BY <2>1, <2>2, <2>3, NumbersInduction
  <2>5. QED
    BY <2>4 DEF T
<1>2. ASSUME NEW m \in Nat, NEW g \in Partial(m), NEW h \in Partial(m + 1)
      PROVE  g[m] = h[m]
  <2> DEFINE T == {i \in Nat : i <= m => g[i] = h[i]}
  <2>1. 0 \in T
    OBVIOUS
  <2>2. ASSUME NEW i \in Nat, i \in T PROVE i + 1 \in T
    <3> SUFFICES ASSUME i + 1 <= m PROVE g[i + 1] = h[i + 1]
      OBVIOUS
    <3>1. g[i] = h[i] /\ i \in 0..(m - 1) /\ i \in 0..(m + 1 - 1)
      BY <2>2
    <3>2. QED
      BY <3>1
  <2>3. T \in SUBSET Nat
    OBVIOUS
  <2> HIDE DEF T
  <2>4. m \in T
    BY <2>1, <2>2, <2>3, NumbersInduction
  <2>5. QED
    BY <2>4 DEF T
<1> DEFINE G(n) == CHOOSE g : g \in Partial(n)
           f == [n \in Nat |-> G(n)[n]]
<1>3. ASSUME NEW n \in Nat PROVE G(n) \in Partial(n)
  <2> HIDE DEF Partial
  <2>1. QED
    BY <1>1
<1> HIDE DEF G
<1>4. ASSUME NEW n \in Nat
      PROVE  /\ G(n)[n] \in X
             /\ G(n)[0] = x0
             /\ \A i \in 0..(n - 1) : G(n)[i + 1] = step[i][G(n)[i]]
  <2>1. G(n) \in Partial(n)
    BY <1>3
  <2>2. n \in 0..n
    OBVIOUS
  <2>3. QED
    BY <2>1, <2>2
<1>5. f \in [Nat -> X]
  BY <1>4
<1>6. f[0] = x0
  BY <1>4
<1>7. ASSUME NEW n \in Nat PROVE f[n + 1] = step[n][f[n]]
  <2>1. f[n + 1] = G(n + 1)[n + 1] /\ f[n] = G(n)[n]
    OBVIOUS
  <2>2. G(n + 1)[n + 1] = step[n][G(n + 1)[n]]
    <3>1. n + 1 \in Nat /\ n \in 0..(n + 1 - 1)
      OBVIOUS
    <3>2. QED
      BY <1>4, <3>1
  <2>3. G(n)[n] = G(n + 1)[n]
    <3>1. G(n) \in Partial(n) /\ G(n + 1) \in Partial(n + 1)
      BY <1>3
    <3> HIDE DEF Partial
    <3>2. QED
      BY <1>2, <3>1
  <2>4. QED
    BY <2>1, <2>2, <2>3
<1> HIDE DEF f
<1>8. Iterates(f, X, x0, step)
  BY <1>5, <1>6, <1>7 DEF Iterates
<1>9. QED
  BY <1>8

---------------------------------------------------------------------------
(* Appending leaves every beginning as it was.                              *)
LEMMA AppendKeepsPrefix ==
  ASSUME NEW S, NEW u \in Seq(S), NEW x \in S, NEW n \in 0..Len(u)
  PROVE  SubSeq(Append(u, x), 1, n) = SubSeq(u, 1, n)
<1>1. /\ Append(u, x) \in Seq(S)
      /\ \A i \in 1..Len(u) : Append(u, x)[i] = u[i]
      /\ \A i \in 1..Len(u) : u[i] \in S
      /\ Len(u) \in Nat
  BY AppendProperties, ElementOfSeq, LenProperties
<1> DEFINE v == Append(u, x)
<1> HIDE DEF v
<1>2. \A i \in 1..n : v[i] = u[i] /\ u[i] \in S /\ v[i] \in S
  BY <1>1 DEF v
<1>3. n \in Nat
  BY <1>1
<1>4. /\ SubSeq(v, 1, n) \in Seq(S)
      /\ Len(SubSeq(v, 1, n)) = n
      /\ \A i \in 1..n : SubSeq(v, 1, n)[i] = v[i]
  BY <1>2, <1>3, SubSeqProperties
<1>5. /\ SubSeq(u, 1, n) \in Seq(S)
      /\ Len(SubSeq(u, 1, n)) = n
      /\ \A i \in 1..n : SubSeq(u, 1, n)[i] = u[i]
  BY <1>2, <1>3, SubSeqProperties
<1>6. SubSeq(v, 1, n) = SubSeq(u, 1, n)
  BY <1>2, <1>4, <1>5, SeqEqual
<1>7. QED
  BY <1>6 DEF v

---------------------------------------------------------------------------
(* K holds positions of s, a sequence of elements of S.                     *)
Selectable(S, s, K) == s \in Seq(S) /\ K \in SUBSET DOMAIN s

(* Selected as its recursion says.                                          *)
LEMMA SelectedSteps ==
  ASSUME NEW S, NEW s, NEW K, Selectable(S, s, K)
  PROVE  /\ Selected(s, K, 0) = <<>>
         /\ \A n \in Nat :
              /\ Selected(s, K, n) \in Seq(S)
              /\ n + 1 \in K => Selected(s, K, n + 1) = Append(Selected(s, K, n), s[n + 1])
              /\ n + 1 \notin K => Selected(s, K, n + 1) = Selected(s, K, n)
<1> DEFINE step == [n \in Nat |-> [x \in Seq(S) |->
                      IF n + 1 \in K THEN Append(x, s[n + 1]) ELSE x]]
           Rec(g) == [i \in Nat |->
                        IF i = 0 THEN <<>>
                        ELSE IF i \in K THEN Append(g[i - 1], s[i]) ELSE g[i - 1]]
<1>1. \A i \in K : s[i] \in S
  BY LenProperties, ElementOfSeq DEF Selectable
<1>2. step \in [Nat -> [Seq(S) -> Seq(S)]]
  <2> SUFFICES ASSUME NEW n \in Nat, NEW x \in Seq(S)
               PROVE  (IF n + 1 \in K THEN Append(x, s[n + 1]) ELSE x) \in Seq(S)
    OBVIOUS
  <2>1. QED
    BY <1>1, AppendProperties
<1>3. <<>> \in Seq(S)
  BY EmptySeq
<1>4. PICK f \in [Nat -> Seq(S)] : /\ f[0] = <<>>
                                   /\ \A n \in Nat : f[n + 1] = step[n][f[n]]
  <2> DEFINE X == Seq(S)
             x0 == <<>>
  <2>1. Iteration(X, x0, step)
    BY <1>2, <1>3 DEF Iteration
  <2> HIDE DEF step, X, x0
  <2>2. PICK f : Iterates(f, X, x0, step)
    BY <2>1, NumbersRecursion
  <2>3. QED
    BY <2>2 DEF X, x0, Iterates
<1>5. ASSUME NEW n \in Nat
      PROVE  f[n + 1] = IF n + 1 \in K THEN Append(f[n], s[n + 1]) ELSE f[n]
  <2>1. f[n + 1] = step[n][f[n]] /\ f[n] \in Seq(S)
    BY <1>4
  <2>2. QED
    BY <2>1
<1>6. f = Rec(f)
  <2>1. ASSUME NEW i \in Nat PROVE f[i] = Rec(f)[i]
    <3>1. CASE i = 0
      BY <1>4, <3>1
    <3>2. CASE i # 0
      <4>1. i - 1 \in Nat /\ (i - 1) + 1 = i
        BY <3>2
      <4>2. f[(i - 1) + 1] = IF (i - 1) + 1 \in K THEN Append(f[i - 1], s[(i - 1) + 1])
                             ELSE f[i - 1]
        BY <1>5, <4>1
      <4>3. QED
        BY <3>2, <4>1, <4>2
    <3>3. QED
      BY <3>1, <3>2
  <2>2. QED
    BY <1>4, <2>1
<1>7. Parts(s, K) = CHOOSE g : g = Rec(g)
  BY DEF Parts
<1>8. Parts(s, K) = Rec(Parts(s, K))
  <2>1. \E g : g = Rec(g)
    BY <1>6
  <2> HIDE DEF Rec
  <2>2. QED
    BY <1>7, <2>1
<1> DEFINE P == Parts(s, K)
<1>9. ASSUME NEW i \in Nat
      PROVE  P[i] = IF i = 0 THEN <<>>
                    ELSE IF i \in K THEN Append(P[i - 1], s[i]) ELSE P[i - 1]
  BY <1>8
<1> HIDE DEF P, Rec, step
<1>10. P[0] = <<>>
  BY <1>9
<1>11. ASSUME NEW n \in Nat
       PROVE  P[n + 1] = IF n + 1 \in K THEN Append(P[n], s[n + 1]) ELSE P[n]
  <2>1. n + 1 \in Nat /\ n + 1 # 0 /\ (n + 1) - 1 = n
    OBVIOUS
  <2>2. QED
    BY <1>9, <2>1
<1>12. \A n \in Nat : P[n] \in Seq(S)
  <2> DEFINE T == {n \in Nat : P[n] \in Seq(S)}
  <2>1. 0 \in T
    BY <1>3, <1>10
  <2>2. ASSUME NEW n \in Nat, n \in T PROVE n + 1 \in T
    <3>1. P[n] \in Seq(S)
      BY <2>2
    <3>2. CASE n + 1 \in K
      <4>1. Append(P[n], s[n + 1]) \in Seq(S)
        BY <1>1, <3>1, <3>2, AppendProperties
      <4>2. P[n + 1] \in Seq(S)
        BY <1>11, <3>2, <4>1
      <4>3. QED
        BY <4>2
    <3>3. CASE n + 1 \notin K
      <4>1. P[n + 1] \in Seq(S)
        BY <1>11, <3>1, <3>3
      <4>2. QED
        BY <4>1
    <3>4. QED
      BY <3>2, <3>3
  <2>3. T \in SUBSET Nat
    OBVIOUS
  <2> HIDE DEF T
  <2>4. \A n \in Nat : n \in T
    BY <2>1, <2>2, <2>3, NumbersInduction
  <2>5. QED
    BY <2>4 DEF T
<1>13. QED
  BY <1>10, <1>11, <1>12 DEF P, Selected

(* What is selected up to n depends on what is kept up to n only.           *)
LEMMA SelectedAlike ==
  ASSUME NEW S, NEW s, NEW K, NEW t, NEW L, NEW n \in Nat,
         Selectable(S, s, K), Selectable(S, t, L),
         \A i \in 1..n : (i \in K <=> i \in L) /\ (i \in K => s[i] = t[i])
  PROVE  Selected(s, K, n) = Selected(t, L, n)
<1> DEFINE T == {m \in Nat : m <= n => Selected(s, K, m) = Selected(t, L, m)}
<1>1. 0 \in T
  BY SelectedSteps
<1>0. /\ \A m \in Nat :
           /\ m + 1 \in K => Selected(s, K, m + 1) = Append(Selected(s, K, m), s[m + 1])
           /\ m + 1 \notin K => Selected(s, K, m + 1) = Selected(s, K, m)
      /\ \A m \in Nat :
           /\ m + 1 \in L => Selected(t, L, m + 1) = Append(Selected(t, L, m), t[m + 1])
           /\ m + 1 \notin L => Selected(t, L, m + 1) = Selected(t, L, m)
  BY SelectedSteps
<1>2. ASSUME NEW m \in Nat, m \in T PROVE m + 1 \in T
  <2> SUFFICES ASSUME m + 1 <= n
               PROVE  Selected(s, K, m + 1) = Selected(t, L, m + 1)
    OBVIOUS
  <2>1. Selected(s, K, m) = Selected(t, L, m) /\ m + 1 \in 1..n
    BY <1>2
  <2>2. QED
    BY <1>0, <2>1
<1>3. T \in SUBSET Nat
  OBVIOUS
<1> HIDE DEF T
<1>4. n \in T
  BY <1>1, <1>2, <1>3, NumbersInduction
<1>5. QED
  BY <1>4 DEF T

(* Positions that are not kept add nothing.                                 *)
LEMMA SelectedSkips ==
  ASSUME NEW S, NEW s, NEW K, Selectable(S, s, K),
         NEW a \in Nat, NEW b \in Nat, a <= b, \A i \in (a + 1)..b : i \notin K
  PROVE  Selected(s, K, b) = Selected(s, K, a)
<1> DEFINE T == {m \in Nat : a <= m /\ m <= b => Selected(s, K, m) = Selected(s, K, a)}
<1>0. \A m \in Nat : m + 1 \notin K => Selected(s, K, m + 1) = Selected(s, K, m)
  BY SelectedSteps
<1>1. 0 \in T
  OBVIOUS
<1>2. ASSUME NEW m \in Nat, m \in T PROVE m + 1 \in T
  <2> SUFFICES ASSUME a <= m + 1, m + 1 <= b
               PROVE  Selected(s, K, m + 1) = Selected(s, K, a)
    OBVIOUS
  <2>1. CASE a = m + 1
    BY <2>1
  <2>2. CASE a <= m
    <3>1. Selected(s, K, m) = Selected(s, K, a) /\ m + 1 \in (a + 1)..b
      BY <1>2, <2>2
    <3>2. QED
      BY <1>0, <3>1
  <2>3. QED
    BY <2>1, <2>2
<1>3. T \in SUBSET Nat
  OBVIOUS
<1> HIDE DEF T
<1>4. b \in T
  BY <1>1, <1>2, <1>3, NumbersInduction
<1>5. QED
  BY <1>4 DEF T

(* What is selected up to b is what is selected up to a, and then what is   *)
(* selected after a.                                                        *)
LEMMA SelectedSplits ==
  ASSUME NEW S, NEW s, NEW K, Selectable(S, s, K),
         NEW a \in Nat, NEW b \in Nat, a <= b,
         NEW L, Selectable(S, s, L), \A i \in Nat : i \in L <=> i \in K /\ i > a
  PROVE  Selected(s, K, b) = Selected(s, K, a) \o Selected(s, L, b)
<1> DEFINE T == {m \in Nat : a <= m => Selected(s, K, m) =
                                        Selected(s, K, a) \o Selected(s, L, m)}
<1>1. Selectable(S, s, L)
  OBVIOUS
<1>2. \A i \in Nat : i > a => (i \in K <=> i \in L)
  OBVIOUS
<1>3. \A i \in 1..a : i \notin L
  OBVIOUS
<1>4. Selected(s, L, a) = <<>>
  <2>1. \A i \in (0 + 1)..a : i \notin L
    BY <1>3
  <2>2. Selected(s, L, a) = Selected(s, L, 0)
    BY <1>1, <2>1, SelectedSkips
  <2>3. QED
    BY <1>1, <2>2, SelectedSteps
<1>5. Selected(s, K, a) \in Seq(S)
  BY SelectedSteps
<1>6. Selected(s, K, a) = Selected(s, K, a) \o Selected(s, L, a)
  BY <1>4, <1>5, ConcatEmptySeq
<1>7. 0 \in T
  <2>1. CASE a = 0
    BY <1>6, <2>1
  <2>2. CASE a > 0
    BY <2>2
  <2>3. QED
    BY <2>1, <2>2
<1>8. ASSUME NEW m \in Nat, m \in T PROVE m + 1 \in T
  <2> SUFFICES ASSUME a <= m + 1
               PROVE  Selected(s, K, m + 1) = Selected(s, K, a) \o Selected(s, L, m + 1)
    OBVIOUS
  <2>1. CASE a = m + 1
    BY <1>6, <2>1
  <2>2. CASE a <= m
    <3>1. Selected(s, K, m) = Selected(s, K, a) \o Selected(s, L, m)
      BY <1>8, <2>2
    <3>2. m + 1 \in K <=> m + 1 \in L
      BY <1>2, <2>2
    <3>3. Selected(s, L, m) \in Seq(S)
      BY <1>1, SelectedSteps
    <3>4. CASE m + 1 \in K
      <4>1. /\ Selected(s, K, m + 1) = Append(Selected(s, K, m), s[m + 1])
            /\ Selected(s, L, m + 1) = Append(Selected(s, L, m), s[m + 1])
        BY <1>1, <3>2, <3>4, SelectedSteps
      <4>2. s[m + 1] \in S
        BY <3>4, LenProperties, ElementOfSeq DEF Selectable
      <4>3. Append(Selected(s, K, a) \o Selected(s, L, m), s[m + 1]) =
              Selected(s, K, a) \o Append(Selected(s, L, m), s[m + 1])
        <5> DEFINE u == Selected(s, K, a)
                   v == Selected(s, L, m)
                   x == s[m + 1]
        <5>1. u \in Seq(S) /\ v \in Seq(S) /\ x \in S
          BY <1>5, <3>3, <4>2
        <5> HIDE DEF u, v, x
        <5>2. Append(u \o v, x) = u \o Append(v, x)
          <6>1. u \o v \in Seq(S) /\ <<x>> \in Seq(S)
            BY <5>1, ConcatProperties
          <6>2. Append(u \o v, x) = (u \o v) \o <<x>> /\ Append(v, x) = v \o <<x>>
            BY <5>1, <6>1, AppendIsConcat
          <6>3. QED
            BY <5>1, <6>1, <6>2, ConcatAssociative
        <5>3. QED
          BY <5>2 DEF u, v, x
      <4>4. QED
        BY <3>1, <4>1, <4>3
    <3>5. CASE m + 1 \notin K
      <4>1. /\ Selected(s, K, m + 1) = Selected(s, K, m)
            /\ Selected(s, L, m + 1) = Selected(s, L, m)
        BY <1>1, <3>2, <3>5, SelectedSteps
      <4>2. QED
        BY <3>1, <4>1
    <3>6. QED
      BY <3>4, <3>5
  <2>3. QED
    BY <2>1, <2>2
<1>9. T \in SUBSET Nat
  OBVIOUS
<1> HIDE DEF T
<1>10. b \in T
  BY <1>7, <1>8, <1>9, NumbersInduction
<1>11. QED
  BY <1>10 DEF T

(* The first m selected elements are those selected up to the position of   *)
(* the m-th.                                                                *)
LEMMA SelectedPrefix ==
  ASSUME NEW S, NEW s, NEW K, Selectable(S, s, K), NEW n \in Nat,
         NEW m \in 1..Len(Selected(s, K, n))
  PROVE  \E k \in K : /\ k <= n
                      /\ Selected(s, K, n)[m] = s[k]
                      /\ SubSeq(Selected(s, K, n), 1, m) = Selected(s, K, k)
<1> DEFINE Kept(j, i) ==
             \E k \in K : /\ k <= j
                          /\ Selected(s, K, j)[i] = s[k]
                          /\ SubSeq(Selected(s, K, j), 1, i) = Selected(s, K, k)
           T == {j \in Nat : \A i \in 1..Len(Selected(s, K, j)) : Kept(j, i)}
<1>1. 0 \in T
  <2>1. Len(Selected(s, K, 0)) = 0
    BY SelectedSteps, EmptySeq
  <2>2. QED
    BY <2>1
<1>2. ASSUME NEW j \in Nat, j \in T PROVE j + 1 \in T
  <2> SUFFICES ASSUME NEW i \in 1..Len(Selected(s, K, j + 1))
               PROVE  Kept(j + 1, i)
    OBVIOUS
  <2>0. Selected(s, K, j) \in Seq(S) /\ Len(Selected(s, K, j)) \in Nat
    BY SelectedSteps, LenProperties
  <2>1. CASE j + 1 \notin K
    <3>1. Selected(s, K, j + 1) = Selected(s, K, j)
      BY <2>1, SelectedSteps
    <3>2. Kept(j, i)
      BY <1>2, <3>1
    <3>3. PICK k \in K : /\ k <= j
                         /\ Selected(s, K, j)[i] = s[k]
                         /\ SubSeq(Selected(s, K, j), 1, i) = Selected(s, K, k)
      BY <3>2
    <3>4. k <= j + 1
      BY <3>3, LenProperties DEF Selectable
    <3>5. QED
      BY <3>1, <3>3, <3>4
  <2>2. CASE j + 1 \in K
    <3>1. Selected(s, K, j + 1) = Append(Selected(s, K, j), s[j + 1])
      BY <2>2, SelectedSteps, ZenonT(60)
    <3>2. s[j + 1] \in S
      BY <2>2, LenProperties, ElementOfSeq DEF Selectable
    <3> DEFINE old == Selected(s, K, j)
               new == Append(old, s[j + 1])
    <3>3. /\ new \in Seq(S) /\ Len(new) = Len(old) + 1
          /\ \A h \in 1..Len(old) : new[h] = old[h]
          /\ new[Len(old) + 1] = s[j + 1]
      BY <2>0, <3>2, AppendProperties
    <3>4. CASE i = Len(old) + 1
      <4>1. SubSeq(new, 1, i) = new
        BY <3>3, <3>4, SubSeqFull
      <4>2. /\ j + 1 <= j + 1
            /\ Selected(s, K, j + 1)[i] = s[j + 1]
            /\ SubSeq(Selected(s, K, j + 1), 1, i) = Selected(s, K, j + 1)
        BY <3>1, <3>3, <3>4, <4>1
      <4>3. QED
        BY <2>2, <4>2
    <3>5. CASE i \in 1..Len(old)
      <4>1. PICK k \in K : /\ k <= j
                           /\ old[i] = s[k]
                           /\ SubSeq(old, 1, i) = Selected(s, K, k)
        BY <1>2, <3>5
      <4>2. k <= j + 1
        BY <4>1, LenProperties DEF Selectable
      <4>3. SubSeq(new, 1, i) = SubSeq(old, 1, i)
        BY <2>0, <3>2, <3>5, AppendKeepsPrefix
      <4>4. /\ Selected(s, K, j + 1)[i] = s[k]
            /\ SubSeq(Selected(s, K, j + 1), 1, i) = Selected(s, K, k)
        BY <3>1, <3>3, <3>5, <4>1, <4>3
      <4>5. QED
        BY <4>2, <4>4
    <3>6. i = Len(old) + 1 \/ i \in 1..Len(old)
      BY <2>0, <3>1, <3>3
    <3>7. QED
      BY <3>4, <3>5, <3>6
  <2>3. QED
    BY <2>1, <2>2
<1>3. T \in SUBSET Nat
  OBVIOUS
<1> HIDE DEF T
<1>4. n \in T
  BY <1>1, <1>2, <1>3, NumbersInduction
<1>5. QED
  BY <1>4 DEF T

---------------------------------------------------------------------------
(* The event store.                                                         *)

(* What a query matches in the first n records of s.                        *)
Matching(s, q, n) ==
  Selected(s, {i \in 1..n : Matches(q, s[i].event)}, n)

(* The index of a store has as many entries as the store has records.       *)
IndexInv ==
  IndexMatchesRecords /\ \A st \in Stores : IsFiniteSet(DOMAIN indices[st])

(* Tokens that a reader holds point into their store.                       *)
TokensReached ==
  \A r \in Readers :
    /\ after[r] # Unset => after[r].position \in 1..Len(records[after[r].store])
    /\ bound[r] # Unset => bound[r].position \in 0..Len(records[bound[r].store])

(* A reader that has not begun holds nothing.                               *)
IdleIsEmpty ==
  \A r \in Readers :
    phase[r] = "idle" => after[r] = Unset /\ bound[r] = Unset /\ collected[r] = <<>>

(* A reader between two pages holds what is matched up to its cursor, which *)
(* is that of the last record it holds.                                     *)
ReadingInv ==
  \A r \in Readers : phase[r] = "reading" =>
    \/ after[r] = Unset /\ collected[r] = <<>>
    \/ /\ after[r] # Unset /\ Valid(query[r]) /\ collected[r] # <<>>
       /\ after[r] = collected[r][Len(collected[r])].cursor
       /\ collected[r] =
            Matching(records[after[r].store], query[r], after[r].position)

(* One that is done holds what is matched up to where its store ended, or   *)
(* to its checkpoint.                                                       *)
DoneInv ==
  \A r \in Readers : phase[r] = "done" =>
    \E st \in Stores : \E n \in 0..Len(records[st]) :
      /\ collected[r] = Matching(records[st], query[r], n)
      /\ bound[r] # Unset => bound[r].store = st /\ bound[r].position = n

ReplayInv == TokensReached /\ IdleIsEmpty /\ ReadingInv /\ DoneInv

---------------------------------------------------------------------------
(* Selecting what a query matches between two positions.                    *)
LEMMA MatchesSelectable ==
  ASSUME NEW s \in Seq(StoredEvents), NEW q, NEW a \in Nat, NEW n \in 0..Len(s)
  PROVE  Selectable(StoredEvents, s, {i \in (a + 1)..n : Matches(q, s[i].event)})
BY LenProperties DEF Selectable

(* What is matched up to a position is a sequence of records.               *)
LEMMA MatchingType ==
  ASSUME NEW s \in Seq(StoredEvents), NEW q, NEW n \in 0..Len(s)
  PROVE  Matching(s, q, n) \in Seq(StoredEvents) /\ Matching(s, q, 0) = <<>>
<1>1. Len(s) \in Nat
  BY LenProperties
<1> DEFINE K == {i \in (0 + 1)..n : Matches(q, s[i].event)}
           L == {i \in (0 + 1)..0 : Matches(q, s[i].event)}
<1>2. Selectable(StoredEvents, s, K)
  BY <1>1, MatchesSelectable
<1>3. Selectable(StoredEvents, s, L)
  BY <1>1 DEF Selectable
<1>4. Matching(s, q, n) = Selected(s, K, n) /\ Matching(s, q, 0) = Selected(s, L, 0)
  BY DEF Matching
<1> HIDE DEF K, L
<1>5. QED
  BY <1>1, <1>2, <1>3, <1>4, SelectedSteps

(* It depends on the records up to that position only.                      *)
LEMMA MatchingStays ==
  ASSUME NEW s \in Seq(StoredEvents), NEW t \in Seq(StoredEvents), NEW q,
         NEW n \in 0..Len(s), n \in 0..Len(t), \A i \in 1..n : s[i] = t[i]
  PROVE  Matching(s, q, n) = Matching(t, q, n)
<1> DEFINE K == {i \in (0 + 1)..n : Matches(q, s[i].event)}
           L == {i \in (0 + 1)..n : Matches(q, t[i].event)}
<1>1. Selectable(StoredEvents, s, K) /\ Selectable(StoredEvents, t, L)
  BY MatchesSelectable
<1>2. n \in Nat /\ \A i \in 1..n : (i \in K <=> i \in L) /\ (i \in K => s[i] = t[i])
  BY LenProperties
<1>3. Matching(s, q, n) = Selected(s, K, n) /\ Matching(t, q, n) = Selected(t, L, n)
  BY DEF Matching
<1> HIDE DEF K, L
<1>4. QED
  BY <1>1, <1>2, <1>3, SelectedAlike

(* What is matched after a, up to n, goes on from what is matched up to a.  *)
LEMMA MatchingGoesOn ==
  ASSUME NEW s \in Seq(StoredEvents), NEW q, NEW n \in 0..Len(s), NEW a \in 0..n
  PROVE  Matching(s, q, n) =
           Matching(s, q, a) \o
             Selected(s, {i \in (a + 1)..n : Matches(q, s[i].event)}, n)
<1> DEFINE K == {i \in (0 + 1)..n : Matches(q, s[i].event)}
           A == {i \in (0 + 1)..a : Matches(q, s[i].event)}
           L == {i \in (a + 1)..n : Matches(q, s[i].event)}
<1>1. Len(s) \in Nat /\ n \in Nat /\ a \in Nat /\ a <= n /\ a \in 0..Len(s)
  BY LenProperties
<1>2. /\ Selectable(StoredEvents, s, K)
      /\ Selectable(StoredEvents, s, A)
      /\ Selectable(StoredEvents, s, L)
  BY <1>1, MatchesSelectable
<1>3. \A i \in Nat : i \in L <=> i \in K /\ i > a
  BY <1>1
<1>4. \A i \in 1..a : (i \in K <=> i \in A)
  BY <1>1
<1>5. Matching(s, q, n) = Selected(s, K, n) /\ Matching(s, q, a) = Selected(s, A, a)
  BY DEF Matching
<1> HIDE DEF K, A, L
<1>6. Selected(s, K, a) = Selected(s, A, a)
  BY <1>1, <1>2, <1>4, SelectedAlike
<1>7. Selected(s, K, n) = Selected(s, K, a) \o Selected(s, L, n)
  BY <1>1, <1>2, <1>3, SelectedSplits
<1>8. QED
  BY <1>5, <1>6, <1>7 DEF L

(* A beginning of what is matched ends at the position of its last record.  *)
LEMMA MatchingCut ==
  ASSUME NEW s \in Seq(StoredEvents), NEW q, NEW n \in 0..Len(s),
         NEW m \in 1..Len(Matching(s, q, n))
  PROVE  \E k \in 1..n : /\ Matching(s, q, n)[m] = s[k]
                         /\ SubSeq(Matching(s, q, n), 1, m) = Matching(s, q, k)
<1> DEFINE K == {i \in (0 + 1)..n : Matches(q, s[i].event)}
<1>1. Len(s) \in Nat /\ n \in Nat
  BY LenProperties
<1>2. Selectable(StoredEvents, s, K)
  BY <1>1, MatchesSelectable
<1>3. Matching(s, q, n) = Selected(s, K, n)
  BY DEF Matching
<1>4. PICK k \in K : /\ k <= n
                     /\ Selected(s, K, n)[m] = s[k]
                     /\ SubSeq(Selected(s, K, n), 1, m) = Selected(s, K, k)
  <2> HIDE DEF K
  <2>1. m \in 1..Len(Selected(s, K, n))
    BY <1>3
  <2>2. QED
    BY <1>1, <1>2, <2>1, SelectedPrefix
<1>5. k \in 1..n /\ k \in Nat /\ k \in 0..Len(s)
  BY <1>1, <1>4
<1> DEFINE L == {i \in (0 + 1)..k : Matches(q, s[i].event)}
<1>6. Selectable(StoredEvents, s, L)
  BY <1>5, MatchesSelectable
<1>7. \A i \in 1..k : i \in K <=> i \in L
  BY <1>5
<1>8. Matching(s, q, k) = Selected(s, L, k)
  BY DEF Matching
<1> HIDE DEF K, L
<1>9. Selected(s, K, k) = Selected(s, L, k)
  BY <1>2, <1>5, <1>6, <1>7, SelectedAlike
<1>10. QED
  BY <1>3, <1>4, <1>5, <1>8, <1>9

---------------------------------------------------------------------------
(* append, seen as a step of one store.                                     *)
LEMMA AppendGrows ==
  ASSUME TypeOK, NEW st \in Stores, NEW e \in Events, AppendEvent(st, e)
  PROVE  LET record == [cursor |-> Token("cursor", st, Len(records[st]) + 1), event |-> e]
         IN  /\ record \in StoredEvents
             /\ records' \in [Stores -> Seq(StoredEvents)]
             /\ Len(records'[st]) = Len(records[st]) + 1
             /\ records'[st][Len(records[st]) + 1] = record
             /\ \A other \in Stores :
                  /\ other # st => records'[other] = records[other]
                  /\ Len(records[other]) \in Nat
                  /\ Len(records[other]) <= Len(records'[other])
                  /\ \A i \in 1..Len(records[other]) :
                       records'[other][i] = records[other][i]
<1> DEFINE n == Len(records[st])
           record == [cursor |-> Token("cursor", st, n + 1), event |-> e]
<1>1. records \in [Stores -> Seq(StoredEvents)] /\ records[st] \in Seq(StoredEvents)
  BY DEF TypeOK
<1>2. \A other \in Stores : Len(records[other]) \in Nat
  BY <1>1, LenProperties
<1>3. record \in StoredEvents
  BY <1>2 DEF StoredEvents, Tokens, Token
<1>4. records' = [records EXCEPT ![st] = Append(records[st], record)]
  BY DEF AppendEvent
<1> HIDE DEF record
<1>5. /\ Append(records[st], record) \in Seq(StoredEvents)
      /\ Len(Append(records[st], record)) = n + 1
      /\ \A i \in 1..n : Append(records[st], record)[i] = records[st][i]
      /\ Append(records[st], record)[n + 1] = record
  BY <1>1, <1>3, AppendProperties
<1>6. /\ records' \in [Stores -> Seq(StoredEvents)]
      /\ records'[st] = Append(records[st], record)
      /\ \A other \in Stores : other # st => records'[other] = records[other]
  BY <1>1, <1>4, <1>5
<1>7. ASSUME NEW other \in Stores
      PROVE  /\ Len(records[other]) <= Len(records'[other])
             /\ \A i \in 1..Len(records[other]) : records'[other][i] = records[other][i]
  <2>1. CASE other = st
    BY <1>2, <1>5, <1>6, <2>1
  <2>2. CASE other # st
    BY <1>2, <1>6, <2>2
  <2>3. QED
    BY <2>1, <2>2
<1>8. QED
  BY <1>2, <1>3, <1>5, <1>6, <1>7 DEF record

(* The page of a query is made of records of the store.                     *)
LEMMA PageType ==
  ASSUME TypeOK, NEW r \in Readers, NEW st \in Stores, QueryPage(r, st)
  PROVE  LET s == records[st]
             a == Start(after[r])
             u == UpperBound(st, bound[r])
             limit == query[r].limit
             found == Selected(s, {i \in (a + 1)..u : Matches(query[r], s[i].event)}, u)
         IN  /\ s \in Seq(StoredEvents)
             /\ Len(s) \in Nat
             /\ u \in 0..Len(s) /\ a \in 0..u
             /\ limit \in Nat /\ limit >= 1
             /\ Valid(query[r])
             /\ after[r] # Unset => /\ after[r].store = st
                                    /\ a = after[r].position
             /\ after[r] = Unset => a = 0
             /\ bound[r] # Unset => bound[r].store = st /\ bound[r].position = u
             /\ found \in Seq(StoredEvents)
             /\ Found(st, query[r], a, u) = found
             /\ Page(found, limit) \in Seq(StoredEvents)
             /\ NextCursor(found, limit) \in Tokens \cup {Unset}
<1> DEFINE s == records[st]
           a == Start(after[r])
           u == UpperBound(st, bound[r])
           limit == query[r].limit
           K == {i \in (a + 1)..u : Matches(query[r], s[i].event)}
           found == Selected(s, K, u)
<1>1. s \in Seq(StoredEvents) /\ Len(s) \in Nat
  BY LenProperties DEF TypeOK
<1>2. Accepts(st, query[r], after[r], bound[r])
  BY DEF QueryPage
<1>3. limit \in Nat /\ limit >= 1 /\ Valid(query[r])
  <2>1. Valid(query[r])
    BY <1>2 DEF Accepts
  <2>2. limit \in 1..1000
    BY <2>1 DEF Valid, MAX_LIMIT
  <2> HIDE DEF limit
  <2>3. QED
    BY <2>1, <2>2
<1>4. /\ after[r] # Unset => /\ after[r].store = st
                             /\ a = after[r].position
                             /\ a \in 1..Len(s)
      /\ after[r] = Unset => a = 0
  BY <1>2 DEF Accepts, ValidCursor, Decodes, Start
<1>5. /\ bound[r] # Unset => bound[r].store = st /\ bound[r].position = u
      /\ u \in 0..Len(s)
  BY <1>1, <1>2 DEF Accepts, ValidCheckpoint, Decodes, UpperBound
<1>6. a \in 0..u
  BY <1>1, <1>2, <1>4, <1>5 DEF Accepts
<1>7. Selectable(StoredEvents, s, K)
  <2> HIDE DEF s, a, u
  <2>1. a \in Nat
    BY <1>1, <1>5, <1>6
  <2>2. QED
    BY <1>1, <1>5, <2>1, MatchesSelectable
<1>8. found \in Seq(StoredEvents)
  <2> HIDE DEF K
  <2>1. u \in Nat
    BY <1>5
  <2>2. QED
    BY <1>7, <2>1, SelectedSteps
<1>9. Found(st, query[r], a, u) = found
  BY DEF Found, Hits
<1> HIDE DEF K, found, limit, s, a, u
<1>10. ASSUME Len(found) > limit
       PROVE  /\ SubSeq(found, 1, limit) \in Seq(StoredEvents)
              /\ found[limit].cursor \in Tokens
  <2>1. Len(found) \in Nat /\ \A i \in 1..Len(found) : found[i] \in StoredEvents
    BY <1>8, LenProperties, ElementOfSeq
  <2>2. limit \in 1..Len(found) /\ \A i \in 1..limit : found[i] \in StoredEvents
    BY <1>3, <1>10, <2>1
  <2>3. SubSeq(found, 1, limit) \in Seq(StoredEvents)
    BY <1>3, <2>2, SubSeqProperties
  <2>4. QED
    BY <2>1, <2>2, <2>3 DEF StoredEvents
<1>11. /\ Page(found, limit) \in Seq(StoredEvents)
       /\ NextCursor(found, limit) \in Tokens \cup {Unset}
  BY <1>8, <1>10 DEF Page, NextCursor
<1>12. QED
  BY <1>1, <1>3, <1>4, <1>5, <1>6, <1>8, <1>9, <1>11 DEF K, found, limit, s, a, u

---------------------------------------------------------------------------
(* The type invariant by what it is about.                                  *)
StoreTypes ==
  /\ records \in [Stores -> Seq(StoredEvents)]
  /\ DOMAIN indices = Stores
  /\ \A st \in Stores : /\ DOMAIN indices[st] \subseteq EventIds
                        /\ \A id \in DOMAIN indices[st] :
                             indices[st][id] \in DOMAIN records[st]

ReaderTypes ==
  /\ phase \in [Readers -> {"idle", "reading", "done"}]
  /\ query \in [Readers -> Queries \cup {Unset}]
  /\ \A r \in Readers : phase[r] # "idle" => query[r] \in Queries
  /\ bound \in [Readers -> Tokens \cup {Unset}]
  /\ after \in [Readers -> Tokens \cup {Unset}]
  /\ collected \in [Readers -> Seq(StoredEvents)]

(* Types hold initially.                                                    *)
LEMMA TypeInit == Init => TypeOK
<1> SUFFICES ASSUME Init PROVE TypeOK
  OBVIOUS
<1>1. <<>> \in Seq(StoredEvents)
  BY EmptySeq
<1>2. \A st \in Stores : DOMAIN indices[st] = {}
  BY DEF Init
<1>3. StoreTypes
  BY <1>1, <1>2 DEF Init, StoreTypes
<1>4. ReaderTypes
  BY <1>1 DEF Init, ReaderTypes
<1>5. QED
  BY <1>3, <1>4 DEF TypeOK, StoreTypes, ReaderTypes

(* Types are kept by every step.                                            *)
LEMMA TypeStep == TypeOK /\ [Next]_vars => TypeOK'
<1> SUFFICES ASSUME TypeOK, [Next]_vars PROVE StoreTypes' /\ ReaderTypes'
  BY DEF TypeOK, StoreTypes, ReaderTypes
<1>0. StoreTypes /\ ReaderTypes
  BY DEF TypeOK, StoreTypes, ReaderTypes
<1>1. ASSUME NEW st \in Stores, NEW e \in Events, AppendEvent(st, e)
      PROVE  StoreTypes' /\ ReaderTypes'
  <2>1. ReaderTypes'
    BY <1>0, <1>1 DEF ReaderTypes, AppendEvent, readerVars
  <2>2. /\ records' \in [Stores -> Seq(StoredEvents)]
        /\ Len(records'[st]) = Len(records[st]) + 1
        /\ Len(records[st]) \in Nat
        /\ \A other \in Stores : other # st => records'[other] = records[other]
    BY <1>1, AppendGrows
  <2>3. /\ DOMAIN indices' = Stores
        /\ \A other \in Stores : other # st => indices'[other] = indices[other]
        /\ DOMAIN indices'[st] = DOMAIN indices[st] \cup {e.id}
        /\ \A id \in DOMAIN indices'[st] :
             indices'[st][id] = IF id = e.id THEN Len(records[st]) + 1
                                ELSE indices[st][id]
    BY <1>0, <1>1 DEF StoreTypes, AppendEvent
  <2>4. e.id \in EventIds
    BY DEF EventIds
  <2>5. DOMAIN records'[st] = 1..(Len(records[st]) + 1) /\ DOMAIN records[st] = 1..Len(records[st])
    BY <1>0, <2>2, LenProperties DEF StoreTypes
  <2>6. ASSUME NEW other \in Stores
        PROVE  /\ DOMAIN indices'[other] \subseteq EventIds
               /\ \A id \in DOMAIN indices'[other] :
                    indices'[other][id] \in DOMAIN records'[other]
    <3>1. CASE other # st
      BY <1>0, <2>2, <2>3, <3>1 DEF StoreTypes
    <3>2. CASE other = st
      <4>1. DOMAIN indices'[st] \subseteq EventIds
        BY <1>0, <2>3, <2>4 DEF StoreTypes
      <4>2. ASSUME NEW id \in DOMAIN indices'[st]
            PROVE  indices'[st][id] \in DOMAIN records'[st]
        <5>1. CASE id = e.id
          BY <2>2, <2>3, <2>5, <5>1
        <5>2. CASE id # e.id
          <6>1. indices'[st][id] = indices[st][id] /\ indices[st][id] \in 1..Len(records[st])
            BY <1>0, <2>3, <2>5, <5>2 DEF StoreTypes
          <6>2. QED
            BY <2>2, <2>5, <6>1
        <5>3. QED
          BY <5>1, <5>2
      <4>3. QED
        BY <3>2, <4>1, <4>2
    <3>3. QED
      BY <3>1, <3>2
  <2>7. StoreTypes'
    BY <2>2, <2>3, <2>6 DEF StoreTypes
  <2>8. QED
    BY <2>1, <2>7
<1>2. ASSUME NEW r \in Readers, NEW q \in Queries, StartReplay(r, q)
      PROVE  StoreTypes' /\ ReaderTypes'
  BY <1>0, <1>2 DEF StoreTypes, ReaderTypes, StartReplay
<1>3. ASSUME NEW r \in Readers, NEW q \in Queries, NEW st \in Stores,
             CaptureCheckpoint(r, q, st)
      PROVE  StoreTypes' /\ ReaderTypes'
  <2>1. Token("checkpoint", st, Len(records[st])) \in Tokens
    BY <1>0, LenProperties DEF StoreTypes, Token, Tokens
  <2>2. StoreTypes'
    BY <1>0, <1>3 DEF StoreTypes, CaptureCheckpoint
  <2>3. ReaderTypes'
    BY <1>0, <1>3, <2>1 DEF ReaderTypes, CaptureCheckpoint
  <2>4. QED
    BY <2>2, <2>3
<1>4. ASSUME NEW r \in Readers, NEW st \in Stores, QueryPage(r, st)
      PROVE  StoreTypes' /\ ReaderTypes'
  <2>1. StoreTypes'
    BY <1>0, <1>4 DEF StoreTypes, QueryPage
  <2> DEFINE limit == query[r].limit
             found == Found(st, query[r], Start(after[r]), UpperBound(st, bound[r]))
  <2>2. /\ Page(found, limit) \in Seq(StoredEvents)
        /\ NextCursor(found, limit) \in Tokens \cup {Unset}
    BY <1>4, PageType
  <2>3. /\ phase[r] = "reading"
        /\ collected' = [collected EXCEPT ![r] = @ \o Page(found, limit)]
        /\ after' = [after EXCEPT ![r] = NextCursor(found, limit)]
        /\ phase' = [phase EXCEPT
                       ![r] = IF Len(found) > limit THEN "reading" ELSE "done"]
        /\ UNCHANGED <<query, bound>>
    BY <1>4 DEF QueryPage
  <2> HIDE DEF found, limit
  <2>4. collected[r] \o Page(found, limit) \in Seq(StoredEvents)
    BY <1>0, <2>2, ConcatProperties DEF ReaderTypes
  <2>5. ReaderTypes'
    BY <1>0, <2>2, <2>3, <2>4 DEF ReaderTypes
  <2>6. QED
    BY <2>1, <2>5
<1>5. ASSUME NEW r \in Readers, QueryRefused(r)
      PROVE  StoreTypes' /\ ReaderTypes'
  BY <1>0, <1>5 DEF StoreTypes, ReaderTypes, QueryRefused
<1>6. CASE UNCHANGED vars
  BY <1>0, <1>6 DEF vars, readerVars, StoreTypes, ReaderTypes
<1>7. QED
  BY <1>1, <1>2, <1>3, <1>4, <1>5, <1>6 DEF Next

(* Records, indices, tokens and pages keep their types; the index never     *)
(* points outside the records.                                              *)
THEOREM StoreIsTyped == Spec => []TypeOK
<1>1. QED
  BY TypeInit, TypeStep, PTL DEF Spec

---------------------------------------------------------------------------
(* A record of a store is never changed, removed or moved by any step.      *)
THEOREM StoreIsAppendOnly == Spec => AppendOnly
<1> DEFINE Kept == \A st \in Stores :
                     records[st] = SubSeq(records'[st], 1, Len(records[st]))
<1>1. TypeOK /\ [Next]_vars => [Kept]_vars
  <2> SUFFICES ASSUME TypeOK, Next PROVE Kept
    OBVIOUS
  <2>1. ASSUME NEW st \in Stores, NEW e \in Events, AppendEvent(st, e),
               NEW other \in Stores
        PROVE  records[other] = SubSeq(records'[other], 1, Len(records[other]))
    <3> DEFINE old == records[other]
               new == records'[other]
    <3>1. /\ old \in Seq(StoredEvents) /\ Len(old) \in Nat
          /\ new \in Seq(StoredEvents) /\ Len(new) \in Nat
          /\ Len(old) <= Len(new)
          /\ \A i \in 1..Len(old) : new[i] = old[i]
      BY <2>1, AppendGrows, LenProperties DEF TypeOK
    <3> HIDE DEF old, new
    <3>2. \A i \in 1..Len(old) : new[i] \in StoredEvents
      BY <3>1, ElementOfSeq
    <3>3. /\ SubSeq(new, 1, Len(old)) \in Seq(StoredEvents)
          /\ Len(SubSeq(new, 1, Len(old))) = Len(old)
          /\ \A i \in 1..Len(old) : SubSeq(new, 1, Len(old))[i] = new[i]
      BY <3>1, <3>2, SubSeqProperties
    <3>4. old = SubSeq(new, 1, Len(old))
      BY <3>1, <3>3, SeqEqual
    <3>5. QED
      BY <3>4 DEF old, new
  <2>2. ASSUME UNCHANGED records, NEW st \in Stores
        PROVE  records[st] = SubSeq(records'[st], 1, Len(records[st]))
    <3>1. records[st] \in Seq(StoredEvents)
      BY DEF TypeOK
    <3>2. QED
      BY <2>2, <3>1, SubSeqFull
  <2>3. \/ \E st \in Stores, e \in Events : AppendEvent(st, e)
        \/ UNCHANGED records
    BY DEF Next, StartReplay, CaptureCheckpoint, QueryPage, QueryRefused
  <2>4. QED
    BY <2>1, <2>2, <2>3
<1>2. QED
  BY <1>1, StoreIsTyped, PTL DEF Spec, AppendOnly

---------------------------------------------------------------------------
(* The agreement of index and records is kept by every step.                *)
LEMMA IndexStep == TypeOK /\ IndexInv /\ [Next]_vars => IndexInv'
<1> DEFINE Good(st, i) ==
             /\ records[st][i].cursor = Token("cursor", st, i)
             /\ records[st][i].event.id \in DOMAIN indices[st]
             /\ Get(st, records[st][i].event.id) = records[st][i]
           Sound(st) == /\ \A i \in DOMAIN records[st] : Good(st, i)
                        /\ Cardinality(DOMAIN indices[st]) = Len(records[st])
                        /\ IsFiniteSet(DOMAIN indices[st])
<1> SUFFICES ASSUME TypeOK, IndexInv, [Next]_vars, NEW other \in Stores
             PROVE  Sound(other)'
  BY DEF IndexInv, IndexMatchesRecords
<1>0. Sound(other)
  BY DEF IndexInv, IndexMatchesRecords
<1>1. ASSUME records'[other] = records[other], indices'[other] = indices[other]
      PROVE  Sound(other)'
  <2>1. \A i \in DOMAIN records'[other] : Good(other, i)'
    BY <1>0, <1>1 DEF Get
  <2>2. QED
    BY <1>0, <1>1, <2>1
<1>2. ASSUME NEW st \in Stores, NEW e \in Events, AppendEvent(st, e)
      PROVE  Sound(other)'
  <2> DEFINE n == Len(records[st])
             record == [cursor |-> Token("cursor", st, n + 1), event |-> e]
  <2>1. /\ records' \in [Stores -> Seq(StoredEvents)]
        /\ Len(records'[st]) = n + 1
        /\ records'[st][n + 1] = record
        /\ n \in Nat
        /\ \A i \in 1..n : records'[st][i] = records[st][i]
        /\ other # st => records'[other] = records[other]
    BY <1>2, AppendGrows
  <2>2. /\ e.id \notin DOMAIN indices[st]
        /\ other # st => indices'[other] = indices[other]
        /\ DOMAIN indices'[st] = DOMAIN indices[st] \cup {e.id}
        /\ \A id \in DOMAIN indices'[st] :
             indices'[st][id] = IF id = e.id THEN n + 1 ELSE indices[st][id]
    BY <1>2 DEF TypeOK, AppendEvent
  <2>3. DOMAIN records'[st] = 1..(n + 1) /\ DOMAIN records[st] = 1..n
    BY <2>1, LenProperties DEF TypeOK
  <2>4. CASE other # st
    BY <1>1, <2>1, <2>2, <2>4
  <2>5. CASE other = st
    <3>1. ASSUME NEW i \in 1..(n + 1) PROVE Good(st, i)'
      <4>1. CASE i = n + 1
        <5>1. records'[st][i].cursor = Token("cursor", st, i) /\ records'[st][i].event = e
          BY <2>1, <4>1
        <5>2. e.id \in DOMAIN indices'[st] /\ indices'[st][e.id] = n + 1
          BY <2>2
        <5>3. QED
          BY <4>1, <5>1, <5>2 DEF Get
      <4>2. CASE i # n + 1
        <5>1. i \in 1..n /\ records'[st][i] = records[st][i]
          BY <2>1, <4>2
        <5>2. Good(st, i)
          BY <1>0, <2>3, <2>5, <5>1
        <5> DEFINE id == records[st][i].event.id
        <5>3. /\ id \in DOMAIN indices[st] /\ id # e.id
              /\ records[st][indices[st][id]] = records[st][i]
          BY <2>2, <5>2 DEF Get
        <5>4. indices[st][id] \in 1..n
          BY <2>3, <5>3 DEF TypeOK
        <5>5. id \in DOMAIN indices'[st] /\ indices'[st][id] = indices[st][id]
          BY <2>2, <5>3
        <5>6. records'[st][indices'[st][id]] = records[st][i]
          BY <2>1, <5>3, <5>4, <5>5
        <5>7. QED
          BY <5>1, <5>2, <5>5, <5>6 DEF Get
      <4>3. QED
        BY <4>1, <4>2
    <3>2. /\ Cardinality(DOMAIN indices'[st]) = Cardinality(DOMAIN indices[st]) + 1
          /\ IsFiniteSet(DOMAIN indices'[st])
      BY <1>0, <2>2, <2>5, FS_AddElement
    <3>3. QED
      BY <1>0, <2>1, <2>3, <2>5, <3>1, <3>2
  <2>6. QED
    BY <2>4, <2>5
<1>3. \/ \E st \in Stores, e \in Events : AppendEvent(st, e)
      \/ UNCHANGED <<records, indices>>
  BY DEF Next, StartReplay, CaptureCheckpoint, QueryPage, QueryRefused, vars
<1>4. QED
  BY <1>1, <1>2, <1>3

(* Index and records always agree.                                          *)
LEMMA IndexAlways == Spec => []IndexInv
<1>1. Init => IndexInv
  <2> SUFFICES ASSUME Init, NEW st \in Stores
               PROVE  /\ DOMAIN records[st] = {} /\ DOMAIN indices[st] = {}
                      /\ Len(records[st]) = 0
    BY FS_EmptySet DEF IndexInv, IndexMatchesRecords
  <2>1. QED
    BY EmptySeq DEF Init
<1>2. QED
  BY <1>1, IndexStep, StoreIsTyped, PTL DEF Spec

(* get finds the one record with an id, no event is stored twice, and the   *)
(* cursor of a record is its position, for any interleaving of appends.     *)
THEOREM IndexIsFaithful == Spec => []IndexMatchesRecords
<1>1. IndexInv => IndexMatchesRecords
  BY DEF IndexInv
<1>2. QED
  BY <1>1, IndexAlways, PTL

---------------------------------------------------------------------------
(* A beginning of two sequences that reaches into the second.               *)
LEMMA ConcatPrefix ==
  ASSUME NEW S, NEW u \in Seq(S), NEW v \in Seq(S), NEW n \in 1..Len(v)
  PROVE  /\ SubSeq(u \o v, 1, Len(u) + n) = u \o SubSeq(v, 1, n)
         /\ (u \o v)[Len(u) + n] = v[n]
         /\ Len(u) + n \in 1..Len(u \o v)
<1> DEFINE w == u \o v
           p == SubSeq(v, 1, n)
           l == SubSeq(w, 1, Len(u) + n)
           x == u \o p
           lu == Len(u)
           lv == Len(v)
<1>1. lu \in Nat /\ lv \in Nat /\ n \in 1..lv
  BY LenProperties
<1>2. /\ w \in Seq(S) /\ Len(w) = lu + lv
      /\ \A i \in 1..(lu + lv) : w[i] = IF i <= lu THEN u[i] ELSE v[i - lu]
      /\ \A i \in 1..(lu + lv) : w[i] \in S
      /\ \A i \in 1..lv : v[i] \in S
  BY ConcatProperties, ElementOfSeq
<1> HIDE DEF w, lu, lv
<1>3. /\ p \in Seq(S) /\ Len(p) = n
      /\ \A i \in 1..n : p[i] = v[i]
  <2>1. n \in Int /\ 1 <= n /\ \A i \in 1..n : v[i] \in S
    BY <1>1, <1>2
  <2>2. QED
    BY <2>1, SubSeqProperties
<1>4. /\ l \in Seq(S) /\ Len(l) = lu + n
      /\ \A i \in 1..(lu + n) : l[i] = w[i]
  <2> DEFINE m == lu + n
  <2>1. m \in Int /\ 1 <= m /\ \A i \in 1..m : w[i] \in S
    BY <1>1, <1>2
  <2>2. l = SubSeq(w, 1, m)
    BY DEF lu
  <2> HIDE DEF m, l
  <2>3. /\ SubSeq(w, 1, m) \in Seq(S) /\ Len(SubSeq(w, 1, m)) = m
        /\ \A i \in 1..m : SubSeq(w, 1, m)[i] = w[i]
    BY <2>1, SubSeqProperties
  <2>4. QED
    BY <2>2, <2>3 DEF m
<1> HIDE DEF p, l
<1>5. /\ x \in Seq(S) /\ Len(x) = lu + n
      /\ \A i \in 1..(lu + n) : x[i] = IF i <= lu THEN u[i] ELSE p[i - lu]
  BY <1>3, ConcatProperties DEF lu
<1> HIDE DEF x
<1>6. ASSUME NEW i \in 1..(lu + n) PROVE l[i] = x[i]
  <2>1. i \in 1..(lu + lv) /\ (i > lu => i - lu \in 1..n)
    BY <1>1
  <2>2. l[i] = w[i]
    BY <1>4
  <2>3. CASE i <= lu
    <3>1. w[i] = u[i]
      BY <1>2, <2>1, <2>3
    <3>2. x[i] = u[i]
      BY <1>5, <2>3
    <3>3. QED
      BY <2>2, <3>1, <3>2
  <2>4. CASE ~(i <= lu)
    <3>1. w[i] = v[i - lu]
      BY <1>2, <2>1, <2>4
    <3>2. x[i] = p[i - lu]
      BY <1>5, <2>4
    <3>3. i - lu \in 1..n
      BY <1>1, <2>4
    <3>4. QED
      BY <1>3, <2>2, <3>1, <3>2, <3>3
  <2>5. QED
    BY <2>3, <2>4
<1>7. l = x
  BY <1>4, <1>5, <1>6, SeqEqual
<1>8. lu + n \in 1..(lu + lv) /\ ~(lu + n <= lu) /\ (lu + n) - lu = n
  BY <1>1
<1>9. w[lu + n] = v[n] /\ lu + n \in 1..Len(w)
  BY <1>2, <1>8
<1>10. QED
  BY <1>7, <1>9 DEF l, x, p, w, lu

(* What the readers hold is kept by every step.                             *)
LEMMA ReplayStep ==
  TypeOK /\ TypeOK' /\ IndexInv /\ ReplayInv /\ [Next]_vars => ReplayInv'
<1> DEFINE Reached(o) ==
             /\ after[o] # Unset => after[o].position \in 1..Len(records[after[o].store])
             /\ bound[o] # Unset => bound[o].position \in 0..Len(records[bound[o].store])
           Fresh(o) == phase[o] = "idle" => /\ after[o] = Unset
                                            /\ bound[o] = Unset
                                            /\ collected[o] = <<>>
           Midway(o) ==
             /\ after[o] # Unset /\ Valid(query[o]) /\ collected[o] # <<>>
             /\ after[o] = collected[o][Len(collected[o])].cursor
             /\ collected[o] =
                  Matching(records[after[o].store], query[o], after[o].position)
           Reads(o) == phase[o] = "reading" =>
                         (after[o] = Unset /\ collected[o] = <<>>) \/ Midway(o)
           Whole(o, st, n) ==
             /\ collected[o] = Matching(records[st], query[o], n)
             /\ bound[o] # Unset => bound[o].store = st /\ bound[o].position = n
           Finished(o) == phase[o] = "done" =>
                            \E st \in Stores : \E n \in 0..Len(records[st]) : Whole(o, st, n)
           Held(o) == Reached(o) /\ Fresh(o) /\ Reads(o) /\ Finished(o)
           SameReader(o) == /\ phase'[o] = phase[o]
                            /\ query'[o] = query[o]
                            /\ bound'[o] = bound[o]
                            /\ after'[o] = after[o]
                            /\ collected'[o] = collected[o]
           Grown == \A st \in Stores :
                      /\ records[st] \in Seq(StoredEvents)
                      /\ records'[st] \in Seq(StoredEvents)
                      /\ Len(records[st]) \in Nat /\ Len(records'[st]) \in Nat
                      /\ Len(records[st]) <= Len(records'[st])
                      /\ \A i \in 1..Len(records[st]) : records'[st][i] = records[st][i]
<1> SUFFICES ASSUME TypeOK, TypeOK', IndexInv, ReplayInv, [Next]_vars, NEW o \in Readers
             PROVE  Held(o)'
  BY DEF ReplayInv, TokensReached, IdleIsEmpty, ReadingInv, DoneInv
<1>0. Held(o)
  BY DEF ReplayInv, TokensReached, IdleIsEmpty, ReadingInv, DoneInv
<1>1. /\ after[o] # Unset => after[o] \in Tokens
      /\ bound[o] # Unset => bound[o] \in Tokens
      /\ \A k \in Tokens : k.store \in Stores /\ k.position \in Nat
  BY DEF TypeOK, Tokens
<1>2. ASSUME Grown, NEW st \in Stores, NEW q, NEW n \in 0..Len(records[st])
      PROVE  /\ n \in 0..Len(records'[st])
             /\ Matching(records'[st], q, n) = Matching(records[st], q, n)
  <2> DEFINE s == records[st]
             t == records'[st]
  <2>1. /\ s \in Seq(StoredEvents) /\ t \in Seq(StoredEvents)
        /\ n \in 0..Len(s) /\ n \in 0..Len(t) /\ \A i \in 1..n : s[i] = t[i]
    BY <1>2
  <2> HIDE DEF s, t
  <2>2. Matching(s, q, n) = Matching(t, q, n)
    BY <2>1, MatchingStays
  <2>3. QED
    BY <2>1, <2>2 DEF s, t
<1>3. ASSUME Grown, SameReader(o)
      PROVE  Held(o)'
  <2>1. Reached(o)'
    <3>1. ASSUME NEW st \in Stores, NEW n \in Nat, n <= Len(records[st])
          PROVE  n <= Len(records'[st])
      BY <1>3, <3>1
    <3>2. ASSUME after[o] # Unset
          PROVE  after[o].position \in 1..Len(records'[after[o].store])
      <4>1. /\ after[o].store \in Stores /\ after[o].position \in Nat
            /\ 1 <= after[o].position
            /\ after[o].position <= Len(records[after[o].store])
        BY <1>0, <1>1, <3>2
      <4>2. Len(records'[after[o].store]) \in Nat
        BY <1>3, <4>1
      <4>3. QED
        BY <3>1, <4>1, <4>2
    <3>3. ASSUME bound[o] # Unset
          PROVE  bound[o].position \in 0..Len(records'[bound[o].store])
      <4>1. /\ bound[o].store \in Stores /\ bound[o].position \in Nat
            /\ bound[o].position <= Len(records[bound[o].store])
        BY <1>0, <1>1, <3>3
      <4>2. Len(records'[bound[o].store]) \in Nat
        BY <1>3, <4>1
      <4>3. QED
        BY <3>1, <4>1, <4>2
    <3>4. QED
      BY <1>3, <3>2, <3>3
  <2>2. Fresh(o)'
    BY <1>0, <1>3
  <2>3. Reads(o)'
    <3>1. ASSUME Midway(o)
          PROVE  Midway(o)'
      <4>1. after[o].store \in Stores
        BY <1>1, <3>1
      <4>2. Len(records[after[o].store]) \in Nat
        BY <1>3, <4>1
      <4>3. after[o].position \in 1..Len(records[after[o].store])
        BY <1>0, <3>1
      <4>4. after[o].position \in 0..Len(records[after[o].store])
        BY <4>2, <4>3
      <4>5. Matching(records'[after[o].store], query[o], after[o].position) =
              Matching(records[after[o].store], query[o], after[o].position)
        BY <1>2, <1>3, <4>1, <4>4
      <4>6. QED
        BY <1>3, <3>1, <4>5
    <3>2. QED
      BY <1>0, <1>3, <3>1
  <2>4. Finished(o)'
    <3> SUFFICES ASSUME phase[o] = "done"
                 PROVE  \E st \in Stores : \E n \in 0..Len(records'[st]) : Whole(o, st, n)'
      BY <1>3
    <3>1. PICK st \in Stores : \E n \in 0..Len(records[st]) : Whole(o, st, n)
      BY <1>0
    <3>2. PICK n \in 0..Len(records[st]) : Whole(o, st, n)
      BY <3>1
    <3>3. /\ n \in 0..Len(records'[st])
          /\ Matching(records'[st], query[o], n) = Matching(records[st], query[o], n)
      BY <1>2, <1>3
    <3>4. Whole(o, st, n)'
      BY <1>3, <3>2, <3>3
    <3>5. QED
      BY <3>3, <3>4
  <2>5. QED
    BY <2>1, <2>2, <2>3, <2>4
<1>4. UNCHANGED records => Grown
  BY LenProperties DEF TypeOK
<1>5. ASSUME NEW st \in Stores, NEW e \in Events, AppendEvent(st, e)
      PROVE  Held(o)'
  <2>1. Grown
    BY <1>5, AppendGrows, LenProperties DEF TypeOK
  <2>2. SameReader(o)
    BY <1>5 DEF AppendEvent, readerVars
  <2>3. QED
    BY <1>3, <2>1, <2>2
<1>6. ASSUME NEW r \in Readers, NEW q \in Queries, StartReplay(r, q)
      PROVE  Held(o)'
  <2>1. UNCHANGED records
    BY <1>6 DEF StartReplay
  <2>2. CASE o # r
    <3>1. SameReader(o)
      BY <1>6, <2>2 DEF StartReplay, TypeOK
    <3>2. QED
      BY <1>3, <1>4, <2>1, <3>1
  <2>3. CASE o = r
    BY <1>0, <1>6, <2>3 DEF StartReplay, TypeOK
  <2>4. QED
    BY <2>2, <2>3
<1>7. ASSUME NEW r \in Readers, NEW q \in Queries, NEW st \in Stores,
             CaptureCheckpoint(r, q, st)
      PROVE  Held(o)'
  <2>1. UNCHANGED records
    BY <1>7 DEF CaptureCheckpoint
  <2>2. CASE o # r
    <3>1. SameReader(o)
      BY <1>7, <2>2 DEF CaptureCheckpoint, TypeOK
    <3>2. QED
      BY <1>3, <1>4, <2>1, <3>1
  <2>3. CASE o = r
    <3>1. /\ phase[o] = "idle" /\ phase'[o] = "reading"
          /\ after'[o] = after[o] /\ collected'[o] = collected[o]
          /\ bound'[o] = Token("checkpoint", st, Len(records[st]))
      BY <1>7, <2>3 DEF CaptureCheckpoint, TypeOK
    <3>2. Len(records[st]) \in 0..Len(records[st])
      BY LenProperties DEF TypeOK
    <3>3. QED
      BY <1>0, <2>1, <3>1, <3>2 DEF Token
  <2>4. QED
    BY <2>2, <2>3
<1>8. ASSUME NEW r \in Readers, QueryRefused(r)
      PROVE  Held(o)'
  <2>1. UNCHANGED records
    BY <1>8 DEF QueryRefused
  <2>2. CASE o # r
    <3>1. SameReader(o)
      BY <1>8, <2>2 DEF QueryRefused, TypeOK
    <3>2. QED
      BY <1>3, <1>4, <2>1, <3>1
  <2>3. CASE o = r
    <3>1. /\ phase[o] = "reading" /\ phase'[o] = "idle" /\ ~Valid(query[o])
          /\ after'[o] = after[o] /\ collected'[o] = collected[o]
          /\ bound'[o] = Unset
      BY <1>8, <2>3 DEF QueryRefused, TypeOK
    <3>2. QED
      BY <1>0, <2>1, <3>1
  <2>4. QED
    BY <2>2, <2>3
<1>9. ASSUME NEW r \in Readers, NEW st \in Stores, QueryPage(r, st)
      PROVE  Held(o)'
  <2>1. UNCHANGED records
    BY <1>9 DEF QueryPage
  <2>2. CASE o # r
    <3>1. SameReader(o)
      BY <1>9, <2>2 DEF QueryPage, TypeOK
    <3>2. QED
      BY <1>3, <1>4, <2>1, <3>1
  <2>3. CASE o = r
    <3> DEFINE s == records[st]
               q == query[r]
               a == Start(after[r])
               u == UpperBound(st, bound[r])
               limit == q.limit
               found == Selected(s, {i \in (a + 1)..u : Matches(q, s[i].event)}, u)
               whole == Matching(s, q, u)
    <3>1. /\ s \in Seq(StoredEvents) /\ Len(s) \in Nat
          /\ u \in 0..Len(s) /\ a \in 0..u
          /\ limit \in Nat /\ limit >= 1 /\ Valid(q)
          /\ after[r] # Unset => after[r].store = st /\ a = after[r].position
          /\ after[r] = Unset => a = 0
          /\ bound[r] # Unset => bound[r].store = st /\ bound[r].position = u
          /\ found \in Seq(StoredEvents)
          /\ Found(st, q, a, u) = found
      BY <1>9, PageType
    <3>2. /\ phase[r] = "reading"
          /\ collected'[r] = collected[r] \o Page(found, limit)
          /\ after'[r] = NextCursor(found, limit)
          /\ phase'[r] = IF Len(found) > limit THEN "reading" ELSE "done"
          /\ query'[r] = q /\ bound'[r] = bound[r]
      BY <1>9, <3>1 DEF QueryPage, TypeOK
    <3>3. collected[r] = Matching(s, q, a) /\ collected[r] \in Seq(StoredEvents)
      <4>1. Matching(s, q, 0) = <<>>
        BY <3>1, MatchingType
      <4>2. QED
        BY <1>0, <2>3, <3>1, <3>2, <4>1 DEF TypeOK
    <3>4. whole = collected[r] \o found
      <4> HIDE DEF s, a, u, q
      <4>1. Matching(s, q, u) =
              Matching(s, q, a)
                \o Selected(s, {i \in (a + 1)..u : Matches(q, s[i].event)}, u)
        BY <3>1, MatchingGoesOn, SMTT(30)
      <4>2. QED
        BY <3>3, <4>1 DEF whole, found
    <3>5. Reached(r) /\ s = records'[st]
      BY <1>0, <2>1, <2>3
    <3> HIDE DEF s, a, u, limit, found, whole
    <3>6. CASE Len(found) > limit
      <4> DEFINE m == Len(collected[r]) + limit
      <4>1. limit \in 1..Len(found)
        BY <3>1, <3>6, LenProperties
      <4>2. /\ SubSeq(whole, 1, m) = collected[r] \o SubSeq(found, 1, limit)
            /\ whole[m] = found[limit]
            /\ m \in 1..Len(whole)
        <5> DEFINE c == collected[r]
                   f == found
        <5>1. c \in Seq(StoredEvents) /\ f \in Seq(StoredEvents) /\ limit \in 1..Len(f)
          BY <3>1, <3>3, <4>1
        <5> HIDE DEF c, f
        <5>2. /\ SubSeq(c \o f, 1, Len(c) + limit) = c \o SubSeq(f, 1, limit)
              /\ (c \o f)[Len(c) + limit] = f[limit]
              /\ Len(c) + limit \in 1..Len(c \o f)
          BY <5>1, ConcatPrefix
        <5>3. QED
          BY <3>4, <5>2 DEF c, f
      <4>3. collected'[r] = SubSeq(whole, 1, m)
        BY <3>2, <3>6, <4>2 DEF Page
      <4> HIDE DEF m
      <4>4. PICK k \in 1..u : whole[m] = s[k] /\ SubSeq(whole, 1, m) = Matching(s, q, k)
        BY <3>1, <4>2, MatchingCut DEF whole
      <4>5. k \in 1..Len(s) /\ DOMAIN s = 1..Len(s)
        BY <3>1, <4>4, LenProperties
      <4>6. s[k].cursor = Token("cursor", st, k)
        BY <4>5 DEF IndexInv, IndexMatchesRecords, s
      <4>7. after'[r] = Token("cursor", st, k)
        BY <3>2, <3>6, <4>2, <4>4, <4>6 DEF NextCursor
      <4>8. after'[r] # Unset /\ after'[r].store = st /\ after'[r].position = k
        <5>1. Token("cursor", st, k) \in Tokens
          BY <3>1, <4>5 DEF Token, Tokens
        <5>2. QED
          BY <4>7, <5>1, StoreAssumption DEF Token
      <4>9. /\ Len(collected'[r]) = m /\ collected'[r][m] = whole[m]
            /\ collected'[r] # <<>>
        <5>1. whole \in Seq(StoredEvents)
          BY <3>1, MatchingType DEF whole
        <5>2. m \in Int /\ 1 <= m /\ \A i \in 1..m : whole[i] \in StoredEvents
          BY <4>2, <5>1, LenProperties, ElementOfSeq
        <5>3. Len(SubSeq(whole, 1, m)) = m /\ SubSeq(whole, 1, m)[m] = whole[m]
          BY <5>2, SubSeqProperties
        <5>4. collected'[r] # <<>>
          <6>1. Len(<<>>) = 0
            OBVIOUS
          <6>2. Len(collected'[r]) # 0
            BY <4>3, <5>2, <5>3
          <6>3. QED
            BY <6>1, <6>2
        <5>5. QED
          BY <4>3, <5>3, <5>4
      <4>10. Midway(r)'
        BY <3>1, <3>2, <3>5, <4>3, <4>4, <4>6, <4>7, <4>8, <4>9
      <4>11. Reached(r)'
        BY <2>1, <3>2, <3>5, <4>5, <4>8
      <4>12. phase'[r] = "reading"
        BY <3>2, <3>6
      <4>13. QED
        BY <2>3, <4>10, <4>11, <4>12
    <3>7. CASE ~(Len(found) > limit)
      <4>1. /\ collected'[r] = whole /\ after'[r] = Unset /\ phase'[r] = "done"
        BY <3>2, <3>4, <3>7 DEF Page, NextCursor
      <4>2. PICK n \in Nat : n = u
        BY <3>1
      <4>3. /\ n \in 0..Len(records'[st])
            /\ collected'[r] = Matching(records'[st], query'[r], n)
            /\ bound'[r] # Unset => bound'[r].store = st /\ bound'[r].position = n
        BY <3>1, <3>2, <3>5, <4>1, <4>2 DEF whole
      <4>4. Whole(r, st, n)'
        BY <4>3
      <4>5. Reached(r)'
        BY <2>1, <3>2, <3>5, <4>1
      <4>6. Finished(r)'
        BY <4>3, <4>4
      <4>7. QED
        BY <2>3, <4>1, <4>5, <4>6
    <3>8. QED
      BY <3>6, <3>7
  <2>4. QED
    BY <2>2, <2>3
<1>10. CASE UNCHANGED vars
  <2>1. UNCHANGED records /\ SameReader(o)
    BY <1>10 DEF vars, readerVars
  <2>2. QED
    BY <1>3, <1>4, <2>1
<1>11. QED
  BY <1>5, <1>6, <1>7, <1>8, <1>9, <1>10 DEF Next

(* What the readers hold is what the argument says, always.                 *)
LEMMA ReplayAlways == Spec => []ReplayInv
<1>1. Init => ReplayInv
  BY DEF Init, ReplayInv, TokensReached, IdleIsEmpty, ReadingInv, DoneInv
<1>2. QED
  BY <1>1, ReplayStep, IndexAlways, StoreIsTyped, PTL DEF Spec

(* A replay that is paged through while others append, from its own store   *)
(* or from another, never skips, repeats or reorders a record: the pages so *)
(* far are what the query matches up to the cursor of the last record.      *)
THEOREM ReplayHasNoGap == Spec => []PagesHaveNoGap
<1>1. ASSUME TypeOK, IndexInv, ReplayInv
      PROVE  PagesHaveNoGap
  <2> SUFFICES ASSUME NEW r \in Readers, collected[r] # <<>>
               PROVE  LET last == collected[r][Len(collected[r])].cursor
                      IN  /\ collected[r] =
                               Matching(records[last.store], query[r], last.position)
                          /\ phase[r] = "reading" => after[r] = last
    BY DEF PagesHaveNoGap, MatchingUpTo, Matching
  <2>1. CASE phase[r] = "reading"
    BY <1>1, <2>1 DEF ReplayInv, ReadingInv
  <2>2. CASE phase[r] = "done"
    <3>1. PICK st \in Stores :
            \E n \in 0..Len(records[st]) : collected[r] = Matching(records[st], query[r], n)
      BY <1>1, <2>2 DEF ReplayInv, DoneInv
    <3>2. PICK n \in 0..Len(records[st]) : collected[r] = Matching(records[st], query[r], n)
      BY <3>1
    <3> DEFINE s == records[st]
               q == query[r]
               c == collected[r]
               m == Len(c)
    <3>3. /\ s \in Seq(StoredEvents) /\ n \in 0..Len(s) /\ c = Matching(s, q, n)
          /\ c \in Seq(StoredEvents) /\ c # <<>>
      BY <1>1, <3>2 DEF TypeOK
    <3> HIDE DEF s, q, c
    <3>4. m \in 1..Len(c) /\ Len(s) \in Nat
      BY <3>3, EmptySeq, LenProperties
    <3>5. SubSeq(c, 1, m) = c
      BY <3>3, SubSeqFull
    <3> HIDE DEF m
    <3>6. PICK k \in 1..n : c[m] = s[k] /\ SubSeq(c, 1, m) = Matching(s, q, k)
      BY <3>3, <3>4, MatchingCut
    <3>7. k \in 1..Len(s) /\ DOMAIN s = 1..Len(s)
      BY <3>3, <3>4, <3>6, LenProperties
    <3>8. s[k].cursor = Token("cursor", st, k)
      BY <1>1, <3>7 DEF IndexInv, IndexMatchesRecords, s
    <3>9. c[m].cursor.store = st /\ c[m].cursor.position = k
      BY <3>6, <3>8 DEF Token
    <3>10. QED
      BY <2>2, <3>5, <3>6, <3>9 DEF s, q, c, m
  <2>3. CASE phase[r] = "idle"
    BY <1>1, <2>3 DEF ReplayInv, IdleIsEmpty
  <2>4. QED
    BY <1>1, <2>1, <2>2, <2>3 DEF TypeOK
<1>2. QED
  BY <1>1, StoreIsTyped, IndexAlways, ReplayAlways, PTL

(* A replay up to a checkpoint ends with exactly what the store held when   *)
(* the checkpoint was captured, however many pages it took and whatever was *)
(* appended in the meantime.                                                *)
THEOREM ReplayShowsTheCheckpoint == Spec => []ReplayIsSnapshot
<1>1. ReplayInv => ReplayIsSnapshot
  BY DEF ReplayInv, DoneInv, ReplayIsSnapshot, MatchingUpTo, Matching
<1>2. QED
  BY <1>1, ReplayAlways, PTL
=============================================================================
