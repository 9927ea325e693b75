------------------------- MODULE SessionStreamProofs -------------------------
(***************************************************************************)
(* What the client of a WebSocketSession sees.  The coordinator and every  *)
(* pump write to one channel, and the writer takes from it; the stream is  *)
(* what was written, what is being written and what waits.  The proofs     *)
(* follow it through the steps: the writer moves messages and leaves out   *)
(* pings, pongs and, when it ends, what it has not written; every other    *)
(* step leaves the stream as it is or appends one message.                 *)
(***************************************************************************)
EXTENDS WebSocketSessionProofs

---------------------------------------------------------------------------
(* Lists.                                                                   *)

(* A sequence of whatever it holds.                                         *)
IsList(q) == q \in Seq({q[i] : i \in DOMAIN q})

(* A sequence over any set is one.                                          *)
LEMMA SeqIsList ==
  ASSUME NEW T, NEW q \in Seq(T)
  PROVE  IsList(q) /\ Len(q) \in Nat /\ DOMAIN q = 1..Len(q)
<1> DEFINE U == {q[i] : i \in DOMAIN q}
           n == Len(q)
<1>1. n \in Nat /\ DOMAIN q = 1..n /\ q \in [1..n -> T]
  BY LenProperties
<1>2. \A i \in 1..n : q[i] \in U
  BY <1>1
<1> HIDE DEF U, n
<1>3. q \in [1..n -> U]
  BY <1>1, <1>2
<1>4. q \in Seq(U)
  BY <1>1, <1>3, IsASeq
<1>5. QED
  BY <1>1, <1>4 DEF IsList, U, n

(* The length and the domain of a list.                                     *)
LEMMA ListLength ==
  ASSUME NEW q, IsList(q)
  PROVE  Len(q) \in Nat /\ DOMAIN q = 1..Len(q)
<1> DEFINE U == {q[i] : i \in DOMAIN q}
<1>1. q \in Seq(U)
  BY DEF IsList
<1> HIDE DEF U
<1>2. QED
  BY <1>1, LenProperties

(* Appending an element.                                                    *)
LEMMA AppendList ==
  ASSUME NEW q, IsList(q), NEW m
  PROVE  /\ IsList(Append(q, m))
         /\ Len(Append(q, m)) = Len(q) + 1
         /\ DOMAIN Append(q, m) = 1..(Len(q) + 1)
         /\ \A i \in 1..Len(q) : Append(q, m)[i] = q[i]
         /\ Append(q, m)[Len(q) + 1] = m
<1> DEFINE U == {q[i] : i \in DOMAIN q}
           V == U \cup {m}
<1>1. q \in Seq(U)
  BY DEF IsList
<1> HIDE DEF U
<1>2. U \subseteq V /\ m \in V
  OBVIOUS
<1>3. q \in Seq(V)
  <2>1. Len(q) \in Nat /\ q \in [1..Len(q) -> U]
    BY <1>1, LenProperties
  <2>2. q \in [1..Len(q) -> V]
    BY <1>2, <2>1
  <2>3. QED
    BY <2>1, <2>2, IsASeq
<1> HIDE DEF V
<1>4. /\ Append(q, m) \in Seq(V) /\ Len(Append(q, m)) = Len(q) + 1
      /\ \A i \in 1..Len(q) : Append(q, m)[i] = q[i]
      /\ Append(q, m)[Len(q) + 1] = m
  BY <1>2, <1>3, AppendProperties
<1>5. IsList(Append(q, m)) /\ DOMAIN Append(q, m) = 1..(Len(q) + 1)
  BY <1>4, SeqIsList
<1>6. QED
  BY <1>4, <1>5

(* Taking the first element.                                                *)
LEMMA TailList ==
  ASSUME NEW q, IsList(q), q # <<>>
  PROVE  /\ IsList(Tail(q))
         /\ Len(q) \in Nat /\ Len(q) >= 1
         /\ Len(Tail(q)) = Len(q) - 1
         /\ \A i \in 1..(Len(q) - 1) : Tail(q)[i] = q[i + 1]
         /\ Head(q) = q[1]
<1> DEFINE U == {q[i] : i \in DOMAIN q}
<1>1. q \in Seq(U)
  BY DEF IsList
<1> HIDE DEF U
<1>2. /\ Tail(q) \in Seq(U) /\ Len(Tail(q)) = Len(q) - 1
      /\ \A i \in 1..(Len(q) - 1) : Tail(q)[i] = q[i + 1]
      /\ Head(q) = q[1]
  BY <1>1, HeadTailProperties
<1>3. Len(q) \in Nat /\ Len(q) # 0
  BY <1>1, EmptySeq, LenProperties
<1>4. IsList(Tail(q))
  BY <1>2, SeqIsList
<1>5. QED
  BY <1>2, <1>3, <1>4

(* Putting one list behind another.                                         *)
LEMMA ConcatList ==
  ASSUME NEW p, IsList(p), NEW q, IsList(q)
  PROVE  /\ IsList(p \o q)
         /\ Len(p \o q) = Len(p) + Len(q)
         /\ DOMAIN (p \o q) = 1..(Len(p) + Len(q))
         /\ \A i \in 1..Len(p) : (p \o q)[i] = p[i]
         /\ \A i \in 1..Len(q) : (p \o q)[Len(p) + i] = q[i]
<1> DEFINE U == {p[i] : i \in DOMAIN p}
           V == {q[i] : i \in DOMAIN q}
           W == U \cup V
<1>1. p \in Seq(U) /\ q \in Seq(V)
  BY DEF IsList
<1> HIDE DEF U, V
<1>2. U \subseteq W /\ V \subseteq W
  OBVIOUS
<1>3. /\ Len(p) \in Nat /\ p \in [1..Len(p) -> U]
      /\ Len(q) \in Nat /\ q \in [1..Len(q) -> V]
  BY <1>1, LenProperties
<1>4. p \in [1..Len(p) -> W] /\ q \in [1..Len(q) -> W]
  BY <1>2, <1>3
<1>5. p \in Seq(W) /\ q \in Seq(W)
  BY <1>3, <1>4, IsASeq
<1> HIDE DEF W
<1>6. p \o q \in Seq(W) /\ Len(p \o q) = Len(p) + Len(q)
  BY <1>5, ConcatProperties
<1>7. \A i \in 1..(Len(p) + Len(q)) :
        (p \o q)[i] = IF i <= Len(p) THEN p[i] ELSE q[i - Len(p)]
  BY <1>5, ConcatProperties
<1>8. \A i \in 1..Len(p) : (p \o q)[i] = p[i]
  <2> DEFINE a == Len(p)
             b == Len(q)
  <2>1. \A i \in 1..a : i \in 1..(a + b) /\ i <= a
    BY <1>3
  <2> HIDE DEF a, b
  <2>2. QED
    BY <1>7, <2>1 DEF a, b
<1>9. \A i \in 1..Len(q) : (p \o q)[Len(p) + i] = q[i]
  <2> DEFINE a == Len(p)
             b == Len(q)
  <2>1. a \in Nat /\ b \in Nat
    BY <1>3
  <2> HIDE DEF a, b
  <2>2. \A i \in 1..b : a + i \in 1..(a + b) /\ ~(a + i <= a) /\ (a + i) - a = i
    BY <2>1
  <2>3. QED
    BY <1>7, <2>2 DEF a, b
<1>10. IsList(p \o q) /\ DOMAIN (p \o q) = 1..(Len(p) + Len(q))
  BY <1>6, SeqIsList
<1>11. QED
  BY <1>6, <1>8, <1>9, <1>10

(* Lists with the same elements are the same.                               *)
LEMMA SameList ==
  ASSUME NEW p, IsList(p), NEW q, IsList(q), Len(p) = Len(q),
         \A i \in 1..Len(p) : p[i] = q[i]
  PROVE  p = q
<1> DEFINE U == {p[i] : i \in DOMAIN p}
           V == {q[i] : i \in DOMAIN q}
<1>1. p \in Seq(U) /\ q \in Seq(V)
  BY DEF IsList
<1> HIDE DEF U, V
<1>2. Len(p) \in Nat /\ p \in [1..Len(p) -> U] /\ q \in [1..Len(p) -> V]
  BY <1>1, LenProperties
<1>3. QED
  BY <1>2

(* A set without two members.                                               *)
LEMMA AtMostOne ==
  ASSUME NEW C, \A i, j \in C : i = j
  PROVE  Cardinality(C) <= 1
<1>1. CASE C = {}
  BY <1>1, FS_EmptySet
<1>2. ASSUME NEW i \in C PROVE Cardinality(C) <= 1
  <2>1. C = {i}
    OBVIOUS
  <2>2. Cardinality({i}) = 1
    BY FS_Singleton
  <2>3. QED
    BY <2>1, <2>2
<1>3. QED
  BY <1>1, <1>2

---------------------------------------------------------------------------
(* The stream.                                                              *)

(* The writer still shows what it is given.                                 *)
Live == writer.at \in {"waiting", "writing"}

(* What was written and what waits are lists of messages.                   *)
Lists == IsList(sent) /\ IsList(outbound)

(* f says where the messages of v were in u: in the same order, and up to   *)
(* each of them no message is left out but pings, pongs and the close.      *)
Embeds(f, u, v) ==
  /\ \A i \in DOMAIN v : v[i] = u[f[i]]
  /\ \A i, j \in DOMAIN v : i < j => f[i] < f[j]
  /\ \A i \in DOMAIN v, k \in DOMAIN u :
       k < f[i] /\ u[k].type \notin Native => \E j \in DOMAIN v : f[j] = k

(* The writer shows v of u, perhaps not to the end.                         *)
Kept(u, v) == \E f \in [DOMAIN v -> DOMAIN u] : Embeds(f, u, v)

(* The writer shows v for u: all of it but pings, pongs and the close.      *)
KeptAll(u, v) ==
  \E f \in [DOMAIN v -> DOMAIN u] :
    /\ Embeds(f, u, v)
    /\ \A k \in DOMAIN u : u[k].type \notin Native => \E j \in DOMAIN v : f[j] = k

(* u is a, then b, then c.                                                  *)
Parted(u, a, b, c) ==
  /\ IsList(u)
  /\ Len(u) = Len(a) + (Len(b) + Len(c))
  /\ DOMAIN u = 1..(Len(a) + (Len(b) + Len(c)))
  /\ \A i \in 1..Len(a) : u[i] = a[i]
  /\ \A i \in 1..Len(b) : u[Len(a) + i] = b[i]
  /\ \A i \in 1..Len(c) : u[Len(a) + (Len(b) + i)] = c[i]

(* The parts of the stream.                                                 *)
LEMMA StreamShape ==
  ASSUME NEW a, IsList(a), NEW b, IsList(b), NEW c, IsList(c)
  PROVE  Parted(a \o (b \o c), a, b, c)
<1> DEFINE d == b \o c
           la == Len(a)
           lb == Len(b)
           lc == Len(c)
<1>1. la \in Nat /\ lb \in Nat /\ lc \in Nat
  BY ListLength
<1>2. /\ Len(d) = lb + lc
      /\ \A i \in 1..lb : d[i] = b[i]
      /\ \A i \in 1..lc : d[lb + i] = c[i]
  BY ConcatList
<1>9. IsList(d)
  BY ConcatList
<1> HIDE DEF d
<1>3. /\ IsList(a \o d) /\ Len(a \o d) = la + Len(d)
      /\ DOMAIN (a \o d) = 1..(la + Len(d))
      /\ \A i \in 1..la : (a \o d)[i] = a[i]
      /\ \A i \in 1..Len(d) : (a \o d)[la + i] = d[i]
  BY <1>9, ConcatList
<1> HIDE DEF la, lb, lc
<1>4. \A i \in 1..lb : i \in 1..(lb + lc)
  BY <1>1
<1>5. \A i \in 1..lc : lb + i \in 1..(lb + lc)
  BY <1>1
<1>6. \A i \in 1..lb : (a \o d)[la + i] = b[i]
  BY <1>2, <1>3, <1>4
<1>7. \A i \in 1..lc : (a \o d)[la + (lb + i)] = c[i]
  BY <1>2, <1>3, <1>5
<1>8. QED
  BY <1>2, <1>3, <1>6, <1>7 DEF d, la, lb, lc, Parted

(* A list keeps itself.                                                     *)
LEMMA SelfKept == ASSUME NEW u, IsList(u) PROVE KeptAll(u, u)
<1> DEFINE f == [i \in DOMAIN u |-> i]
<1>1. f \in [DOMAIN u -> DOMAIN u] /\ \A i \in DOMAIN u : f[i] = i
  OBVIOUS
<1> HIDE DEF f
<1>2. Embeds(f, u, u)
  BY <1>1 DEF Embeds
<1>3. QED
  BY <1>1, <1>2 DEF KeptAll

(* What is complete is kept.                                                *)
LEMMA AllIsKept == ASSUME NEW u, NEW v, KeptAll(u, v) PROVE Kept(u, v)
BY DEF Kept, KeptAll

(* The writer gives up: what was written stays.                             *)
LEMMA PrefixKept ==
  ASSUME NEW a, IsList(a), NEW b, IsList(b), NEW c, IsList(c)
  PROVE  Kept(a \o (b \o c), a)
<1> DEFINE u == a \o (b \o c)
           la == Len(a)
           n == Len(a) + (Len(b) + Len(c))
           f == [i \in 1..la |-> i]
<1>1. la \in Nat /\ Len(b) \in Nat /\ Len(c) \in Nat /\ DOMAIN a = 1..la
  BY ListLength
<1>2. DOMAIN u = 1..n /\ \A i \in 1..la : u[i] = a[i]
  BY StreamShape DEF Parted
<1>3. 1..la \subseteq 1..n
  BY <1>1
<1> HIDE DEF u, n
<1>4. f \in [1..la -> 1..n] /\ \A i \in 1..la : f[i] = i
  BY <1>3
<1> HIDE DEF f
<1>5. \A i \in 1..la, k \in 1..n : k < i => k \in 1..la
  <2> HIDE DEF la
  <2>1. n \in Int
    BY <1>1 DEF n, la
  <2>2. QED
    BY <1>1, <2>1
<1> HIDE DEF la
<1>6. Embeds(f, u, a)
  BY <1>1, <1>2, <1>3, <1>4, <1>5 DEF Embeds
<1>7. QED
  BY <1>1, <1>2, <1>4, <1>6 DEF Kept, u

(* A ping, a pong or a close is written.                                    *)
LEMMA NativeLeaves ==
  ASSUME NEW a, IsList(a), NEW m, m.type \in Native, NEW c, IsList(c)
  PROVE  KeptAll(a \o (<<m>> \o c), a \o (<<>> \o c))
<1> DEFINE u == a \o (<<m>> \o c)
           v == a \o (<<>> \o c)
           la == Len(a)
           lc == Len(c)
<1>1. la \in Nat /\ lc \in Nat
  BY ListLength
<1>2. /\ IsList(<<m>>) /\ Len(<<m>>) = 1 /\ <<m>>[1] = m
      /\ IsList(<<>>) /\ Len(<<>>) = 0
  BY DEF IsList
<1>3. /\ DOMAIN u = 1..(la + (1 + lc))
      /\ \A i \in 1..la : u[i] = a[i]
      /\ u[la + 1] = m
      /\ \A i \in 1..lc : u[la + (1 + i)] = c[i]
  <2> DEFINE b == <<m>>
  <2>1. IsList(b) /\ Len(b) = 1 /\ b[1] = m /\ 1 \in 1..1
    BY <1>2
  <2>2. u = a \o (b \o c)
    OBVIOUS
  <2> HIDE DEF b, u
  <2>3. Parted(u, a, b, c)
    BY <2>1, <2>2, StreamShape
  <2> HIDE DEF la, lc
  <2>4. QED
    BY <2>1, <2>3 DEF la, lc, Parted
<1>4. /\ DOMAIN v = 1..(la + lc)
      /\ \A i \in 1..la : v[i] = a[i]
      /\ \A i \in 1..lc : v[la + i] = c[i]
  <2>1. /\ DOMAIN v = 1..(la + (Len(<<>>) + lc))
        /\ \A i \in 1..la : v[i] = a[i]
        /\ \A i \in 1..lc : v[la + (Len(<<>>) + i)] = c[i]
    BY <1>2, StreamShape DEF Parted
  <2>2. Len(<<>>) + lc = lc /\ \A i \in 1..lc : Len(<<>>) + i = i
    BY <1>1, <1>2
  <2> HIDE DEF v, la, lc
  <2>3. QED
    BY <2>1, <2>2
<1> HIDE DEF u, v, la, lc
<1> DEFINE f == [i \in 1..(la + lc) |-> IF i <= la THEN i ELSE i + 1]
<1>5. \A i \in 1..(la + lc) :
        (IF i <= la THEN i ELSE i + 1) \in 1..(la + (1 + lc))
  BY <1>1
<1>6. f \in [DOMAIN v -> DOMAIN u]
  BY <1>3, <1>4, <1>5
<1>7. \A i \in DOMAIN v : f[i] = IF i <= la THEN i ELSE i + 1
  BY <1>4
<1> HIDE DEF f
<1>8. \A i \in DOMAIN v : v[i] = u[f[i]]
  <2> SUFFICES ASSUME NEW i \in DOMAIN v PROVE v[i] = u[f[i]]
    OBVIOUS
  <2>1. CASE i <= la
    <3>1. i \in 1..la
      BY <1>1, <1>4, <2>1
    <3>2. QED
      BY <1>3, <1>4, <1>7, <2>1, <3>1
  <2>2. CASE ~(i <= la)
    <3> DEFINE j == i - la
    <3>1. j \in 1..lc /\ i = la + j /\ i + 1 = la + (1 + j)
      BY <1>1, <1>4, <2>2
    <3> HIDE DEF j
    <3>2. v[i] = c[j] /\ u[i + 1] = c[j]
      BY <1>3, <1>4, <3>1
    <3>3. QED
      BY <1>7, <2>2, <3>2
  <2>3. QED
    BY <2>1, <2>2
<1>9. \A i, j \in DOMAIN v : i < j => f[i] < f[j]
  BY <1>1, <1>4, <1>7
<1>10. \A k \in DOMAIN u : u[k].type \notin Native => \E j \in DOMAIN v : f[j] = k
  <2> SUFFICES ASSUME NEW k \in DOMAIN u, u[k].type \notin Native
               PROVE  \E j \in DOMAIN v : f[j] = k
    OBVIOUS
  <2>1. k # la + 1
    BY <1>3
  <2>2. CASE k <= la
    <3>1. k \in 1..(la + lc)
      BY <1>1, <1>3, <2>2
    <3>2. QED
      BY <1>4, <1>7, <2>2, <3>1
  <2>3. CASE ~(k <= la)
    <3> DEFINE j == k - 1
    <3>1. j \in 1..(la + lc) /\ ~(j <= la) /\ j + 1 = k
      BY <1>1, <1>3, <2>1, <2>3
    <3> HIDE DEF j
    <3>2. f[j] = k
      BY <1>4, <1>7, <3>1
    <3>3. QED
      BY <1>4, <3>1, <3>2
  <2>4. QED
    BY <2>2, <2>3
<1>11. Embeds(f, u, v)
  BY <1>8, <1>9, <1>10 DEF Embeds
<1>12. KeptAll(u, v)
  BY <1>6, <1>10, <1>11 DEF KeptAll
<1>13. QED
  BY <1>12 DEF u, v

(* Lists of no and of one message.                                          *)
LEMMA ShortLists ==
  /\ IsList(<<>>) /\ Len(<<>>) = 0
  /\ \A m : IsList(<<m>>) /\ Len(<<m>>) = 1 /\ <<m>>[1] = m
BY DEF IsList

(* Only what was written.                                                   *)
LEMMA NothingLeft == ASSUME NEW a, IsList(a) PROVE a \o (<<>> \o <<>>) = a
<1> DEFINE e == <<>>
           u == a \o (e \o e)
<1>1. IsList(e) /\ Len(e) = 0
  BY ShortLists
<1> HIDE DEF e
<1>2. Parted(u, a, e, e)
  BY <1>1, StreamShape
<1> HIDE DEF u
<1>3. IsList(u) /\ Len(u) = Len(a) /\ \A i \in 1..Len(u) : u[i] = a[i]
  BY <1>1, <1>2, ListLength DEF Parted
<1>4. u = a
  BY <1>3, SameList
<1>5. QED
  BY <1>4 DEF u, e

(* The writer takes the first message that waits.                           *)
LEMMA TakenIsShown ==
  ASSUME NEW a, IsList(a), NEW q, IsList(q), q # <<>>
  PROVE  a \o (<<Head(q)>> \o Tail(q)) = a \o (<<>> \o q)
<1> DEFINE e == <<>>
           b == <<Head(q)>>
           c == Tail(q)
           p == b \o c
<1>1. /\ IsList(e) /\ Len(e) = 0
      /\ IsList(b) /\ Len(b) = 1 /\ b[1] = Head(q)
  BY ShortLists
<1>2. /\ IsList(c) /\ Len(q) \in Nat /\ Len(q) >= 1 /\ Len(c) = Len(q) - 1
      /\ \A i \in 1..(Len(q) - 1) : c[i] = q[i + 1]
      /\ Head(q) = q[1]
  BY TailList
<1> HIDE DEF e, b, c
<1>3. /\ IsList(p) /\ Len(p) = Len(b) + Len(c)
      /\ \A i \in 1..Len(b) : p[i] = b[i]
      /\ \A i \in 1..Len(c) : p[Len(b) + i] = c[i]
  <2>1. IsList(b) /\ IsList(c)
    BY <1>1, <1>2
  <2>2. QED
    BY <2>1, ConcatList
<1>4. e \o q = q
  <2> DEFINE r == e \o q
  <2>1. /\ IsList(r) /\ Len(r) = Len(e) + Len(q)
        /\ \A i \in 1..Len(q) : r[Len(e) + i] = q[i]
    BY <1>1, ConcatList
  <2> HIDE DEF r
  <2>2. Len(r) = Len(q) /\ \A i \in 1..Len(r) : r[i] = q[i]
    BY <1>1, <1>2, <2>1
  <2>3. r = q
    BY <2>1, <2>2, SameList
  <2>4. QED
    BY <2>3 DEF r
<1> HIDE DEF p
<1>5. Len(p) = Len(q)
  BY <1>1, <1>2, <1>3
<1>6. ASSUME NEW i \in 1..Len(p) PROVE p[i] = q[i]
  <2> DEFINE n == Len(q)
  <2>1. n \in Nat /\ i \in 1..n
    BY <1>2, <1>5, <1>6
  <2> HIDE DEF n
  <2>2. CASE i = 1
    <3>1. 1 \in 1..1
      OBVIOUS
    <3>2. QED
      BY <1>1, <1>2, <1>3, <2>2, <3>1
  <2>3. CASE i # 1
    <3> DEFINE j == i - 1
    <3>1. j \in 1..(n - 1) /\ i = 1 + j /\ i = j + 1
      BY <2>1, <2>3
    <3> HIDE DEF j
    <3>2. p[1 + j] = c[j] /\ c[j] = q[j + 1]
      BY <1>1, <1>2, <1>3, <3>1 DEF n
    <3>3. QED
      BY <3>1, <3>2
  <2>4. QED
    BY <2>2, <2>3
<1>7. p = q
  BY <1>3, <1>5, <1>6, SameList
<1>8. QED
  BY <1>4, <1>7 DEF p, e, b, c

(* A message is written.                                                    *)
LEMMA WrittenIsShown ==
  ASSUME NEW a, IsList(a), NEW m, NEW c, IsList(c)
  PROVE  Append(a, m) \o (<<>> \o c) = a \o (<<m>> \o c)
<1> DEFINE e == <<>>
           b == <<m>>
           a2 == Append(a, m)
           u == a \o (b \o c)
           v == a2 \o (e \o c)
<1>1. /\ IsList(e) /\ Len(e) = 0
      /\ IsList(b) /\ Len(b) = 1 /\ b[1] = m
  BY ShortLists
<1>2. /\ IsList(a2) /\ Len(a2) = Len(a) + 1
      /\ \A i \in 1..Len(a) : a2[i] = a[i]
      /\ a2[Len(a) + 1] = m
  BY AppendList
<1> HIDE DEF e, b, a2
<1>3. Parted(u, a, b, c) /\ Parted(v, a2, e, c)
  BY <1>1, <1>2, StreamShape
<1> HIDE DEF u, v
<1> DEFINE la == Len(a)
           lc == Len(c)
<1>4. la \in Nat /\ lc \in Nat
  BY ListLength
<1>5. /\ IsList(u) /\ Len(u) = la + (1 + lc)
      /\ \A i \in 1..la : u[i] = a[i]
      /\ \A i \in 1..1 : u[la + i] = b[i]
      /\ \A i \in 1..lc : u[la + (1 + i)] = c[i]
  BY <1>1, <1>3 DEF Parted
<1>6. /\ IsList(v) /\ Len(v) = (la + 1) + (0 + lc)
      /\ \A i \in 1..(la + 1) : v[i] = a2[i]
      /\ \A i \in 1..lc : v[(la + 1) + (0 + i)] = c[i]
  BY <1>1, <1>2, <1>3 DEF Parted
<1>7. \A i \in 1..la : a2[i] = a[i]
  BY <1>2
<1>8. a2[la + 1] = m
  BY <1>2
<1> HIDE DEF la, lc
<1>9. Len(v) = Len(u) /\ Len(v) = la + (1 + lc)
  BY <1>4, <1>5, <1>6
<1>10. ASSUME NEW i \in 1..Len(v) PROVE v[i] = u[i]
  <2>1. i \in 1..(la + (1 + lc))
    BY <1>9, <1>10
  <2>2. CASE i <= la
    <3>1. i \in 1..la /\ i \in 1..(la + 1)
      BY <1>4, <2>1, <2>2
    <3>2. QED
      BY <1>5, <1>6, <1>7, <3>1
  <2>3. CASE i = la + 1
    <3>1. i \in 1..(la + 1) /\ 1 \in 1..1
      BY <1>4, <2>3
    <3>2. QED
      BY <1>1, <1>5, <1>6, <1>8, <2>3, <3>1
  <2>4. CASE ~(i <= la) /\ i # la + 1
    <3> DEFINE j == i - (la + 1)
    <3>1. j \in 1..lc /\ i = la + (1 + j) /\ i = (la + 1) + (0 + j)
      BY <1>4, <2>1, <2>4
    <3> HIDE DEF j
    <3>2. QED
      BY <1>5, <1>6, <3>1
  <2>5. QED
    BY <2>2, <2>3, <2>4
<1>11. v = u
  BY <1>5, <1>6, <1>9, <1>10, SameList
<1>12. QED
  BY <1>11 DEF u, v, e, b, a2

(* A message is queued.                                                     *)
LEMMA QueuedIsShown ==
  ASSUME NEW a, IsList(a), NEW b, IsList(b), NEW c, IsList(c), NEW m
  PROVE  a \o (b \o Append(c, m)) = Append(a \o (b \o c), m)
<1> DEFINE c2 == Append(c, m)
           u == a \o (b \o c)
           v == a \o (b \o c2)
           w == Append(u, m)
           la == Len(a)
           lb == Len(b)
           lc == Len(c)
<1>1. la \in Nat /\ lb \in Nat /\ lc \in Nat
  BY ListLength
<1>2. /\ IsList(c2) /\ Len(c2) = lc + 1
      /\ \A i \in 1..lc : c2[i] = c[i]
      /\ c2[lc + 1] = m
  BY AppendList
<1> HIDE DEF c2
<1>3. Parted(u, a, b, c) /\ Parted(v, a, b, c2)
  BY <1>2, StreamShape
<1> HIDE DEF u, v
<1>4. /\ IsList(u) /\ Len(u) = la + (lb + lc)
      /\ \A i \in 1..la : u[i] = a[i]
      /\ \A i \in 1..lb : u[la + i] = b[i]
      /\ \A i \in 1..lc : u[la + (lb + i)] = c[i]
  BY <1>3 DEF Parted
<1>5. /\ IsList(v) /\ Len(v) = la + (lb + (lc + 1))
      /\ \A i \in 1..la : v[i] = a[i]
      /\ \A i \in 1..lb : v[la + i] = b[i]
      /\ \A i \in 1..(lc + 1) : v[la + (lb + i)] = c2[i]
  BY <1>2, <1>3 DEF Parted
<1>6. /\ IsList(w) /\ Len(w) = Len(u) + 1
      /\ \A i \in 1..Len(u) : w[i] = u[i]
      /\ w[Len(u) + 1] = m
  BY <1>4, AppendList
<1> HIDE DEF la, lb, lc, w
<1>7. Len(v) = Len(w) /\ Len(v) = la + (lb + (lc + 1))
  BY <1>1, <1>4, <1>5, <1>6
<1>8. ASSUME NEW i \in 1..Len(v) PROVE v[i] = w[i]
  <2>1. i \in 1..(la + (lb + (lc + 1)))
    BY <1>7, <1>8
  <2>2. CASE i <= la
    <3>1. i \in 1..la /\ i \in 1..(la + (lb + lc))
      BY <1>1, <2>1, <2>2
    <3>2. QED
      BY <1>4, <1>5, <1>6, <3>1
  <2>3. CASE ~(i <= la) /\ i <= la + lb
    <3> DEFINE j == i - la
    <3>1. j \in 1..lb /\ i = la + j /\ i \in 1..(la + (lb + lc))
      BY <1>1, <2>1, <2>3
    <3> HIDE DEF j
    <3>2. QED
      BY <1>4, <1>5, <1>6, <3>1
  <2>4. CASE ~(i <= la + lb) /\ i # la + (lb + (lc + 1))
    <3> DEFINE j == i - (la + lb)
    <3>1. j \in 1..lc /\ j \in 1..(lc + 1) /\ i = la + (lb + j) /\ i \in 1..(la + (lb + lc))
      BY <1>1, <2>1, <2>4
    <3> HIDE DEF j
    <3>2. v[i] = c2[j] /\ c2[j] = c[j] /\ w[i] = u[i] /\ u[i] = c[j]
      BY <1>2, <1>4, <1>5, <1>6, <3>1 DEF lc
    <3>3. QED
      BY <3>2
  <2>5. CASE i = la + (lb + (lc + 1))
    <3>1. lc + 1 \in 1..(lc + 1) /\ i = Len(u) + 1
      BY <1>1, <1>4, <2>5
    <3>2. v[i] = m
      BY <1>2, <1>5, <2>5, <3>1 DEF lc
    <3>3. QED
      BY <1>6, <3>1, <3>2
  <2>6. QED
    BY <1>1, <2>1, <2>2, <2>3, <2>4, <2>5
<1>9. v = w
  BY <1>5, <1>6, <1>7, <1>8, SameList
<1>10. QED
  BY <1>9 DEF v, w, u, c2

(* The stream, according to what the writer does.                           *)
LEMMA StreamParts ==
  /\ writer.at = "waiting" => Stream = sent \o (<<>> \o outbound)
  /\ writer.at = "writing" => Stream = sent \o (<<writer.command>> \o outbound)
  /\ ~Live => Stream = sent \o (<<>> \o <<>>)
BY DEF Stream, Live

(* The stream is a list.                                                    *)
LEMMA StreamIsList == Lists => IsList(Stream)
<1> SUFFICES ASSUME Lists PROVE IsList(Stream)
  OBVIOUS
<1>1. IsList(sent) /\ IsList(outbound) /\ IsList(<<>>) /\ \A m : IsList(<<m>>)
  BY ShortLists DEF Lists
<1>2. \A b, c : IsList(b) /\ IsList(c) => IsList(sent \o (b \o c))
  BY <1>1, StreamShape DEF Parted
<1>3. IsList(<<writer.command>>)
  BY <1>1
<1>4. QED
  BY <1>1, <1>2, <1>3, StreamParts DEF Live

(* A step of the writer leaves out what is no application message, or all   *)
(* that it has not written when it ends.                                    *)
StreamKept ==
  \/ KeptAll(Stream, Stream')
  \/ Kept(Stream, Stream') /\ ~Live'

(* The writer only moves messages, until it ends.                           *)
LEMMA WriterShows ==
  ASSUME Lists, DOMAIN writer = {"at", "command"}, Writer
  PROVE  Lists' /\ (Live' => Live) /\ StreamKept
<1>1. IsList(sent) /\ IsList(outbound) /\ IsList(<<>>)
  BY ShortLists DEF Lists
<1>2. IsList(Stream)
  BY StreamIsList
<1>3. CASE WriterTakes
  <2>1. /\ writer.at = "waiting" /\ outbound # <<>>
        /\ writer'.at = "writing" /\ writer'.command = Head(outbound)
        /\ outbound' = Tail(outbound) /\ UNCHANGED sent
    BY <1>3 DEF WriterTakes
  <2>2. Stream' = sent \o (<<Head(outbound)>> \o Tail(outbound))
    BY <2>1, StreamParts DEF Stream
  <2>3. Stream' = Stream
    BY <1>1, <2>1, <2>2, TakenIsShown, StreamParts
  <2>4. IsList(outbound')
    BY <1>1, <2>1, TailList
  <2>5. KeptAll(Stream, Stream')
    BY <1>2, <2>3, SelfKept
  <2>6. QED
    BY <1>1, <2>1, <2>4, <2>5 DEF Lists, Live, StreamKept
<1>4. CASE WriterWrites
  <2> DEFINE m == writer.command
  <2>1. writer.at = "writing" /\ Stream = sent \o (<<m>> \o outbound)
    BY <1>4, StreamParts DEF WriterWrites
  <2>2. CASE m.type = "Close"
    <3>1. writer'.at = "done" /\ outbound' = <<>> /\ UNCHANGED sent
      BY <1>4, <2>2 DEF WriterWrites, Native
    <3>2. Stream' = sent \o (<<>> \o <<>>)
      BY <3>1 DEF Stream
    <3>3. Stream' = sent
      BY <1>1, <3>2, NothingLeft
    <3>4. IsList(<<m>>)
      BY ShortLists
    <3> HIDE DEF m
    <3>5. Kept(Stream, Stream')
      BY <1>1, <2>1, <3>3, <3>4, PrefixKept
    <3>6. QED
      BY <1>1, <2>1, <3>1, <3>5 DEF Lists, Live, StreamKept
  <2>3. CASE m.type # "Close" /\ m.type \in Native
    <3>1. writer'.at = "waiting" /\ UNCHANGED <<outbound, sent>>
      BY <1>4, <2>3 DEF WriterWrites
    <3>2. Stream' = sent \o (<<>> \o outbound)
      BY <3>1 DEF Stream
    <3> HIDE DEF m
    <3>3. KeptAll(Stream, Stream')
      BY <1>1, <2>1, <2>3, <3>2, NativeLeaves
    <3>4. QED
      BY <1>1, <2>1, <3>1, <3>3 DEF Lists, Live, StreamKept
  <2>4. CASE m.type \notin Native
    <3>1. writer'.at = "waiting" /\ UNCHANGED outbound /\ sent' = Append(sent, m)
      BY <1>4, <2>4 DEF WriterWrites, Native
    <3>2. Stream' = Append(sent, m) \o (<<>> \o outbound)
      BY <3>1 DEF Stream
    <3> HIDE DEF m
    <3>3. Stream' = Stream
      BY <1>1, <2>1, <3>2, WrittenIsShown
    <3>4. IsList(sent')
      BY <1>1, <3>1, AppendList
    <3>5. KeptAll(Stream, Stream')
      BY <1>2, <3>3, SelfKept
    <3>6. QED
      BY <1>1, <2>1, <3>1, <3>4, <3>5 DEF Lists, Live, StreamKept
  <2>5. QED
    BY <2>2, <2>3, <2>4
<1>5. CASE WriterFails \/ WriterReports \/ WriterCancels \/ WriterStops
  <2>1. /\ writer'.at \in {"failing", "cancelling", "done"} /\ UNCHANGED sent
        /\ outbound' \in {outbound, <<>>}
    BY <1>5 DEF WriterFails, WriterReports, WriterCancels, WriterStops
  <2>2. Stream' = sent \o (<<>> \o <<>>)
    BY <2>1 DEF Stream
  <2>3. Stream' = sent
    BY <1>1, <2>2, NothingLeft
  <2>4. Kept(Stream, sent)
    <3>1. IsList(<<writer.command>>)
      BY ShortLists
    <3>2. CASE writer.at = "waiting"
      BY <1>1, <3>2, PrefixKept, StreamParts
    <3>3. CASE writer.at = "writing"
      <4> DEFINE b == <<writer.command>>
      <4>1. IsList(b) /\ Stream = sent \o (b \o outbound)
        BY <3>1, <3>3, StreamParts
      <4> HIDE DEF b
      <4>2. QED
        BY <1>1, <4>1, PrefixKept
    <3>4. CASE ~Live
      BY <1>1, <3>4, PrefixKept, StreamParts
    <3>5. QED
      BY <3>2, <3>3, <3>4 DEF Live
  <2>5. QED
    BY <1>1, <2>1, <2>3, <2>4 DEF Lists, Live, StreamKept
<1>6. QED
  BY <1>3, <1>4, <1>5 DEF Writer

(* m is queued: it is shown, if the writer has not ended.                   *)
Says(m) == outbound' = Append(outbound, m)

(* What a step of another task does to the stream.                          *)
LEMMA OthersShow ==
  ASSUME Lists, UNCHANGED <<writer, sent>>
  PROVE  /\ Live' <=> Live
         /\ UNCHANGED outbound => Lists' /\ Stream' = Stream
         /\ \A m : Says(m) => /\ Lists'
                              /\ ~Live => Stream' = Stream
                              /\ Live => Stream' = Append(Stream, m)
<1>1. IsList(sent) /\ IsList(outbound) /\ IsList(<<>>)
  BY ShortLists DEF Lists
<1>2. Live' <=> Live
  BY DEF Live
<1>3. UNCHANGED outbound => Lists' /\ Stream' = Stream
  BY DEF Stream, Lists
<1>4. ASSUME NEW m, Says(m)
      PROVE  /\ Lists'
             /\ ~Live => Stream' = Stream
             /\ Live => Stream' = Append(Stream, m)
  <2>1. outbound' = Append(outbound, m)
    BY <1>4 DEF Says
  <2>2. Lists'
    BY <1>1, <2>1, AppendList DEF Lists
  <2>3. ~Live => Stream' = Stream
    BY DEF Stream, Live
  <2>4. CASE writer.at = "waiting"
    <3>1. Stream' = sent \o (<<>> \o Append(outbound, m))
      BY <2>1, <2>4 DEF Stream
    <3>2. Stream = sent \o (<<>> \o outbound)
      BY <2>4, StreamParts
    <3> DEFINE e == <<>>
    <3>3. /\ IsList(e) /\ Stream' = sent \o (e \o Append(outbound, m))
          /\ Stream = sent \o (e \o outbound)
      BY <1>1, <3>1, <3>2
    <3> HIDE DEF e
    <3>4. sent \o (e \o Append(outbound, m)) = Append(sent \o (e \o outbound), m)
      BY <1>1, <3>3, QueuedIsShown
    <3>5. QED
      BY <2>2, <2>3, <3>3, <3>4
  <2>5. CASE writer.at = "writing"
    <3> DEFINE e == <<writer.command>>
    <3>1. Stream' = sent \o (e \o Append(outbound, m))
      BY <2>1, <2>5 DEF Stream
    <3>2. Stream = sent \o (e \o outbound)
      BY <2>5, StreamParts
    <3>3. IsList(e)
      BY ShortLists
    <3> HIDE DEF e
    <3>4. sent \o (e \o Append(outbound, m)) = Append(sent \o (e \o outbound), m)
      BY <1>1, <3>3, QueuedIsShown
    <3>5. QED
      BY <2>2, <2>3, <3>1, <3>2, <3>4
  <2>6. QED
    BY <2>2, <2>3, <2>4, <2>5 DEF Live
<1>5. QED
  BY <1>2, <1>3, <1>4

---------------------------------------------------------------------------
(* Messages in the stream.                                                  *)

(* Where u has messages of a type for a subscription.                       *)
At(u, type, s) == {i \in DOMAIN u : u[i].type = type /\ u[i].subscription = s}

(* The messages about a subscription.                                       *)
OfSubscription == {"Event", "SubscriptionAccepted", "SubscriptionClosed"}

(* The events and the end of a subscription follow its acceptance; nothing  *)
(* of a subscription follows its end.                                       *)
EventsOrdered(u) ==
  \A s \in Subscriptions :
    /\ \A i \in At(u, "Event", s) \cup At(u, "SubscriptionClosed", s) :
         \E j \in At(u, "SubscriptionAccepted", s) : j < i
    /\ \A i \in At(u, "SubscriptionClosed", s), type \in OfSubscription :
         \A j \in At(u, type, s) : j <= i

(* Where u accepts a hello.                                                 *)
Hellos(u) == {i \in DOMAIN u : u[i].type = "HelloAccepted"}

(* There is one HelloAccepted, and the codec changes after it.              *)
CodecFollows(u) ==
  /\ \A i, j \in Hellos(u) : i = j
  /\ \A i \in DOMAIN u : u[i].type \notin Native =>
       u[i].codec = (IF \E h \in Hellos(u) : h < i THEN "session" ELSE "bootstrap")

(* The messages that carry a version.                                       *)
Versioned == {"Event", "QueryResponse", "HelloAccepted"}

(* What carries a version carries v.                                        *)
Carries(u, v) == \A i \in DOMAIN u : u[i].type \in Versioned => u[i].content = v

(* The error that tells a client that it is slow.                           *)
IsSlow(m) == m.type = "Error" /\ m.content = <<Code(SlowConsumer), TRUE>>

(* The client is told what became of its hello.                             *)
Told(u) == \E i \in DOMAIN u : u[i].type = "HelloAccepted" \/ IsSlow(u[i])

---------------------------------------------------------------------------
(* What the writer keeps.                                                   *)

(* An order of messages.                                                    *)
LEMMA KeptOrdered ==
  ASSUME NEW u, NEW v, IsList(u), IsList(v), Kept(u, v), EventsOrdered(u)
  PROVE  EventsOrdered(v)
<1>1. PICK f \in [DOMAIN v -> DOMAIN u] : Embeds(f, u, v)
  BY DEF Kept
<1>2. DOMAIN v = 1..Len(v) /\ Len(v) \in Nat /\ DOMAIN u = 1..Len(u) /\ Len(u) \in Nat
  BY ListLength
<1>3. \A i, j \in DOMAIN v : i < j => f[i] < f[j]
  BY <1>1 DEF Embeds
<1>4. \A i, j \in DOMAIN v : f[i] <= f[j] => i <= j
  BY <1>2, <1>3
<1>5. \A type, s : \A i \in At(v, type, s) : i \in DOMAIN v /\ f[i] \in At(u, type, s)
  BY <1>1 DEF Embeds, At
<1>6. ASSUME NEW s \in Subscriptions,
             NEW i \in At(v, "Event", s) \cup At(v, "SubscriptionClosed", s)
      PROVE  \E j \in At(v, "SubscriptionAccepted", s) : j < i
  <2>1. PICK k \in At(u, "SubscriptionAccepted", s) : k < f[i]
    BY <1>5, <1>6 DEF EventsOrdered
  <2>2. k \in DOMAIN u /\ u[k].type \notin Native
    BY <2>1 DEF At, Native
  <2>3. i \in DOMAIN v
    BY <1>5
  <2>4. PICK j \in DOMAIN v : f[j] = k
    BY <1>1, <2>1, <2>2, <2>3 DEF Embeds
  <2>5. j \in At(v, "SubscriptionAccepted", s)
    BY <1>1, <2>1, <2>4 DEF Embeds, At
  <2>6. j < i
    BY <1>1, <1>2, <1>4, <2>1, <2>3, <2>4
  <2>7. QED
    BY <2>5, <2>6
<1>7. ASSUME NEW s \in Subscriptions, NEW i \in At(v, "SubscriptionClosed", s),
             NEW type \in OfSubscription, NEW j \in At(v, type, s)
      PROVE  j <= i
  <2>1. f[j] <= f[i]
    BY <1>5 DEF EventsOrdered
  <2>2. QED
    BY <1>4, <1>5, <2>1
<1>8. QED
  BY <1>6, <1>7 DEF EventsOrdered

(* The codecs.                                                              *)
LEMMA KeptCodec ==
  ASSUME NEW u, NEW v, IsList(u), IsList(v), Kept(u, v), CodecFollows(u)
  PROVE  CodecFollows(v)
<1>1. PICK f \in [DOMAIN v -> DOMAIN u] : Embeds(f, u, v)
  BY DEF Kept
<1>2. DOMAIN v = 1..Len(v) /\ Len(v) \in Nat /\ DOMAIN u = 1..Len(u) /\ Len(u) \in Nat
  BY ListLength
<1>3. \A i, j \in DOMAIN v : i < j => f[i] < f[j]
  BY <1>1 DEF Embeds
<1>4. \A i, j \in DOMAIN v : f[i] < f[j] => i < j
  BY <1>2, <1>3
<1>5. \A i \in Hellos(v) : i \in DOMAIN v /\ f[i] \in Hellos(u)
  BY <1>1 DEF Embeds, Hellos
<1>6. ASSUME NEW i \in Hellos(v), NEW j \in Hellos(v) PROVE i = j
  <2>1. f[i] = f[j]
    BY <1>5 DEF CodecFollows
  <2>2. QED
    BY <1>2, <1>3, <1>5, <2>1
<1>7. ASSUME NEW i \in DOMAIN v, v[i].type \notin Native
      PROVE  v[i].codec = (IF \E h \in Hellos(v) : h < i THEN "session" ELSE "bootstrap")
  <2>1. v[i] = u[f[i]] /\ f[i] \in DOMAIN u
    BY <1>1 DEF Embeds
  <2>2. u[f[i]].codec =
          (IF \E h \in Hellos(u) : h < f[i] THEN "session" ELSE "bootstrap")
    BY <1>7, <2>1 DEF CodecFollows
  <2>3. ASSUME NEW h \in Hellos(v), h < i PROVE \E k \in Hellos(u) : k < f[i]
    BY <1>3, <1>5, <2>3
  <2>4. ASSUME NEW k \in Hellos(u), k < f[i] PROVE \E h \in Hellos(v) : h < i
    <3>1. k \in DOMAIN u /\ u[k].type = "HelloAccepted" /\ u[k].type \notin Native
      BY DEF Hellos, Native
    <3>2. PICK h \in DOMAIN v : f[h] = k
      BY <1>1, <2>4, <3>1 DEF Embeds
    <3>3. h \in Hellos(v)
      BY <1>1, <3>1, <3>2 DEF Embeds, Hellos
    <3>4. QED
      BY <1>4, <2>4, <3>2, <3>3
  <2>5. QED
    BY <2>1, <2>2, <2>3, <2>4
<1>8. QED
  BY <1>6, <1>7 DEF CodecFollows

(* What is there was there.                                                 *)
LEMMA KeptIsOld ==
  ASSUME NEW u, NEW v, Kept(u, v)
  PROVE  \A i \in DOMAIN v : \E k \in DOMAIN u : v[i] = u[k]
BY DEF Kept, Embeds

(* When the writer goes on, what was there is there.                        *)
LEMMA AllStays ==
  ASSUME NEW u, NEW v, KeptAll(u, v)
  PROVE  \A k \in DOMAIN u : u[k].type \notin Native => \E i \in DOMAIN v : v[i] = u[k]
<1>1. PICK f \in [DOMAIN v -> DOMAIN u] :
        /\ Embeds(f, u, v)
        /\ \A k \in DOMAIN u : u[k].type \notin Native => \E j \in DOMAIN v : f[j] = k
  BY DEF KeptAll
<1>2. QED
  BY <1>1 DEF Embeds

---------------------------------------------------------------------------
(* What a message adds.                                                     *)

(* To the order.                                                            *)
LEMMA AppendOrdered ==
  ASSUME NEW u, IsList(u), EventsOrdered(u), NEW m,
         m.type \in OfSubscription /\ m.subscription \in Subscriptions =>
           At(u, "SubscriptionClosed", m.subscription) = {},
         m.type \in {"Event", "SubscriptionClosed"} /\ m.subscription \in Subscriptions =>
           At(u, "SubscriptionAccepted", m.subscription) # {}
  PROVE  EventsOrdered(Append(u, m))
<1> DEFINE v == Append(u, m)
           n == Len(u)
<1>1. n \in Nat /\ DOMAIN u = 1..n /\ DOMAIN v = 1..(n + 1)
  BY ListLength, AppendList
<1>2. (\A i \in 1..n : v[i] = u[i]) /\ v[n + 1] = m
  BY AppendList
<1> HIDE DEF v, n
<1>3. \A type, s : \A i \in At(v, type, s) :
        \/ i \in At(u, type, s) /\ i \in 1..n
        \/ i = n + 1 /\ m.type = type /\ m.subscription = s
  <2>1. \A i \in 1..(n + 1) : i \in 1..n \/ i = n + 1
    BY <1>1
  <2>2. QED
    BY <1>1, <1>2, <2>1 DEF At
<1>4. \A type, s : \A i \in At(u, type, s) : i \in 1..n /\ i \in At(v, type, s)
  <2>1. \A i \in 1..n : i \in 1..(n + 1)
    BY <1>1
  <2>2. QED
    BY <1>1, <1>2, <2>1 DEF At
<1>5. \A i \in 1..n : i < n + 1 /\ i <= n + 1
  BY <1>1
<1>6. ASSUME NEW s \in Subscriptions,
             NEW i \in At(v, "Event", s) \cup At(v, "SubscriptionClosed", s)
      PROVE  \E j \in At(v, "SubscriptionAccepted", s) : j < i
  <2>1. CASE i \in At(u, "Event", s) \cup At(u, "SubscriptionClosed", s)
    BY <1>4, <2>1 DEF EventsOrdered
  <2>2. CASE /\ i = n + 1 /\ m.type \in {"Event", "SubscriptionClosed"}
             /\ m.subscription = s
    <3>1. PICK j \in At(u, "SubscriptionAccepted", s) : TRUE
      BY <2>2
    <3>2. QED
      BY <1>4, <1>5, <2>2, <3>1
  <2>3. QED
    BY <1>3, <1>6, <2>1, <2>2
<1>7. ASSUME NEW s \in Subscriptions, NEW i \in At(v, "SubscriptionClosed", s),
             NEW type \in OfSubscription, NEW j \in At(v, type, s)
      PROVE  j <= i
  <2>1. j \in 1..(n + 1)
    BY <1>1 DEF At
  <2>2. CASE i \in At(u, "SubscriptionClosed", s)
    <3>1. j \in At(u, type, s)
      BY <1>3, <2>2
    <3>2. QED
      BY <2>2, <3>1 DEF EventsOrdered
  <2>3. CASE i = n + 1
    BY <1>1, <2>1, <2>3
  <2>4. QED
    BY <1>3, <2>2, <2>3
<1>8. EventsOrdered(v)
  BY <1>6, <1>7 DEF EventsOrdered
<1>9. QED
  BY <1>8 DEF v

(* To the codecs.                                                           *)
LEMMA AppendCodec ==
  ASSUME NEW u, IsList(u), CodecFollows(u), NEW m,
         m.type \notin Native =>
           m.codec = (IF Hellos(u) # {} THEN "session" ELSE "bootstrap"),
         m.type = "HelloAccepted" => Hellos(u) = {}
  PROVE  CodecFollows(Append(u, m))
<1> DEFINE v == Append(u, m)
           n == Len(u)
<1>1. n \in Nat /\ DOMAIN u = 1..n /\ DOMAIN v = 1..(n + 1)
  BY ListLength, AppendList
<1>2. (\A i \in 1..n : v[i] = u[i]) /\ v[n + 1] = m
  BY AppendList
<1> HIDE DEF v, n
<1>3. /\ \A i \in 1..(n + 1) : i \in 1..n \/ i = n + 1
      /\ \A i \in 1..n : i \in 1..(n + 1) /\ i < n + 1 /\ ~(n + 1 < i)
      /\ ~(n + 1 < n + 1)
  BY <1>1
<1>4. \A i \in Hellos(v) : i \in Hellos(u) \/ (i = n + 1 /\ m.type = "HelloAccepted")
  BY <1>1, <1>2, <1>3 DEF Hellos
<1>5. \A i \in Hellos(u) : i \in Hellos(v) /\ i \in 1..n
  BY <1>1, <1>2, <1>3 DEF Hellos
<1>6. \A i, j \in Hellos(v) : i = j
  BY <1>4 DEF CodecFollows
<1>7. ASSUME NEW i \in DOMAIN v, v[i].type \notin Native
      PROVE  v[i].codec = (IF \E h \in Hellos(v) : h < i THEN "session" ELSE "bootstrap")
  <2>1. CASE i \in 1..n
    <3>1. (\E h \in Hellos(v) : h < i) <=> (\E h \in Hellos(u) : h < i)
      BY <1>3, <1>4, <1>5, <2>1
    <3>2. v[i] = u[i] /\ i \in DOMAIN u
      BY <1>1, <1>2, <2>1
    <3>3. u[i].codec = (IF \E h \in Hellos(u) : h < i THEN "session" ELSE "bootstrap")
      BY <1>7, <3>2 DEF CodecFollows
    <3>4. QED
      BY <3>1, <3>2, <3>3
  <2>2. CASE i = n + 1
    <3>1. (\E h \in Hellos(v) : h < n + 1) <=> Hellos(u) # {}
      BY <1>3, <1>4, <1>5
    <3>2. QED
      BY <1>2, <1>7, <2>2, <3>1
  <2>3. QED
    BY <1>1, <1>3, <2>1, <2>2
<1>8. CodecFollows(v)
  BY <1>6, <1>7 DEF CodecFollows
<1>9. QED
  BY <1>8 DEF v

(* To what is there.                                                        *)
LEMMA AppendHas ==
  ASSUME NEW u, IsList(u), NEW m
  PROVE  /\ \A i \in DOMAIN Append(u, m) :
              (\E k \in DOMAIN u : Append(u, m)[i] = u[k]) \/ Append(u, m)[i] = m
         /\ \A k \in DOMAIN u : \E i \in DOMAIN Append(u, m) : Append(u, m)[i] = u[k]
         /\ \E i \in DOMAIN Append(u, m) : Append(u, m)[i] = m
<1> DEFINE v == Append(u, m)
           n == Len(u)
<1>1. n \in Nat /\ DOMAIN u = 1..n /\ DOMAIN v = 1..(n + 1)
  BY ListLength, AppendList
<1>2. (\A i \in 1..n : v[i] = u[i]) /\ v[n + 1] = m
  BY AppendList
<1> HIDE DEF v, n
<1>3. /\ \A i \in 1..(n + 1) : i \in 1..n \/ i = n + 1
      /\ \A i \in 1..n : i \in 1..(n + 1)
      /\ n + 1 \in 1..(n + 1)
  BY <1>1
<1>4. /\ \A i \in DOMAIN v : (\E k \in DOMAIN u : v[i] = u[k]) \/ v[i] = m
      /\ \A k \in DOMAIN u : \E i \in DOMAIN v : v[i] = u[k]
      /\ \E i \in DOMAIN v : v[i] = m
  BY <1>1, <1>2, <1>3
<1>5. QED
  BY <1>4 DEF v

---------------------------------------------------------------------------
(* Before the hello.                                                        *)

(* No query has been admitted.                                              *)
NoQueries ==
  /\ queryQueue = <<>> /\ inFlight = {}
  /\ queryWorker.at # "reporting"
  /\ \A i \in DOMAIN events : events[i].type # "QueryCompleted"

(* Nothing is done for a client before its hello.                           *)
BeforeHello ==
  /\ IsList(events)
  /\ connection.state = "Negotiating" =>
       /\ NoQueries
       /\ coordinator # "subscribing"
       /\ \A s \in Subscriptions : pump[s] # "running"

(* The event channel: nothing of a query is posted, or the first is taken.  *)
EventsMove ==
  \/ UNCHANGED events
  \/ \E e : e.type # "QueryCompleted" /\ events' = Append(events, e)
  \/ events # <<>> /\ events' = Tail(events)

(* The event channel stays as it is in respect to queries.                  *)
LEMMA EventsStay ==
  ASSUME IsList(events), EventsMove
  PROVE  /\ IsList(events')
         /\ (\A i \in DOMAIN events : events[i].type # "QueryCompleted") =>
              (\A i \in DOMAIN events' : events'[i].type # "QueryCompleted")
<1>1. CASE UNCHANGED events
  BY <1>1
<1>2. ASSUME NEW e, e.type # "QueryCompleted", events' = Append(events, e)
      PROVE  /\ IsList(events')
             /\ (\A i \in DOMAIN events : events[i].type # "QueryCompleted") =>
                  (\A i \in DOMAIN events' : events'[i].type # "QueryCompleted")
  <2> DEFINE p == events
             q == events'
  <2>1. IsList(p) /\ q = Append(p, e)
    BY <1>2
  <2> HIDE DEF p, q
  <2>2. IsList(q)
    BY <2>1, AppendList
  <2>3. \A i \in DOMAIN q : (\E k \in DOMAIN p : q[i] = p[k]) \/ q[i] = e
    BY <2>1, AppendHas
  <2>4. QED
    BY <1>2, <2>2, <2>3 DEF p, q
<1>3. ASSUME events # <<>>, events' = Tail(events)
      PROVE  /\ IsList(events')
             /\ (\A i \in DOMAIN events : events[i].type # "QueryCompleted") =>
                  (\A i \in DOMAIN events' : events'[i].type # "QueryCompleted")
  <2> DEFINE p == events
             q == events'
             n == Len(events)
  <2>1. IsList(p) /\ p # <<>> /\ q = Tail(p)
    BY <1>3
  <2> HIDE DEF q
  <2>2. /\ IsList(q) /\ n \in Nat /\ n >= 1 /\ Len(q) = n - 1
        /\ \A i \in 1..(n - 1) : q[i] = p[i + 1]
    BY <2>1, TailList
  <2>3. DOMAIN q = 1..(n - 1) /\ DOMAIN p = 1..n
    BY <2>1, <2>2, ListLength
  <2> HIDE DEF p, n
  <2>4. \A i \in 1..(n - 1) : i + 1 \in 1..n
    BY <2>2
  <2>5. \A i \in DOMAIN q : \E k \in DOMAIN p : q[i] = p[k]
    BY <2>2, <2>3, <2>4
  <2>6. QED
    BY <2>2, <2>5 DEF p, q
<1>4. QED
  BY <1>1, <1>2, <1>3 DEF EventsMove

(* A step that does nothing of the kind leaves it so.                       *)
LEMMA StaysBeforeHello ==
  ASSUME BeforeHello, EventsMove,
         connection'.state = "Negotiating" =>
           /\ connection.state = "Negotiating"
           /\ UNCHANGED <<queryQueue, inFlight>>
           /\ queryWorker'.at = "reporting" => queryWorker.at = "reporting"
           /\ coordinator' = "subscribing" => coordinator = "subscribing"
           /\ \A s \in Subscriptions : pump'[s] = "running" => pump[s] = "running"
  PROVE  BeforeHello'
<1>1. IsList(events)
  BY DEF BeforeHello
<1>2. QED
  BY <1>1, EventsStay DEF BeforeHello, NoQueries

(* No connection negotiates again.                                          *)
LEMMA NeverRenegotiates ==
  ASSUME SessionInv, [Next]_vars
  PROVE  /\ connection'.state = "Negotiating" => connection.state = "Negotiating"
         /\ \/ UNCHANGED connection \/ HandleHello \/ connection'.state = "Closed"
            \/ connection.state = "Authenticating"
<1>1. CASE Reader \/ Writer \/ ActionWorker \/ QueryWorker \/ UNCHANGED vars
  <2>1. Reader => UNCHANGED connection
    BY DEF Reader, ReadFrame, ReadError, ReaderSends, ReaderReports, ReaderStops,
           ReaderElse, loopVars, handshake
  <2>2. Writer => UNCHANGED connection
    BY DEF Writer, WriterTakes, WriterWrites, WriterFails, WriterReports,
       WriterCancels, WriterStops,
           WriterElse, loopVars, handshake
  <2>3. ActionWorker => UNCHANGED connection
    BY DEF ActionWorker, TakeAction, ExecuteAction, ReportAction, StopActions,
           ActionElse, loopVars, handshake
  <2>4. QueryWorker => UNCHANGED connection
    BY DEF QueryWorker, TakeQuery, ExecuteQuery, ReportQuery, StopQueries,
           QueryElse, loopVars, handshake
  <2>5. UNCHANGED vars => UNCHANGED connection
    BY DEF vars, loopVars, handshake
  <2>6. QED
    BY <1>1, <2>1, <2>2, <2>3, <2>4, <2>5
<1>2. ASSUME NEW s \in Subscriptions, Pump(s) PROVE UNCHANGED connection
  BY <1>2 DEF Pump, PumpEvent, PumpSourceEnds, PumpSourceFails, PumpReports, PumpStops,
              PumpElse, loopVars, handshake
<1>3. CASE LoopAction
  <2>1. PlainAction \/ PumpAction => UNCHANGED connection
    BY PlainActionIsPlain, PumpActionMoves DEF Plain
  <2>2. HandleAuthenticate \/ HandleAction => UNCHANGED connection
    BY DEF HandleAuthenticate, HandleAction, handshake
  <2>3. HandleHello => UNCHANGED connection \/ connection.state = "Negotiating"
    BY HelloBegins
  <2>4. Resolve => /\ UNCHANGED connection \/ connection'.state = "Ready"
                   /\ connection.state = "Authenticating"
    BY DEF Resolve, SessionInv, ConnectionInv
  <2>5. QED
    BY <1>3, <2>1, <2>2, <2>3, <2>4, LoopCases
<1>4. CASE CloseStep
  <2>1. UNCHANGED connection \/ connection' = [connection EXCEPT !.state = "Closed"]
    BY <1>4 DEF CloseStep, FinalError, SendClose, AwaitWriter, JoinPumps, JoinTasks, CloseElse
  <2>2. QED
    BY <2>1 DEF SessionInv, ConnectionInv
<1>5. QED
  BY <1>1, <1>2, <1>3, <1>4, NextCases

(* It is so before every hello.                                             *)
LEMMA BeforeHelloStep ==
  ASSUME SessionInv, BeforeHello, [Next]_vars
  PROVE  BeforeHello'
<1> USE DEF EventsMove
<1>1. CASE Reader
  <2>1. UNCHANGED <<connection, queryQueue, inFlight, queryWorker, coordinator, pump>>
    BY <1>1 DEF Reader, ReadFrame, ReadError, ReaderSends, ReaderReports, ReaderStops,
                ReaderElse, loopVars, handshake, queryVars, pumpVars
  <2>2. EventsMove
    BY <1>1 DEF Reader, ReadFrame, ReadError, ReaderSends, ReaderReports, ReaderStops,
                Post, Event
  <2>3. QED
    BY <2>1, <2>2, StaysBeforeHello
<1>2. CASE Writer
  <2>1. UNCHANGED <<connection, queryQueue, inFlight, queryWorker, coordinator, pump>>
    BY <1>2 DEF Writer, WriterTakes, WriterWrites, WriterFails, WriterReports,
       WriterCancels, WriterStops,
                WriterElse, loopVars, handshake, queryVars, pumpVars
  <2>2. EventsMove
    BY <1>2 DEF Writer, WriterTakes, WriterWrites, WriterFails, WriterReports,
       WriterCancels, WriterStops,
                Post, Event
  <2>3. QED
    BY <2>1, <2>2, StaysBeforeHello
<1>3. CASE ActionWorker
  <2>1. UNCHANGED <<connection, queryQueue, inFlight, queryWorker, coordinator, pump>>
    BY <1>3 DEF ActionWorker, TakeAction, ExecuteAction, ReportAction, StopActions,
                ActionElse, loopVars, handshake, queryVars, pumpVars
  <2>2. EventsMove
    BY <1>3 DEF ActionWorker, TakeAction, ExecuteAction, ReportAction, StopActions,
                Post, Event
  <2>3. QED
    BY <2>1, <2>2, StaysBeforeHello
<1>4. CASE QueryWorker
  <2>1. UNCHANGED <<connection, coordinator, pump>>
    BY <1>4 DEF QueryWorker, TakeQuery, ExecuteQuery, ReportQuery, StopQueries,
                QueryElse, loopVars, handshake, pumpVars
  <2>2. CASE connection.state = "Negotiating"
    <3>1. queryQueue = <<>> /\ inFlight = {} /\ queryWorker.at # "reporting"
      BY <2>2 DEF BeforeHello, NoQueries
    <3>2. CASE StopQueries
      BY <2>1, <3>1, <3>2, StaysBeforeHello DEF StopQueries, SessionInv, JoinInv
    <3>3. ~(TakeQuery \/ ExecuteQuery \/ ReportQuery)
      BY <3>1 DEF TakeQuery, ExecuteQuery, ReportQuery
    <3>4. QED
      BY <1>4, <3>2, <3>3 DEF QueryWorker
  <2>3. CASE connection.state # "Negotiating"
    <3>1. UNCHANGED events \/ \E e : events' = Append(events, e)
      BY <1>4 DEF QueryWorker, TakeQuery, ExecuteQuery, ReportQuery, StopQueries, Post
    <3>2. IsList(events')
      <4> DEFINE p == events
                 q == events'
      <4>1. IsList(p) /\ (q = p \/ \E e : q = Append(p, e))
        BY <3>1 DEF BeforeHello
      <4> HIDE DEF p, q
      <4>2. ASSUME NEW e, q = Append(p, e) PROVE IsList(q)
        BY <4>1, <4>2, AppendList
      <4>3. QED
        BY <4>1, <4>2 DEF p, q
    <3>3. QED
      BY <2>1, <2>3, <3>2 DEF BeforeHello
  <2>4. QED
    BY <2>2, <2>3
<1>5. ASSUME NEW s \in Subscriptions, Pump(s) PROVE BeforeHello'
  <2>1. UNCHANGED <<connection, queryQueue, inFlight, queryWorker, coordinator>>
    BY <1>5 DEF Pump, PumpEvent, PumpSourceEnds, PumpSourceFails, PumpReports, PumpStops,
                PumpElse, loopVars, handshake, queryVars
  <2>2. \/ UNCHANGED pump
        \/ \E at : at # "running" /\ pump' = [pump EXCEPT ![s] = at]
    BY <1>5 DEF Pump, PumpEvent, PumpSourceEnds, PumpSourceFails, PumpReports, PumpStops, Goto
  <2>3. \A r \in Subscriptions : pump'[r] = "running" => pump[r] = "running"
    BY <2>2 DEF SessionInv, PumpInv
  <2>4. EventsMove
    <3>1. PumpReports(s) => EventsMove
      BY DEF PumpReports, PumpReport, Post, Event
    <3>2. QED
      BY <1>5, <3>1 DEF Pump, PumpEvent, PumpSourceEnds, PumpSourceFails, PumpStops
  <2>5. QED
    BY <2>1, <2>3, <2>4, StaysBeforeHello
<1>6. CASE LoopAction
  <2>1. UNCHANGED <<inFlight, queryWorker>>
    BY <1>6, LoopActionFrame DEF LoopFrame, TaskVars, queryVars
  <2>2. EventsMove
    BY <1>6 DEF LoopAction, TakeMessage, TakeFrame, TakeEvent, HandleGarbage, HandleClose,
       HandleNative, InputEnds, HandleHello, HandleAuthenticate, Resolve, HandlePing,
       HandleAction, HandleQuery, HandleSubscribe, Subscribed, HandleUnsubscribe, Joined,
       ReportComplaint, OnActionCompleted, OnQueryCompleted, OnSubscriptionFinished,
       OnEventSourceFailed, OnSlowConsumer, OnTaskFailed, Heartbeat
  <2>3. connection'.state = "Negotiating" => connection.state = "Negotiating"
    BY NeverRenegotiates
  <2>4. ASSUME connection.state = "Negotiating"
        PROVE  /\ UNCHANGED queryQueue
               /\ coordinator' = "subscribing" => coordinator = "subscribing"
               /\ \A s \in Subscriptions : pump'[s] = "running" => pump[s] = "running"
    <3>1. ~Ready /\ coordinator # "subscribing"
      BY <2>4 DEF Ready, BeforeHello
    <3>2. CASE HandleQuery
      BY <3>1, <3>2 DEF HandleQuery, Complain, handshake, pumpVars
    <3>3. CASE HandleSubscribe
      BY <3>1, <3>3 DEF HandleSubscribe, Complain, pumpVars
    <3>4. CASE Subscribed
      BY <3>1, <3>4 DEF Subscribed
    <3>5. CASE HandleGarbage \/ HandleClose \/ HandleNative \/ InputEnds \/ HandlePing
               \/ ReportComplaint \/ Heartbeat
      BY <3>5 DEF HandleGarbage, HandleClose, HandleNative, InputEnds, HandlePing,
         ReportComplaint, Heartbeat, ControlElse, pumpVars, Deliver, Leave, LeaveTelling,
         Reply, Complain, Stay
    <3>6. CASE HandleHello \/ HandleAuthenticate \/ Resolve \/ HandleAction
               \/ HandleUnsubscribe \/ Joined
      BY <3>6 DEF HandleHello, HandleAuthenticate, Resolve, HandleAction,
         HandleUnsubscribe, Joined, ControlElse, pumpVars, Deliver, Leave, Reply,
         Complain, Stay, Join
    <3>7. CASE OnActionCompleted \/ OnQueryCompleted \/ OnSubscriptionFinished
               \/ OnEventSourceFailed \/ OnSlowConsumer \/ OnTaskFailed
      BY <3>7 DEF OnActionCompleted, OnQueryCompleted, OnSubscriptionFinished,
         OnEventSourceFailed, OnSlowConsumer, OnTaskFailed, TakeEvent, QueueQueryResponse,
         pumpVars, Deliver, Leave, LeaveTelling, Stay, Join
    <3>8. QED
      BY <1>6, <3>2, <3>3, <3>4, <3>5, <3>6, <3>7 DEF LoopAction
  <2>5. QED
    BY <2>1, <2>2, <2>3, <2>4, StaysBeforeHello
<1>7. CASE CloseStep
  <2>1. /\ UNCHANGED <<events, queryQueue, inFlight, queryWorker, pump>>
        /\ coordinator' # "subscribing"
    BY <1>7 DEF CloseStep, FinalError, SendClose, AwaitWriter, JoinPumps, JoinTasks,
       JoinReader, JoinActions, JoinQueries, JoinWriter, Advance, CloseElse, TaskVars,
       queryVars, pumpVars
  <2>2. connection'.state = "Negotiating" => connection.state = "Negotiating"
    BY NeverRenegotiates
  <2>3. QED
    BY <2>1, <2>2, StaysBeforeHello
<1>8. CASE UNCHANGED vars
  BY <1>8 DEF vars, loopVars, handshake, queryVars, pumpVars, BeforeHello, NoQueries
<1>9. QED
  BY <1>1, <1>2, <1>3, <1>4, <1>5, <1>6, <1>7, <1>8, NextCases

---------------------------------------------------------------------------
(* What the steps say.                                                      *)

(* A message that the client can read where it comes.                       *)
Encoded(m) ==
  /\ m.type # "HelloAccepted"
  /\ m.codec = codec
  /\ m.type \in Versioned => m.content = version /\ connection.state # "Negotiating"

(* Nothing is said, or nothing of a subscription.                           *)
Talk ==
  \/ UNCHANGED outbound
  \/ \E m : Says(m) /\ Encoded(m) /\ m.type \notin OfSubscription

(* The pump of s has a handle or is being joined.                           *)
Attached(s) ==
  s \in subscriptions \/ (coordinator = "joining" /\ joining.subscription = s)

(* No subscription begins, and none comes back.                             *)
PumpsStay ==
  /\ \A s \in Subscriptions : Attached(s)' => Attached(s)
  /\ \A s \in Subscriptions : pump[s] = "done" => pump'[s] = "done"
  /\ coordinator' = "joining" => joining'.subscription \notin subscriptions'

(* A step of the session that is none of the client's subscriptions.        *)
Quiet == UNCHANGED <<writer, sent, version, codec>> /\ Talk /\ PumpsStay

(* What a queued message is.                                                *)
LEMMA QueueSays ==
  ASSUME NEW type, NEW request, NEW s, NEW content, NEW c,
         QueueWith(Outbound(type, request, s, content), c)
  PROVE  \E m : /\ Says(m) /\ m.type = type /\ m.subscription = s
                /\ m.content = content /\ m.codec = c
<1> DEFINE m == [Outbound(type, request, s, content) EXCEPT !.codec = c]
<1>1. /\ m.type = type /\ m.subscription = s /\ m.content = content /\ m.codec = c
  BY DEF Outbound
<1>2. outbound' = Append(outbound, m)
  BY DEF QueueWith
<1> HIDE DEF m
<1>3. QED
  BY <1>1, <1>2 DEF Says

(* What is queued outside the handshake and the subscriptions is talk.      *)
LEMMA MessagesAreTalk ==
  /\ \A request, e : Queue(ErrorMessage(request, e)) => Talk
  /\ \A type \in Native : Queue(Command(type)) => Talk
  /\ \A nonce : Queue(Pong(nonce)) => Talk
  /\ \A request : Queue(ActionAcknowledgement(request)) => Talk
  /\ connection.state # "Negotiating" =>
       \A request : Queue(QueryResponseMessage(version, request)) => Talk
<1>1. ASSUME NEW type, NEW request, NEW s, NEW content,
             Queue(Outbound(type, request, s, content)),
             type \notin OfSubscription, type # "HelloAccepted",
             type = "QueryResponse" =>
               content = version /\ connection.state # "Negotiating"
      PROVE  Talk
  <2>1. QueueWith(Outbound(type, request, s, content), codec)
    BY <1>1 DEF Queue
  <2>2. PICK m : /\ Says(m) /\ m.type = type /\ m.content = content /\ m.codec = codec
    BY <2>1, QueueSays
  <2>3. QED
    BY <1>1, <2>2 DEF Talk, Encoded, Versioned, OfSubscription
<1>2. \A request, e : Queue(ErrorMessage(request, e)) => Talk
  BY <1>1 DEF ErrorMessage, OfSubscription
<1>3. \A type \in Native : Queue(Command(type)) => Talk
  BY <1>1 DEF Command, Native, OfSubscription
<1>4. \A nonce : Queue(Pong(nonce)) => Talk
  BY <1>1 DEF Pong, OfSubscription
<1>5. \A request : Queue(ActionAcknowledgement(request)) => Talk
  BY <1>1 DEF ActionAcknowledgement, OfSubscription
<1>6. connection.state # "Negotiating" =>
        \A request : Queue(QueryResponseMessage(version, request)) => Talk
  BY <1>1 DEF QueryResponseMessage, OfSubscription
<1>7. QED
  BY <1>2, <1>3, <1>4, <1>5, <1>6

(* The plain branches of the loop talk.                                     *)
LEMMA PlainTalks ==
  ASSUME BeforeHello, PlainAction
  PROVE  Talk /\ UNCHANGED <<version, codec>>
<1> USE DEF Deliver, Reply, LeaveTelling, Leave, Complain, Stay
<1>1. UNCHANGED <<version, codec>>
  BY DEF PlainAction, HandleGarbage, HandleClose, HandleNative, InputEnds, HandlePing,
     HandleQuery, ReportComplaint, OnActionCompleted, OnQueryCompleted, OnSlowConsumer,
     OnTaskFailed, Heartbeat, TakeEvent, handshake
<1>2. UNCHANGED outbound => Talk
  BY DEF Talk
<1>3. HandleGarbage => Talk
  BY <1>2, MessagesAreTalk DEF HandleGarbage
<1>4. HandleClose \/ InputEnds => Talk
  BY <1>2 DEF HandleClose, InputEnds
<1>5. HandleNative => Talk
  <2>1. "NativePong" \in Native
    BY DEF Native
  <2>2. QED
    BY <1>2, <2>1, MessagesAreTalk DEF HandleNative
<1>6. HandlePing => Talk
  BY <1>2, MessagesAreTalk DEF HandlePing
<1>7. HandleQuery => Talk
  <2>1. Ready => connection.state # "Negotiating"
    BY DEF Ready
  <2>2. QED
    BY <1>2, <2>1, MessagesAreTalk DEF HandleQuery
<1>8. ReportComplaint => Talk
  BY <1>2, MessagesAreTalk DEF ReportComplaint
<1>9. OnActionCompleted => Talk
  BY <1>2, MessagesAreTalk DEF OnActionCompleted
<1>10. OnQueryCompleted => Talk
  <2> SUFFICES ASSUME OnQueryCompleted PROVE Talk
    OBVIOUS
  <2>1. events # <<>> /\ Head(events).type = "QueryCompleted"
    BY DEF OnQueryCompleted, TakeEvent
  <2>2. Head(events) = events[1] /\ 1 \in DOMAIN events
    <3> DEFINE n == Len(events)
    <3>1. IsList(events)
      BY DEF BeforeHello
    <3>2. Head(events) = events[1] /\ n \in Nat /\ n >= 1 /\ DOMAIN events = 1..n
      BY <2>1, <3>1, TailList, ListLength
    <3> HIDE DEF n
    <3>3. QED
      BY <3>2
  <2>3. connection.state # "Negotiating"
    BY <2>1, <2>2 DEF BeforeHello, NoQueries
  <2>4. QED
    BY <1>2, <2>3, MessagesAreTalk DEF OnQueryCompleted, QueueQueryResponse
<1>11. OnSlowConsumer => Talk
  BY <1>2, MessagesAreTalk DEF OnSlowConsumer
<1>12. OnTaskFailed => Talk
  BY <1>2 DEF OnTaskFailed
<1>13. Heartbeat => Talk
  <2>1. "NativePing" \in Native
    BY DEF Native
  <2>2. QED
    BY <1>2, <2>1, MessagesAreTalk DEF Heartbeat
<1>14. QED
  BY <1>1, <1>3, <1>4, <1>5, <1>6, <1>7, <1>8, <1>9, <1>10, <1>11, <1>12, <1>13
  DEF PlainAction

(* A pump that is being joined has no handle.                               *)
Unjoined == coordinator = "joining" => joining.subscription \notin subscriptions

(* Steps that move neither the coordinator nor the pumps.                   *)
LEMMA StillIsQuiet ==
  ASSUME Unjoined,
         UNCHANGED <<writer, sent, version, codec, coordinator, joining, subscriptions>>,
         Talk, \A s \in Subscriptions : pump[s] = "done" => pump'[s] = "done"
  PROVE  Quiet
BY DEF Quiet, PumpsStay, Attached, Unjoined

(* Steps after which no pump is being joined.                               *)
LEMMA FreeIsQuiet ==
  ASSUME UNCHANGED <<writer, sent, version, codec>>, coordinator' # "joining",
         subscriptions' \subseteq subscriptions,
         Talk, \A s \in Subscriptions : pump[s] = "done" => pump'[s] = "done"
  PROVE  Quiet
BY DEF Quiet, PumpsStay, Attached

(* What a subscription changes.                                             *)
LEMMA SubscribedMoves ==
  ASSUME SessionInv, Subscribed
  PROVE  /\ UNCHANGED <<writer, sent, version, codec, connection>>
         /\ coordinator = "subscribing" /\ coordinator' # "joining"
         /\ \/ Quiet
            \/ \E s \in Subscriptions :
                 /\ pump[s] = "none" /\ pump' = [pump EXCEPT ![s] = "running"]
                 /\ subscriptions' = subscriptions \cup {s}
                 /\ \E m : /\ Says(m) /\ m.type = "SubscriptionAccepted"
                           /\ m.subscription = s /\ m.codec = codec
<1>1. /\ UNCHANGED <<writer, sent, version, codec, connection>>
      /\ coordinator = "subscribing" /\ coordinator' # "joining"
  BY DEF Subscribed, TaskVars, writerVars, handshake, Complain, Stay
<1>2. UNCHANGED outbound => Talk
  BY DEF Talk
<1>3. ASSUME NEW e, Complain(e), UNCHANGED <<pump, subscriptions>> PROVE Quiet
  BY <1>1, <1>2, <1>3, FreeIsQuiet DEF Complain
<1>4. ASSUME NEW s \in Subscriptions, Goto(s, "done"), UNCHANGED subscriptions,
             Complain(SlowConsumer)
      PROVE  Quiet
  <2>1. \A r \in Subscriptions : pump[r] = "done" => pump'[r] = "done"
    BY <1>4 DEF Goto, SessionInv, PumpInv
  <2>2. QED
    BY <1>1, <1>2, <1>4, <2>1, FreeIsQuiet DEF Complain
<1>5. ASSUME NEW request, NEW s, Queue(SubscriptionAccepted(request, s))
      PROVE  \E m : /\ Says(m) /\ m.type = "SubscriptionAccepted"
                    /\ m.subscription = s /\ m.codec = codec
  BY <1>5, QueueSays DEF Queue, SubscriptionAccepted
<1>6. \/ \E e : Complain(e) /\ UNCHANGED <<pump, subscriptions>>
      \/ \E s \in Subscriptions : Goto(s, "done") /\ UNCHANGED subscriptions
                                  /\ Complain(SlowConsumer)
      \/ \E s \in Subscriptions :
           /\ pump[s] = "none" /\ pump' = [pump EXCEPT ![s] = "running"]
           /\ subscriptions' = subscriptions \cup {s}
           /\ Queue(SubscriptionAccepted(joining.request, s))
  BY DEF Subscribed, Goto
<1>7. QED
  BY <1>1, <1>3, <1>4, <1>5, <1>6

(* What the end of a pump changes.                                          *)
LEMMA JoinedMoves ==
  ASSUME Joined
  PROVE  /\ UNCHANGED <<writer, sent, version, codec, connection, pump, subscriptions>>
         /\ coordinator = "joining" /\ coordinator' # "joining"
         /\ pump[joining.subscription] = "done"
         /\ \/ UNCHANGED outbound
            \/ \E m : /\ Says(m) /\ m.type = "SubscriptionClosed"
                      /\ m.subscription = joining.subscription /\ m.codec = codec
<1>1. /\ UNCHANGED <<writer, sent, version, codec, connection, pump, subscriptions>>
      /\ coordinator = "joining" /\ coordinator' # "joining"
      /\ pump[joining.subscription] = "done"
  BY DEF Joined, TaskVars, writerVars, handshake, pumpVars, Reply, Deliver, Complain, Stay,
         Leave
<1>2. UNCHANGED outbound \/ Queue(SubscriptionClosed(joining.request, joining.subscription))
  BY DEF Joined, Reply, Deliver, Complain
<1>3. ASSUME NEW request, NEW s, Queue(SubscriptionClosed(request, s))
      PROVE  \E m : /\ Says(m) /\ m.type = "SubscriptionClosed"
                    /\ m.subscription = s /\ m.codec = codec
  BY <1>3, QueueSays DEF Queue, SubscriptionClosed
<1>4. QED
  BY <1>1, <1>2, <1>3

(* What a pump changes.                                                     *)
LEMMA PumpTalks ==
  ASSUME SessionInv, BeforeHello, Unjoined, NEW s \in Subscriptions, Pump(s)
  PROVE  /\ UNCHANGED <<writer, sent, version, codec, connection, coordinator, complaint,
                        joining, subscriptions>>
         /\ \/ Quiet
            \/ /\ pump[s] = "running" /\ UNCHANGED pump
               /\ \E m : /\ Says(m) /\ Encoded(m) /\ m.type = "Event"
                         /\ m.subscription = s
<1>1. UNCHANGED <<writer, sent, version, codec, connection, coordinator, complaint,
                  joining, subscriptions>>
  BY DEF Pump, PumpEvent, PumpSourceEnds, PumpSourceFails, PumpReports, PumpStops,
         PumpElse, loopVars, handshake, writerVars
<1>2. pump[s] # "done" /\ (UNCHANGED pump \/ \E at : pump' = [pump EXCEPT ![s] = at])
  BY DEF Pump, PumpEvent, PumpSourceEnds, PumpSourceFails, PumpReports, PumpStops, Goto
<1>3. \A r \in Subscriptions : pump[r] = "done" => pump'[r] = "done"
  BY <1>2 DEF SessionInv, PumpInv
<1>4. Talk => Quiet
  BY <1>1, <1>3, StillIsQuiet
<1>5. UNCHANGED outbound => Talk
  BY DEF Talk
<1>6. CASE PumpEvent(s)
  <2>1. CASE UNCHANGED outbound
    BY <1>1, <1>4, <1>5, <2>1
  <2>2. CASE Queue(EventMessage(s, version)) /\ UNCHANGED pump
    <3>1. pump[s] = "running"
      BY <1>6 DEF PumpEvent
    <3>2. connection.state # "Negotiating"
      BY <3>1 DEF BeforeHello
    <3>3. PICK m : /\ Says(m) /\ m.type = "Event" /\ m.subscription = s
                   /\ m.content = version /\ m.codec = codec
      BY <2>2, QueueSays DEF Queue, EventMessage
    <3>4. Encoded(m)
      BY <3>2, <3>3 DEF Encoded
    <3>5. QED
      BY <1>1, <2>2, <3>1, <3>3, <3>4
  <2>3. QED
    BY <1>6, <2>1, <2>2 DEF PumpEvent
<1>7. CASE PumpSourceEnds(s) \/ PumpReports(s) \/ PumpStops(s)
  BY <1>1, <1>4, <1>5, <1>7 DEF PumpSourceEnds, PumpReports, PumpStops
<1>8. CASE PumpSourceFails(s)
  BY <1>1, <1>4, <1>5, <1>8, MessagesAreTalk DEF PumpSourceFails
<1>9. QED
  BY <1>6, <1>7, <1>8 DEF Pump

(* What the close procedure says.                                           *)
LEMMA CloseTalks ==
  ASSUME CloseStep
  PROVE  Quiet /\ coordinator' \notin Looping
<1> USE DEF CloseStep, FinalError, SendClose, AwaitWriter, JoinPumps, JoinTasks,
            JoinReader, JoinActions, JoinQueries, JoinWriter, Advance, CloseElse
<1>1. UNCHANGED <<writer, sent, version, codec, pump>>
  BY DEF TaskVars, writerVars, pumpVars
<1>2. coordinator' \notin Looping /\ subscriptions' \subseteq subscriptions
  BY DEF Looping
<1>3. Talk
  <2>1. "Close" \in Native /\ (UNCHANGED outbound => Talk)
    BY DEF Native, Talk
  <2>2. QED
    BY <2>1, MessagesAreTalk
<1>4. QED
  BY <1>1, <1>2, <1>3, FreeIsQuiet DEF Looping

(* The tasks that have no part in the stream.                               *)
LEMMA TasksAreQuiet ==
  ASSUME Unjoined, Reader \/ ActionWorker \/ QueryWorker \/ UNCHANGED vars
  PROVE  Quiet /\ UNCHANGED <<connection, coordinator, complaint>>
<1>1. UNCHANGED <<writer, sent, outbound, version, codec, coordinator, complaint, joining,
                  subscriptions, pump, connection>>
  <2>1. CASE Reader
    BY <2>1 DEF Reader, ReadFrame, ReadError, ReaderSends, ReaderReports, ReaderStops,
                ReaderElse, loopVars, handshake, writerVars, pumpVars
  <2>2. CASE ActionWorker
    BY <2>2 DEF ActionWorker, TakeAction, ExecuteAction, ReportAction, StopActions,
                ActionElse, loopVars, handshake, writerVars, pumpVars
  <2>3. CASE QueryWorker
    BY <2>3 DEF QueryWorker, TakeQuery, ExecuteQuery, ReportQuery, StopQueries,
                QueryElse, loopVars, handshake, writerVars, pumpVars
  <2>4. CASE UNCHANGED vars
    BY <2>4 DEF vars, loopVars, handshake, writerVars, pumpVars
  <2>5. QED
    BY <2>1, <2>2, <2>3, <2>4
<1>2. QED
  BY <1>1, StillIsQuiet DEF Talk

(* The branches of the loop that say nothing of the session.                *)
QuietAction ==
  \/ PlainAction \/ HandleAuthenticate \/ Resolve \/ HandleAction \/ HandleSubscribe
  \/ HandleUnsubscribe \/ OnSubscriptionFinished \/ OnEventSourceFailed

(* They are quiet.                                                          *)
LEMMA QuietActionsAreQuiet ==
  ASSUME BeforeHello, QuietAction
  PROVE  Quiet
<1>1. LoopAction => UNCHANGED <<writer, sent>>
  BY LoopActionFrame DEF LoopFrame, TaskVars, writerVars
<1>2. QuietAction => LoopAction
  BY DEF QuietAction, PlainAction, LoopAction
<1>3. UNCHANGED <<writer, sent>>
  BY <1>1, <1>2
<1>4. UNCHANGED outbound => Talk
  BY DEF Talk
<1>5. CASE PlainAction
  BY <1>3, <1>5, PlainTalks, PlainActionIsPlain, FreeIsQuiet DEF Plain
<1>6. CASE HandleAuthenticate \/ Resolve \/ HandleAction
  <2>1. UNCHANGED <<version, codec, pump, subscriptions, outbound>> /\ coordinator' # "joining"
    BY <1>6 DEF HandleAuthenticate, Resolve, HandleAction, ControlElse, handshake, pumpVars,
       Complain, Stay
  <2>2. QED
    BY <1>3, <1>4, <2>1, FreeIsQuiet
<1>7. CASE HandleSubscribe
  <2>1. UNCHANGED <<version, codec, pump, subscriptions, outbound>> /\ coordinator' # "joining"
    BY <1>7 DEF HandleSubscribe, handshake, pumpVars, Complain
  <2>2. QED
    BY <1>3, <1>4, <2>1, FreeIsQuiet
<1>8. ASSUME NEW s, NEW reason, NEW request, s \in subscriptions, Join(s, reason, request),
             UNCHANGED <<version, codec, pump>>
      PROVE  Quiet
  <2>1. PumpsStay
    BY <1>8 DEF Join, PumpsStay, Attached
  <2>2. QED
    BY <1>3, <1>4, <1>8, <2>1 DEF Join, Quiet
<1>9. CASE HandleUnsubscribe
  <2>1. UNCHANGED <<version, codec, pump>>
    BY <1>9 DEF HandleUnsubscribe, handshake, pumpVars
  <2>2. \/ \E s, request : s \in subscriptions /\ Join(s, "unsubscribe", request)
        \/ /\ UNCHANGED subscriptions /\ coordinator' # "joining"
           /\ UNCHANGED outbound \/ \E request, e : Queue(ErrorMessage(request, e))
    BY <1>9 DEF HandleUnsubscribe, Reply, Complain, Stay
  <2>3. QED
    BY <1>3, <1>4, <1>8, <2>1, <2>2, MessagesAreTalk, FreeIsQuiet
<1>10. CASE OnSubscriptionFinished \/ OnEventSourceFailed
  <2>1. UNCHANGED <<version, codec, pump>>
    BY <1>10 DEF OnSubscriptionFinished, OnEventSourceFailed, TakeEvent, handshake, pumpVars
  <2>2. \/ \E s, reason : s \in subscriptions /\ Join(s, reason, 0)
        \/ UNCHANGED <<subscriptions, outbound>> /\ coordinator' # "joining"
    BY <1>10 DEF OnSubscriptionFinished, OnEventSourceFailed, Leave, Stay
  <2>3. QED
    BY <1>3, <1>4, <1>8, <2>1, <2>2, FreeIsQuiet
<1>11. QED
  BY <1>5, <1>6, <1>7, <1>9, <1>10 DEF QuietAction

(* A hello says that it is accepted, or nothing.                            *)
LEMMA HelloTalks ==
  ASSUME HandleHello
  PROVE  /\ UNCHANGED <<writer, sent>> /\ PumpsStay /\ coordinator = "loop"
         /\ \/ UNCHANGED <<connection, version, codec, outbound>>
            \/ /\ connection.state = "Negotiating" /\ connection'.state # "Negotiating"
               /\ UNCHANGED <<codec, outbound>>
               /\ coordinator' = "complaining" /\ complaint' = SlowConsumer
            \/ /\ connection.state = "Negotiating" /\ connection'.state # "Negotiating"
               /\ codec' = "session"
               /\ \E m : /\ Says(m) /\ m.type = "HelloAccepted"
                         /\ m.content = version' /\ m.codec = "bootstrap"
<1>1. UNCHANGED <<writer, sent>>
  BY LoopActionFrame DEF LoopAction, LoopFrame, TaskVars, writerVars
<1>2. /\ coordinator = "loop" /\ coordinator' \in {"loop", "complaining"}
      /\ UNCHANGED <<pump, subscriptions>>
  BY HelloBegins
<1>3. PumpsStay
  BY <1>2 DEF PumpsStay, Attached
<1>4. \A hello : HelloError(hello) = NoError => connection.state = "Negotiating"
  BY DEF HelloError, NoError, Internal, Error
<1>5. \/ UNCHANGED <<connection, version, codec, outbound>>
      \/ /\ connection.state = "Negotiating"
         /\ connection' = [connection EXCEPT !.state = "Authenticating"]
         /\ \/ /\ UNCHANGED <<codec, outbound>>
               /\ coordinator' = "complaining" /\ complaint' = SlowConsumer
            \/ /\ codec' = "session"
               /\ QueueWith(HelloAccepted(version'), "bootstrap")
  BY <1>4 DEF HandleHello, handshake, Select, Complain
<1>6. ASSUME NEW v, QueueWith(HelloAccepted(v), "bootstrap")
      PROVE  \E m : /\ Says(m) /\ m.type = "HelloAccepted"
                    /\ m.content = v /\ m.codec = "bootstrap"
  BY <1>6, QueueSays DEF HelloAccepted
<1>7. connection.state = "Negotiating" =>
        [connection EXCEPT !.state = "Authenticating"].state # "Negotiating"
  OBVIOUS
<1>8. QED
  BY <1>1, <1>2, <1>3, <1>5, <1>6, <1>7, ZenonT(60)

---------------------------------------------------------------------------
(* What a step leaves in the stream.                                        *)

(* Where a list has messages of a subscription once one is appended.        *)
LEMMA AtAppend ==
  ASSUME NEW u, IsList(u), NEW m
  PROVE  \A type, s : At(Append(u, m), type, s) # {} <=>
                        At(u, type, s) # {} \/ (m.type = type /\ m.subscription = s)
<1> DEFINE v == Append(u, m)
<1>1. /\ \A i \in DOMAIN v : (\E k \in DOMAIN u : v[i] = u[k]) \/ v[i] = m
      /\ \A k \in DOMAIN u : \E i \in DOMAIN v : v[i] = u[k]
      /\ \E i \in DOMAIN v : v[i] = m
  BY AppendHas
<1> HIDE DEF v
<1>2. \A type, s : At(v, type, s) # {} <=>
                     At(u, type, s) # {} \/ (m.type = type /\ m.subscription = s)
  BY <1>1 DEF At
<1>3. QED
  BY <1>2 DEF v

(* And once the writer has gone on.                                         *)
LEMMA AtKept ==
  ASSUME NEW u, NEW v
  PROVE  /\ Kept(u, v) => \A type, s : At(v, type, s) # {} => At(u, type, s) # {}
         /\ KeptAll(u, v) => \A type \in OfSubscription : \A s :
                               At(u, type, s) # {} => At(v, type, s) # {}
<1>1. Kept(u, v) => \A type, s : At(v, type, s) # {} => At(u, type, s) # {}
  BY KeptIsOld DEF At
<1>2. \A type \in OfSubscription : type \notin Native
  BY DEF OfSubscription, Native
<1>3. KeptAll(u, v) => \A type \in OfSubscription : \A s :
                         At(u, type, s) # {} => At(v, type, s) # {}
  BY <1>2, AllStays DEF At
<1>4. QED
  BY <1>1, <1>3

---------------------------------------------------------------------------
(* The events of a subscription.                                            *)

(* A subscription that has a pump was accepted.                             *)
Accepts(u) ==
  \A s \in Subscriptions : Attached(s) => At(u, "SubscriptionAccepted", s) # {}

(* One whose end was told has no pump any more.                             *)
Ended(u) ==
  \A s \in Subscriptions :
    At(u, "SubscriptionClosed", s) # {} => pump[s] = "done" /\ ~Attached(s)

EventInv ==
  Lists /\ EventsOrdered(Stream) /\ (Live => Accepts(Stream)) /\ Ended(Stream) /\ Unjoined

(* The writer goes on, or ends.                                             *)
LEMMA WriterKeepsEvents ==
  ASSUME EventInv, SessionInv, Writer
  PROVE  EventInv'
<1>1. UNCHANGED <<pump, coordinator, joining, subscriptions>>
  BY DEF Writer, WriterTakes, WriterWrites, WriterFails, WriterReports,
     WriterCancels, WriterStops,
         WriterElse, loopVars, pumpVars
<1>2. Lists' /\ (Live' => Live) /\ StreamKept
  BY WriterShows DEF EventInv, SessionInv, JoinInv
<1>3. IsList(Stream) /\ IsList(Stream')
  <2>1. Lists => IsList(Stream)
    BY StreamIsList
  <2>2. (Lists => IsList(Stream))'
    BY StreamIsList, PTL
  <2>3. QED
    BY <1>2, <2>1, <2>2 DEF EventInv
<1>4. PICK u, v : u = Stream /\ v = Stream'
  OBVIOUS
<1>5. IsList(u) /\ IsList(v) /\ Kept(u, v) /\ (Live' => KeptAll(u, v))
  BY <1>2, <1>3, <1>4, AllIsKept DEF StreamKept
<1>6. EventsOrdered(v)
  BY <1>4, <1>5, KeptOrdered DEF EventInv
<1>7. Live' => \A s \in Subscriptions :
                 Attached(s) => At(v, "SubscriptionAccepted", s) # {}
  BY <1>2, <1>4, <1>5, AtKept DEF EventInv, Accepts, OfSubscription
<1>8. \A s \in Subscriptions :
        At(v, "SubscriptionClosed", s) # {} => pump[s] = "done" /\ ~Attached(s)
  BY <1>4, <1>5, AtKept DEF EventInv, Ended
<1>9. \A s : Attached(s)' <=> Attached(s)
  BY <1>1 DEF Attached
<1>10. QED
  BY <1>1, <1>2, <1>4, <1>6, <1>7, <1>8, <1>9
  DEF EventInv, EventsOrdered, Accepts, Ended, Unjoined

(* Where the stream has messages of a subscription, once m is said.         *)
Adds(m) ==
  \A type, s : At(Stream', type, s) # {} <=>
    At(Stream, type, s) # {} \/ (Live /\ m.type = type /\ m.subscription = s)

(* A message may follow what was said.                                      *)
MayFollow(m) ==
  m.subscription \in Subscriptions =>
    /\ m.type \in OfSubscription => At(Stream, "SubscriptionClosed", m.subscription) = {}
    /\ Live /\ m.type \in {"Event", "SubscriptionClosed"} =>
         At(Stream, "SubscriptionAccepted", m.subscription) # {}

(* It is said.                                                              *)
LEMMA SayingKeepsOrder ==
  ASSUME EventInv, UNCHANGED <<writer, sent>>, NEW m, Says(m), MayFollow(m)
  PROVE  Lists' /\ EventsOrdered(Stream') /\ (Live' <=> Live) /\ Adds(m)
<1>1. /\ Live' <=> Live
      /\ Lists'
      /\ ~Live => Stream' = Stream
      /\ Live => Stream' = Append(Stream, m)
  BY OthersShow DEF EventInv
<1>2. IsList(Stream) /\ EventsOrdered(Stream)
  BY StreamIsList DEF EventInv
<1>3. PICK u, v : u = Stream /\ v = Stream'
  OBVIOUS
<1>4. CASE ~Live
  BY <1>1, <1>2, <1>4 DEF Adds
<1>5. CASE Live
  <2>1. v = Append(u, m) /\ IsList(u) /\ EventsOrdered(u)
    BY <1>1, <1>2, <1>3, <1>5
  <2>2. /\ m.type \in OfSubscription /\ m.subscription \in Subscriptions =>
             At(u, "SubscriptionClosed", m.subscription) = {}
        /\ m.type \in {"Event", "SubscriptionClosed"} /\ m.subscription \in Subscriptions =>
             At(u, "SubscriptionAccepted", m.subscription) # {}
    BY <1>3, <1>5 DEF MayFollow
  <2>3. EventsOrdered(v)
    BY <2>1, <2>2, AppendOrdered
  <2>4. \A type, s : At(v, type, s) # {} <=>
                       At(u, type, s) # {} \/ (m.type = type /\ m.subscription = s)
    BY <2>1, AtAppend
  <2>5. QED
    BY <1>1, <1>3, <1>5, <2>3, <2>4 DEF Adds
<1>6. QED
  BY <1>4, <1>5

(* Nothing of a subscription is said.                                       *)
Aside ==
  /\ UNCHANGED <<writer, sent>> /\ PumpsStay
  /\ UNCHANGED outbound \/ \E m : Says(m) /\ m.type \notin OfSubscription

(* The events stay as they are.                                             *)
LEMMA AsideKeepsEvents == ASSUME EventInv, Aside PROVE EventInv'
<1>1. UNCHANGED <<writer, sent>> /\ PumpsStay
  BY DEF Aside
<1>2. /\ Lists' /\ EventsOrdered(Stream') /\ (Live' <=> Live)
      /\ \A type \in OfSubscription : \A s : At(Stream', type, s) # {} <=> At(Stream, type, s) # {}
  <2>1. CASE UNCHANGED outbound
    BY <1>1, <2>1, OthersShow DEF EventInv
  <2>2. ASSUME NEW m, Says(m), m.type \notin OfSubscription
        PROVE  /\ Lists' /\ EventsOrdered(Stream') /\ (Live' <=> Live)
               /\ \A type \in OfSubscription : \A s :
                    At(Stream', type, s) # {} <=> At(Stream, type, s) # {}
    <3>1. MayFollow(m)
      BY <2>2 DEF MayFollow, OfSubscription
    <3>2. QED
      BY <1>1, <2>2, <3>1, SayingKeepsOrder DEF Adds
  <2>3. QED
    BY <1>1, <2>1, <2>2 DEF Aside
<1>3. \A s \in Subscriptions : Attached(s)' => Attached(s)
  BY <1>1 DEF PumpsStay
<1>4. (Live => Accepts(Stream))'
  BY <1>2, <1>3 DEF EventInv, Accepts, OfSubscription
<1>5. Ended(Stream)'
  BY <1>1, <1>2, <1>3 DEF EventInv, Ended, OfSubscription, PumpsStay
<1>6. Unjoined'
  BY <1>1 DEF PumpsStay, Unjoined
<1>7. EventsOrdered(Stream)'
  BY <1>2 DEF EventsOrdered
<1>8. QED
  BY <1>2, <1>4, <1>5, <1>6, <1>7 DEF EventInv

(* A quiet step says nothing of a subscription.                             *)
LEMMA QuietKeepsEvents == ASSUME EventInv, Quiet PROVE EventInv'
BY AsideKeepsEvents DEF Quiet, Talk, Aside

(* Nor does a hello.                                                        *)
LEMMA HelloKeepsEvents == ASSUME EventInv, HandleHello PROVE EventInv'
<1>1. "HelloAccepted" \notin OfSubscription
  BY DEF OfSubscription
<1>2. Aside
  BY <1>1, HelloTalks DEF Aside
<1>3. QED
  BY <1>2, AsideKeepsEvents

(* A subscription is accepted.                                              *)
LEMMA AcceptingKeepsEvents ==
  ASSUME EventInv, SessionInv, Subscribed
  PROVE  EventInv'
<1>1. /\ UNCHANGED <<writer, sent>>
      /\ coordinator = "subscribing" /\ coordinator' # "joining"
  BY SubscribedMoves
<1>2. CASE Quiet
  BY <1>2, QuietKeepsEvents
<1>3. ASSUME NEW s \in Subscriptions, pump[s] = "none",
             pump' = [pump EXCEPT ![s] = "running"],
             subscriptions' = subscriptions \cup {s},
             NEW m, Says(m), m.type = "SubscriptionAccepted", m.subscription = s
      PROVE  EventInv'
  <2>1. At(Stream, "SubscriptionClosed", s) = {}
    BY <1>3 DEF EventInv, Ended
  <2>2. MayFollow(m)
    BY <1>3, <2>1 DEF MayFollow
  <2>3. Lists' /\ EventsOrdered(Stream') /\ (Live' <=> Live) /\ Adds(m)
    BY <1>1, <1>3, <2>2, SayingKeepsOrder
  <2>4. \A r \in Subscriptions : Attached(r)' <=> Attached(r) \/ r = s
    BY <1>1, <1>3 DEF Attached
  <2>5. (Live => Accepts(Stream))'
    BY <1>3, <2>3, <2>4 DEF EventInv, Accepts, Adds
  <2>6. \A r \in Subscriptions : pump[r] = "done" => r # s /\ pump'[r] = "done"
    BY <1>3 DEF SessionInv, PumpInv
  <2>7. \A r \in Subscriptions : At(Stream', "SubscriptionClosed", r) # {} =>
                                   At(Stream, "SubscriptionClosed", r) # {}
    BY <1>3, <2>3 DEF Adds
  <2>8. Ended(Stream)'
    BY <2>4, <2>6, <2>7 DEF EventInv, Ended
  <2>9. EventsOrdered(Stream)'
    BY <2>3 DEF EventsOrdered
  <2>10. QED
    BY <1>1, <2>3, <2>5, <2>8, <2>9 DEF EventInv, Unjoined
<1>4. QED
  BY <1>2, <1>3, SubscribedMoves

(* The end of one is told.                                                  *)
LEMMA ClosingKeepsEvents == ASSUME EventInv, Joined PROVE EventInv'
<1> DEFINE s == joining.subscription
<1>1. /\ UNCHANGED <<writer, sent, pump, subscriptions>>
      /\ coordinator = "joining" /\ coordinator' # "joining"
      /\ pump[s] = "done"
  BY JoinedMoves
<1>2. Attached(s) /\ s \notin subscriptions
  BY <1>1 DEF Attached, EventInv, Unjoined
<1>3. \A r \in Subscriptions : Attached(r)' => Attached(r) /\ r # s
  BY <1>1, <1>2 DEF Attached
<1>4. CASE UNCHANGED outbound
  <2>1. Lists' /\ Stream' = Stream /\ (Live' <=> Live)
    BY <1>1, <1>4, OthersShow DEF EventInv
  <2>2. QED
    BY <1>1, <1>3, <2>1 DEF EventInv, Accepts, Ended, EventsOrdered, Unjoined
<1>5. ASSUME NEW m, Says(m), m.type = "SubscriptionClosed", m.subscription = s
      PROVE  EventInv'
  <2> HIDE DEF s
  <2>1. s \in Subscriptions => At(Stream, "SubscriptionClosed", s) = {}
    BY <1>2 DEF EventInv, Ended
  <2>2. s \in Subscriptions /\ Live => At(Stream, "SubscriptionAccepted", s) # {}
    BY <1>2 DEF EventInv, Accepts
  <2>3. MayFollow(m)
    BY <1>5, <2>1, <2>2 DEF MayFollow
  <2>4. Lists' /\ EventsOrdered(Stream') /\ (Live' <=> Live) /\ Adds(m)
    BY <1>1, <1>5, <2>3, SayingKeepsOrder
  <2>5. (Live => Accepts(Stream))'
    BY <1>3, <2>4 DEF EventInv, Accepts, Adds
  <2>6. \A r \in Subscriptions : At(Stream', "SubscriptionClosed", r) # {} =>
                                   At(Stream, "SubscriptionClosed", r) # {} \/ r = s
    BY <1>5, <2>4 DEF Adds
  <2>7. Ended(Stream)'
    BY <1>1, <1>3, <2>6 DEF EventInv, Ended
  <2>8. EventsOrdered(Stream)'
    BY <2>4 DEF EventsOrdered
  <2>9. QED
    BY <1>1, <2>4, <2>5, <2>7, <2>8 DEF EventInv, Unjoined
<1>6. QED
  BY <1>4, <1>5, JoinedMoves

(* An event is shown.                                                       *)
LEMMA PumpKeepsEvents ==
  ASSUME EventInv, SessionInv, BeforeHello, NEW s \in Subscriptions, Pump(s)
  PROVE  EventInv'
<1>1. /\ UNCHANGED <<writer, sent, coordinator, joining, subscriptions>>
      /\ \/ Quiet
         \/ /\ pump[s] = "running" /\ UNCHANGED pump
            /\ \E m : Says(m) /\ m.type = "Event" /\ m.subscription = s
  BY PumpTalks DEF EventInv
<1>2. CASE Quiet
  BY <1>2, QuietKeepsEvents
<1>3. ASSUME pump[s] = "running", UNCHANGED pump,
             NEW m, Says(m), m.type = "Event", m.subscription = s
      PROVE  EventInv'
  <2>1. Attached(s)
    BY <1>3 DEF SessionInv, PumpInv, Attached
  <2>2. At(Stream, "SubscriptionClosed", s) = {}
    BY <2>1 DEF EventInv, Ended
  <2>3. Live => At(Stream, "SubscriptionAccepted", s) # {}
    BY <2>1 DEF EventInv, Accepts
  <2>4. MayFollow(m)
    BY <1>3, <2>2, <2>3 DEF MayFollow
  <2>5. Lists' /\ EventsOrdered(Stream') /\ (Live' <=> Live) /\ Adds(m)
    BY <1>1, <1>3, <2>4, SayingKeepsOrder
  <2>6. \A r \in Subscriptions : Attached(r)' <=> Attached(r)
    BY <1>1 DEF Attached
  <2>7. (Live => Accepts(Stream))'
    BY <2>5, <2>6 DEF EventInv, Accepts, Adds
  <2>8. Ended(Stream)'
    BY <1>3, <2>5, <2>6 DEF EventInv, Ended, Adds
  <2>9. EventsOrdered(Stream)'
    BY <2>5 DEF EventsOrdered
  <2>10. QED
    BY <1>1, <2>5, <2>7, <2>8, <2>9 DEF EventInv, Unjoined
<1>4. QED
  BY <1>1, <1>2, <1>3

(* The invariant of the events, in every step.                              *)
LEMMA EventStep ==
  ASSUME EventInv, SessionInv, BeforeHello, [Next]_vars
  PROVE  EventInv'
<1>1. CASE Writer
  BY <1>1, WriterKeepsEvents
<1>2. CASE Reader \/ ActionWorker \/ QueryWorker \/ UNCHANGED vars
  BY <1>2, TasksAreQuiet, QuietKeepsEvents DEF EventInv
<1>3. CASE \E s \in Subscriptions : Pump(s)
  BY <1>3, PumpKeepsEvents
<1>4. CASE CloseStep
  BY <1>4, CloseTalks, QuietKeepsEvents
<1>5. CASE LoopAction
  <2>1. QuietAction \/ Subscribed \/ Joined \/ HandleHello
    BY <1>5 DEF LoopAction, QuietAction, PlainAction
  <2>2. QED
    BY <2>1, QuietActionsAreQuiet, QuietKeepsEvents, AcceptingKeepsEvents,
       ClosingKeepsEvents, HelloKeepsEvents
<1>6. QED
  BY <1>1, <1>2, <1>3, <1>4, <1>5, NextCases

(* In the beginning the stream is empty.                                    *)
LEMMA StreamBegins ==
  Init => Lists /\ Live /\ Stream = <<>> /\ DOMAIN Stream = {}
<1> SUFFICES ASSUME Init PROVE Lists /\ Live /\ Stream = <<>> /\ DOMAIN Stream = {}
  OBVIOUS
<1>1. sent = <<>> /\ outbound = <<>> /\ writer.at = "waiting"
  BY DEF Init
<1>2. Lists /\ Live /\ Stream = <<>> \o (<<>> \o <<>>)
  BY <1>1, ShortLists DEF Lists, Live, Stream
<1>3. Stream = <<>>
  BY <1>2, ShortLists, NothingLeft
<1>4. QED
  BY <1>2, <1>3

(* And always.                                                              *)
LEMMA EventsAlways == Spec => [](SessionInv /\ BeforeHello /\ EventInv)
<1>1. Init => BeforeHello
  <2> SUFFICES ASSUME Init PROVE BeforeHello
    OBVIOUS
  <2>1. events = <<>> /\ IsList(<<>>) /\ DOMAIN <<>> = {}
    BY ShortLists DEF Init
  <2>2. QED
    BY <2>1 DEF Init, BeforeHello, NoQueries
<1>2. Init => EventInv
  <2> SUFFICES ASSUME Init PROVE EventInv
    OBVIOUS
  <2>1. \A type, s : At(Stream, type, s) = {}
    BY StreamBegins DEF At
  <2>2. \A s \in Subscriptions : ~Attached(s)
    BY DEF Init, Attached
  <2>3. QED
    BY <2>1, <2>2, StreamBegins DEF EventInv, EventsOrdered, Accepts, Ended, Unjoined, Init
<1>3. SessionInv /\ BeforeHello /\ EventInv /\ [Next]_vars => BeforeHello' /\ EventInv'
  BY BeforeHelloStep, EventStep
<1>4. QED
  BY <1>1, <1>2, <1>3, SessionAlways, PTL DEF Spec

(* The client sees the events of a subscription between its acceptance and  *)
(* its end, of which there is at most one, although the coordinator and the *)
(* pumps write to one channel.                                              *)
THEOREM EventsStayWithin == Spec => []EventsWithinSubscription
<1>1. ASSUME EventInv PROVE EventsWithinSubscription
  <2>1. \A type, s : Of(type, s) = At(Stream, type, s)
    BY DEF Of, At
  <2>2. Len(Stream) \in Nat /\ DOMAIN Stream = 1..Len(Stream)
    BY <1>1, StreamIsList, ListLength DEF EventInv
  <2>3. \A type, s : \A i \in Of(type, s) : i \in Int /\ Stream[i].type = type
    BY <2>2 DEF Of
  <2>4. ASSUME NEW s \in Subscriptions,
               NEW i \in Of("Event", s) \cup Of("SubscriptionClosed", s)
        PROVE  \E j \in Of("SubscriptionAccepted", s) : j < i
    BY <1>1, <2>1 DEF EventInv, EventsOrdered
  <2>5. ASSUME NEW s \in Subscriptions, NEW i \in Of("SubscriptionClosed", s),
               NEW type \in OfSubscription, NEW j \in Of(type, s)
        PROVE  j <= i
    BY <1>1, <2>1 DEF EventInv, EventsOrdered
  <2>6. ASSUME NEW s \in Subscriptions, NEW i \in Of("SubscriptionClosed", s),
               NEW j \in Of("Event", s) \cup Of("SubscriptionAccepted", s)
        PROVE  j < i
    <3>1. j # i /\ i \in Int /\ j \in Int
      BY <2>3
    <3>2. j <= i
      BY <2>5 DEF OfSubscription
    <3>3. QED
      BY <3>1, <3>2
  <2>7. ASSUME NEW s \in Subscriptions PROVE Cardinality(Of("SubscriptionClosed", s)) <= 1
    <3> DEFINE C == Of("SubscriptionClosed", s)
    <3>1. ASSUME NEW i \in C, NEW j \in C PROVE i = j
      <4>1. i <= j /\ j <= i
        BY <2>5 DEF OfSubscription
      <4>2. QED
        BY <2>3, <4>1
    <3>2. QED
      BY <3>1, AtMostOne
  <2>8. QED
    BY <2>4, <2>6, <2>7 DEF EventsWithinSubscription
<1>2. QED
  BY <1>1, EventsAlways, PTL

---------------------------------------------------------------------------
(* The handshake.                                                           *)

(* Nothing carries a version.                                               *)
Plainly(u) == \A i \in DOMAIN u : u[i].type \notin Versioned

(* The codec in use and the version are those the client was told; before   *)
(* the hello, nothing was said that depends on either.                      *)
HelloInv ==
  /\ CodecFollows(Stream) /\ Carries(Stream, version)
  /\ connection.state = "Negotiating" => Plainly(Stream)
  /\ Live => codec = (IF Hellos(Stream) # {} THEN "session" ELSE "bootstrap")

(* A message is said that the client can read, or none.                     *)
Utters ==
  /\ UNCHANGED <<writer, sent, version, codec>>
  /\ UNCHANGED outbound \/ \E m : Says(m) /\ Encoded(m)

(* Every step that is not of the writer and no hello.                       *)
LEMMA OthersUtter ==
  ASSUME SessionInv, BeforeHello, EventInv, [Next]_vars
  PROVE  Writer \/ Utters \/ HandleHello
<1>1. Quiet => Utters
  BY DEF Quiet, Talk, Utters
<1>2. CASE Reader \/ ActionWorker \/ QueryWorker \/ UNCHANGED vars
  BY <1>1, <1>2, TasksAreQuiet DEF EventInv
<1>3. ASSUME NEW s \in Subscriptions, Pump(s) PROVE Utters
  BY <1>1, <1>3, PumpTalks DEF EventInv, Utters
<1>4. CASE CloseStep
  BY <1>1, <1>4, CloseTalks
<1>5. CASE Subscribed
  <2>1. UNCHANGED <<writer, sent, version, codec>>
    BY <1>5, SubscribedMoves
  <2>2. Quiet \/ \E m : Says(m) /\ m.type = "SubscriptionAccepted" /\ m.codec = codec
    BY <1>5, SubscribedMoves
  <2>3. QED
    BY <1>1, <2>1, <2>2 DEF Utters, Encoded, Versioned
<1>6. CASE Joined
  <2>1. /\ UNCHANGED <<writer, sent, version, codec>>
        /\ \/ UNCHANGED outbound
           \/ \E m : Says(m) /\ m.type = "SubscriptionClosed" /\ m.codec = codec
    BY <1>6, JoinedMoves
  <2>2. QED
    BY <2>1 DEF Utters, Encoded, Versioned
<1>7. CASE LoopAction
  <2>1. QuietAction \/ Subscribed \/ Joined \/ HandleHello
    BY <1>7 DEF LoopAction, QuietAction, PlainAction
  <2>2. QED
    BY <1>1, <1>5, <1>6, <2>1, QuietActionsAreQuiet
<1>8. QED
  BY <1>2, <1>3, <1>4, <1>7, NextCases

(* What a message adds to what the stream has.                              *)
LEMMA SayingAdds ==
  ASSUME Lists, UNCHANGED <<writer, sent>>, NEW m, Says(m)
  PROVE  /\ Lists' /\ (Live' <=> Live)
         /\ \A i \in DOMAIN Stream' :
              (\E k \in DOMAIN Stream : Stream'[i] = Stream[k]) \/ Stream'[i] = m
         /\ \A k \in DOMAIN Stream : \E i \in DOMAIN Stream' : Stream'[i] = Stream[k]
         /\ Live => \E i \in DOMAIN Stream' : Stream'[i] = m
<1>1. /\ Live' <=> Live
      /\ Lists'
      /\ ~Live => Stream' = Stream
      /\ Live => Stream' = Append(Stream, m)
  BY OthersShow
<1>2. IsList(Stream)
  BY StreamIsList
<1>3. CASE ~Live
  BY <1>1, <1>3
<1>4. CASE Live
  BY <1>1, <1>2, <1>4, AppendHas
<1>5. QED
  BY <1>1, <1>3, <1>4

(* The writer goes on, or ends.                                             *)
LEMMA WriterKeepsHello ==
  ASSUME EventInv, SessionInv, HelloInv, Writer
  PROVE  HelloInv'
<1>1. UNCHANGED <<connection, version, codec>>
  BY DEF Writer, WriterTakes, WriterWrites, WriterFails, WriterReports,
     WriterCancels, WriterStops,
         WriterElse, loopVars, handshake
<1>2. Lists' /\ (Live' => Live) /\ StreamKept
  BY WriterShows DEF EventInv, SessionInv, JoinInv
<1>3. IsList(Stream) /\ IsList(Stream')
  <2>1. (Lists => IsList(Stream))'
    BY StreamIsList, PTL
  <2>2. QED
    BY <1>2, <2>1, StreamIsList DEF EventInv
<1>4. PICK u, v : u = Stream /\ v = Stream'
  OBVIOUS
<1>5. IsList(u) /\ IsList(v) /\ Kept(u, v) /\ (Live' => KeptAll(u, v))
  BY <1>2, <1>3, <1>4, AllIsKept DEF StreamKept
<1>6. CodecFollows(v)
  BY <1>4, <1>5, KeptCodec DEF HelloInv
<1>7. \A i \in DOMAIN v : \E k \in DOMAIN u : v[i] = u[k]
  BY <1>5, KeptIsOld
<1>8. Live' => \A k \in DOMAIN u :
                 u[k].type = "HelloAccepted" => \E i \in DOMAIN v : v[i] = u[k]
  BY <1>5, AllStays DEF Native
<1>9. Live' => (Hellos(v) # {} <=> Hellos(u) # {})
  BY <1>7, <1>8 DEF Hellos
<1>10. Carries(v, version) /\ (connection.state = "Negotiating" => Plainly(v))
  BY <1>4, <1>7 DEF HelloInv, Carries, Plainly
<1>11. Live' => codec = (IF Hellos(v) # {} THEN "session" ELSE "bootstrap")
  BY <1>2, <1>4, <1>9 DEF HelloInv
<1>12. QED
  BY <1>1, <1>4, <1>6, <1>10, <1>11 DEF HelloInv, CodecFollows, Carries, Plainly, Hellos

(* A message that the client can read is said.                              *)
LEMMA UtteringKeepsHello ==
  ASSUME EventInv, HelloInv, Utters,
         connection'.state = "Negotiating" => connection.state = "Negotiating"
  PROVE  HelloInv'
<1>1. Lists /\ IsList(Stream) /\ UNCHANGED <<writer, sent, version, codec>>
  BY StreamIsList DEF EventInv, Utters
<1>2. CASE UNCHANGED outbound
  <2>1. Stream' = Stream /\ (Live' <=> Live)
    BY <1>1, <1>2, OthersShow
  <2>2. QED
    BY <1>1, <2>1 DEF HelloInv, CodecFollows, Carries, Plainly, Hellos
<1>3. ASSUME NEW m, Says(m), Encoded(m) PROVE HelloInv'
  <2>1. /\ Live' <=> Live
        /\ ~Live => Stream' = Stream
        /\ Live => Stream' = Append(Stream, m)
    BY <1>1, <1>3, OthersShow
  <2>2. CASE ~Live
    BY <1>1, <2>1, <2>2 DEF HelloInv, CodecFollows, Carries, Plainly, Hellos
  <2>3. CASE Live
    <3>1. PICK u, v : u = Stream /\ v = Stream'
      OBVIOUS
    <3>2. v = Append(u, m) /\ IsList(u)
      BY <1>1, <2>1, <2>3, <3>1
    <3>3. /\ m.type # "HelloAccepted" /\ m.codec = codec
          /\ m.type \in Versioned => m.content = version /\ connection.state # "Negotiating"
      BY <1>3 DEF Encoded
    <3>4. CodecFollows(u) /\ codec = (IF Hellos(u) # {} THEN "session" ELSE "bootstrap")
      BY <2>3, <3>1 DEF HelloInv
    <3>5. CodecFollows(v)
      BY <3>2, <3>3, <3>4, AppendCodec
    <3>6. /\ \A i \in DOMAIN v : (\E k \in DOMAIN u : v[i] = u[k]) \/ v[i] = m
          /\ \A k \in DOMAIN u : \E i \in DOMAIN v : v[i] = u[k]
      BY <3>2, AppendHas
    <3>7. Hellos(v) # {} <=> Hellos(u) # {}
      BY <3>3, <3>6 DEF Hellos
    <3>8. Carries(v, version)
      BY <3>1, <3>3, <3>6 DEF HelloInv, Carries
    <3>9. connection'.state = "Negotiating" => Plainly(v)
      BY <3>1, <3>3, <3>6 DEF HelloInv, Plainly
    <3>10. QED
      BY <1>1, <3>1, <3>4, <3>5, <3>7, <3>8, <3>9
      DEF HelloInv, CodecFollows, Carries, Plainly, Hellos
  <2>4. QED
    BY <2>2, <2>3
<1>4. QED
  BY <1>2, <1>3 DEF Utters

(* A hello is taken.                                                        *)
LEMMA HelloKeepsHello ==
  ASSUME EventInv, HelloInv, HandleHello
  PROVE  HelloInv'
<1>1. Lists /\ IsList(Stream) /\ UNCHANGED <<writer, sent>>
  BY StreamIsList, HelloTalks DEF EventInv
<1>2. CASE UNCHANGED <<connection, version, codec, outbound>>
  <2>1. Stream' = Stream /\ (Live' <=> Live)
    BY <1>1, <1>2, OthersShow
  <2>2. QED
    BY <1>2, <2>1 DEF HelloInv, CodecFollows, Carries, Plainly, Hellos
<1>3. CASE /\ connection.state = "Negotiating" /\ connection'.state # "Negotiating"
           /\ UNCHANGED <<codec, outbound>>
  <2>1. Stream' = Stream /\ (Live' <=> Live)
    BY <1>1, <1>3, OthersShow
  <2>2. Plainly(Stream)
    BY <1>3 DEF HelloInv
  <2>3. QED
    BY <1>3, <2>1, <2>2 DEF HelloInv, CodecFollows, Carries, Plainly, Hellos
<1>4. ASSUME connection.state = "Negotiating", connection'.state # "Negotiating",
             codec' = "session", NEW m, Says(m), m.type = "HelloAccepted",
             m.content = version', m.codec = "bootstrap"
      PROVE  HelloInv'
  <2>1. /\ Live' <=> Live
        /\ ~Live => Stream' = Stream
        /\ Live => Stream' = Append(Stream, m)
    BY <1>1, <1>4, OthersShow
  <2>2. Plainly(Stream)
    BY <1>4 DEF HelloInv
  <2>3. CASE ~Live
    BY <1>4, <2>1, <2>2, <2>3 DEF HelloInv, CodecFollows, Carries, Plainly, Hellos
  <2>4. CASE Live
    <3>1. PICK u, v : u = Stream /\ v = Stream'
      OBVIOUS
    <3>2. v = Append(u, m) /\ IsList(u) /\ CodecFollows(u)
      BY <1>1, <2>1, <2>4, <3>1 DEF HelloInv
    <3>3. Hellos(u) = {}
      BY <2>2, <3>1 DEF Plainly, Hellos, Versioned
    <3>4. CodecFollows(v)
      BY <1>4, <3>2, <3>3, AppendCodec
    <3>5. /\ \A i \in DOMAIN v : (\E k \in DOMAIN u : v[i] = u[k]) \/ v[i] = m
          /\ \E i \in DOMAIN v : v[i] = m
      BY <3>2, AppendHas
    <3>6. Hellos(v) # {}
      BY <1>4, <3>5 DEF Hellos
    <3>7. Carries(v, version')
      BY <1>4, <2>2, <3>1, <3>5 DEF Carries, Plainly
    <3>8. QED
      BY <1>4, <3>1, <3>4, <3>6, <3>7 DEF HelloInv, CodecFollows, Carries, Plainly, Hellos
  <2>5. QED
    BY <2>3, <2>4
<1>5. QED
  BY <1>2, <1>3, <1>4, HelloTalks

(* Always.                                                                  *)
LEMMA HelloAlways == Spec => [](EventInv /\ HelloInv)
<1>1. Init => HelloInv
  BY StreamBegins DEF HelloInv, CodecFollows, Carries, Plainly, Hellos, Init
<1>2. SessionInv /\ BeforeHello /\ EventInv /\ HelloInv /\ [Next]_vars => HelloInv'
  BY NeverRenegotiates, OthersUtter, WriterKeepsHello, UtteringKeepsHello, HelloKeepsHello
<1>3. QED
  BY <1>1, <1>2, EventsAlways, PTL DEF Spec

(* A client that follows the protocol can decode what it sees, also when    *)
(* HelloAccepted found no room and the connection went on.                  *)
THEOREM ClientsCanDecode == Spec => []ClientCanDecode
<1>1. ASSUME EventInv, HelloInv PROVE ClientCanDecode
  <2> DEFINE H == Hellos(Stream)
  <2>1. CodecFollows(Stream) /\ Carries(Stream, version)
    BY <1>1 DEF HelloInv
  <2>2. Cardinality(H) <= 1
    <3>1. \A i, j \in H : i = j
      BY <2>1 DEF CodecFollows
    <3>2. QED
      BY <3>1, AtMostOne
  <2>3. \A i \in DOMAIN Stream : Stream[i].type \notin Native =>
          Stream[i].codec = (IF \E h \in H : h < i THEN "session" ELSE "bootstrap")
    BY <2>1 DEF CodecFollows
  <2>4. \A i \in DOMAIN Stream : Stream[i].type \in {"Event", "QueryResponse"} =>
          \A h \in H : Stream[i].content = Stream[h].content
    BY <2>1 DEF Carries, Hellos, Versioned
  <2>5. H = {i \in DOMAIN Stream : Stream[i].type = "HelloAccepted"}
    BY DEF Hellos
  <2> HIDE DEF H
  <2>6. QED
    BY <2>2, <2>3, <2>4, <2>5 DEF ClientCanDecode
<1>2. QED
  BY <1>1, HelloAlways, PTL

---------------------------------------------------------------------------
(* The hello that was lost.                                                 *)

(* The error for a client that is slow is still to be told.                 *)
Owing == coordinator = "complaining" /\ complaint = SlowConsumer

(* A client whose hello was taken knows of it, or is told next.             *)
ToldInv ==
  Live /\ connection.state # "Negotiating" /\ coordinator \in Looping /\ ~Owing =>
    Told(Stream)

(* What has been told stays told while the writer goes on.                  *)
LEMMA ToldStays ==
  ASSUME SessionInv, BeforeHello, EventInv, [Next]_vars, Live'
  PROVE  Live /\ (Told(Stream) => Told(Stream'))
<1>1. ASSUME Lists, UNCHANGED <<writer, sent>>, NEW m, Says(m)
      PROVE  Live /\ (Told(Stream) => Told(Stream'))
  BY <1>1, SayingAdds DEF Told
<1>2. ASSUME Lists, UNCHANGED <<writer, sent, outbound>>
      PROVE  Live /\ (Told(Stream) => Told(Stream'))
  BY <1>2, OthersShow
<1>3. CASE Utters \/ HandleHello
  <2>1. /\ UNCHANGED <<writer, sent>> /\ Lists
        /\ UNCHANGED outbound \/ \E m : Says(m)
    BY <1>3, HelloTalks DEF Utters, EventInv
  <2>2. QED
    BY <1>1, <1>2, <2>1
<1>4. CASE Writer
  <2>1. Live /\ KeptAll(Stream, Stream')
    BY <1>4, WriterShows DEF EventInv, SessionInv, JoinInv, StreamKept
  <2>2. PICK u, v : u = Stream /\ v = Stream'
    OBVIOUS
  <2>3. \A k \in DOMAIN u : u[k].type \notin Native => \E i \in DOMAIN v : v[i] = u[k]
    BY <2>1, <2>2, AllStays
  <2>4. Told(u) => Told(v)
    BY <2>3 DEF Told, IsSlow, Native
  <2>5. QED
    BY <2>1, <2>2, <2>4
<1>5. QED
  BY <1>3, <1>4, OthersUtter

(* The coordinator stays in its loop, or leaves it for good; what it owes   *)
(* the client it pays before anything else.                                 *)
LEMMA LoopIsLeftOnce ==
  ASSUME SessionInv, BeforeHello, EventInv, [Next]_vars, coordinator' \in Looping
  PROVE  /\ coordinator \in Looping
         /\ Owing => Owing' \/ ReportComplaint
<1>1. CASE LoopAction
  <2>1. coordinator \in Looping
    BY <1>1, LoopCases, PlainActionIsPlain, PumpActionMoves, HelloBegins, ActionIsBound
    DEF Plain, PumpMove, HandleAuthenticate, TakeMessage, TakeFrame, Resolve, Looping,
        SessionInv
  <2>2. coordinator = "complaining" => ReportComplaint
    BY <1>1 DEF LoopAction, TakeMessage, TakeFrame, TakeEvent, HandleGarbage, HandleClose,
       HandleNative, InputEnds, HandleHello, HandleAuthenticate, Resolve, HandlePing,
       HandleAction, HandleQuery, HandleSubscribe, Subscribed, HandleUnsubscribe, Joined,
       OnActionCompleted, OnQueryCompleted, OnSubscriptionFinished,
       OnEventSourceFailed, OnSlowConsumer, OnTaskFailed, Heartbeat
  <2>3. QED
    BY <2>1, <2>2 DEF Owing
<1>2. CASE CloseStep
  BY <1>2, CloseTalks
<1>3. CASE Reader \/ ActionWorker \/ QueryWorker \/ UNCHANGED vars
  BY <1>3, TasksAreQuiet DEF EventInv, Owing
<1>4. CASE \E s \in Subscriptions : Pump(s)
  BY <1>4, PumpTalks DEF EventInv, Owing
<1>5. CASE Writer
  BY <1>5 DEF Writer, WriterTakes, WriterWrites, WriterFails, WriterReports,
     WriterCancels, WriterStops,
              WriterElse, loopVars, Owing
<1>6. QED
  BY <1>1, <1>2, <1>3, <1>4, <1>5, NextCases

(* What it owes is told, if the loop goes on.                               *)
LEMMA OwedIsSaid ==
  ASSUME Owing, ReportComplaint, coordinator' \in Looping
  PROVE  \E m : Says(m) /\ IsSlow(m)
<1>1. Queue(ErrorMessage(0, SlowConsumer))
  BY DEF ReportComplaint, Owing, Looping
<1>2. IsRetryable(SlowConsumer) = TRUE
  BY DEF IsRetryable, SlowConsumer, Error
<1> DEFINE c == <<Code(SlowConsumer), TRUE>>
<1>3. QueueWith(Outbound("Error", 0, NoSubscription, c), codec)
  BY <1>1, <1>2 DEF ErrorMessage, Queue
<1> HIDE DEF c
<1>4. PICK m : Says(m) /\ m.type = "Error" /\ m.content = c
  BY <1>3, QueueSays
<1>5. QED
  BY <1>4 DEF IsSlow, c

(* Always.                                                                  *)
LEMMA ToldStep ==
  ASSUME SessionInv, BeforeHello, EventInv, ToldInv, [Next]_vars
  PROVE  ToldInv'
<1> SUFFICES ASSUME Live', connection'.state # "Negotiating", coordinator' \in Looping, ~Owing'
             PROVE  Told(Stream')
  BY DEF ToldInv, Told, IsSlow
<1>1. Live /\ (Told(Stream) => Told(Stream'))
  BY ToldStays
<1>2. coordinator \in Looping /\ (Owing => ReportComplaint)
  BY LoopIsLeftOnce
<1>3. CASE connection.state # "Negotiating" /\ ~Owing
  BY <1>1, <1>2, <1>3 DEF ToldInv
<1>4. CASE Owing
  <2>1. PICK m : Says(m) /\ IsSlow(m)
    BY <1>2, <1>4, OwedIsSaid
  <2>2. UNCHANGED <<writer, sent>>
    BY <1>2, <1>4 DEF ReportComplaint, TaskVars, writerVars
  <2>3. \E i \in DOMAIN Stream' : Stream'[i] = m
    BY <1>1, <2>1, <2>2, SayingAdds DEF EventInv
  <2>4. QED
    BY <2>1, <2>3 DEF Told
<1>5. CASE connection.state = "Negotiating"
  <2>1. HandleHello
    <3>1. connection'.state # "Closed"
      <4>1. coordinator' \notin Shutting
        BY DEF Looping, Shutting, PumpsJoined
      <4>2. SessionInv'
        BY SessionStep
      <4>3. QED
        BY <4>1, <4>2 DEF SessionInv, ConnectionInv
    <3>2. QED
      BY <1>5, <3>1, NeverRenegotiates
  <2>2. PICK m : Says(m) /\ m.type = "HelloAccepted"
    BY <1>5, <2>1, HelloTalks DEF Owing
  <2>3. UNCHANGED <<writer, sent>>
    BY <2>1, HelloTalks
  <2>4. \E i \in DOMAIN Stream' : Stream'[i] = m
    BY <1>1, <2>2, <2>3, SayingAdds DEF EventInv
  <2>5. QED
    BY <2>2, <2>4 DEF Told
<1>6. QED
  BY <1>3, <1>4, <1>5

(* A client whose hello was taken without the room for HelloAccepted is     *)
(* told that it is slow before anything else is taken from it, or the       *)
(* session ends.                                                            *)
THEOREM LostHellosAreTold == Spec => []LostHelloIsTold
<1>1. Init => ToldInv
  BY DEF Init, ToldInv
<1>2. SessionInv /\ BeforeHello /\ EventInv /\ ToldInv /\ [Next]_vars => ToldInv'
  BY ToldStep
<1>3. ToldInv => LostHelloIsTold
  BY DEF ToldInv, LostHelloIsTold, Live, Looping, Owing, Told, IsSlow
<1>4. QED
  BY <1>1, <1>2, <1>3, EventsAlways, PTL DEF Spec
=============================================================================
