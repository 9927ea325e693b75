------------------------- MODULE SessionRequestProofs -------------------------
(***************************************************************************)
(* The way of a request through a WebSocketSession.  A query goes from the *)
(* input through the query worker's channel, the queries in flight and the *)
(* event channel into the stream; an action from the input through the     *)
(* action worker, one at a time, and its completion through the event      *)
(* channel into the stream.  The proofs say where a request is: a query is *)
(* in one place at a time, and the actions are in their places in the      *)
(* order of their numbers.                                                 *)
(***************************************************************************)
EXTENDS SessionStreamProofs

---------------------------------------------------------------------------
(* Requests in lists.                                                       *)

(* Whether x, an element of one of the lists of the session, stands for a   *)
(* request: a frame, a job, a waiting query, an event or a message.         *)
Is(x, kind) ==
  \/ kind \in {"action", "query"} /\ IsA(x, kind)
  \/ kind \in {"job", "waiting"}
  \/ kind = "completed" /\ x.type = "ActionCompleted"
  \/ kind = "answered" /\ x.type = "QueryCompleted"
  \/ kind = "response" /\ x.type = "QueryResponse"
  \/ kind = "reply" /\ IsReply(x)

(* And for which one.                                                       *)
Ident(x, kind) ==
  IF kind \in {"action", "query"} THEN RequestOf(x)
  ELSE IF kind = "waiting" THEN x ELSE x.request

Where(u, kind) == {i \in DOMAIN u : Is(u[i], kind)}

Ids(u, kind) == {Ident(u[i], kind) : i \in Where(u, kind)}

(* No request is in u twice.                                                *)
Once(u, kind) ==
  \A i, j \in Where(u, kind) : Ident(u[i], kind) = Ident(u[j], kind) => i = j

(* The requests of u are in the order of their numbers.                     *)
Rising(u, kind) ==
  \A i, j \in Where(u, kind) : i < j => Ident(u[i], kind) < Ident(u[j], kind)

(* v has, in their order, some of the requests of u.                        *)
Passes(u, v, kind) ==
  /\ Ids(v, kind) \subseteq Ids(u, kind)
  /\ Once(u, kind) => Once(v, kind)
  /\ Rising(u, kind) => Rising(v, kind)

(* v has the requests of u.                                                 *)
Same(u, v, kind) == Passes(u, v, kind) /\ Ids(v, kind) = Ids(u, kind)

Below(A, B) == \A x \in A, y \in B : x < y

---------------------------------------------------------------------------
(* The places of a request.                                                 *)

(* What the client has sent and is yet to send, in its order.               *)
Held == IF reader.at = "sending" THEN <<reader.frame>> ELSE <<>>
Input == inbound \o (Held \o script)

Stages == {"input", "queue", "flight", "reporting", "events", "stream"}

(* The queries at each stage.                                               *)
Places ==
  [input |-> Ids(Input, "query"), queue |-> Ids(queryQueue, "waiting"),
   flight |-> inFlight,
   reporting |-> IF queryWorker.at = "reporting" THEN {queryWorker.request} ELSE {},
   events |-> Ids(events, "answered"), stream |-> Ids(Stream, "response")]

Apart(P) == \A a, b \in Stages : a # b => P[a] \cap P[b] = {}

(* A query is in one place, and there once.                                 *)
QueryInv ==
  /\ IsList(queryQueue)
  /\ Once(Input, "query") /\ Once(queryQueue, "waiting")
  /\ Once(events, "answered") /\ Once(Stream, "response")
  /\ Apart(Places)

(* The actions that are being executed, and reported.                       *)
Doing == IF actionWorker.at = "executing" THEN {actionWorker.job.request} ELSE {}
Reporting == IF actionWorker.at = "reporting" THEN {actionWorker.job.request} ELSE {}

Numbers == Nat \ {0}

(* Four sets of numbers, one after the other.                               *)
Chain(A, B, C, D) ==
  /\ A \subseteq Numbers /\ B \subseteq Numbers /\ C \subseteq Numbers /\ D \subseteq Numbers
  /\ Below(A, B) /\ Below(A, C) /\ Below(A, D)
  /\ Below(B, C) /\ Below(B, D) /\ Below(C, D)

(* Actions are executed in their order: what has been executed comes before *)
(* what is being executed, this before what waits and that before what is   *)
(* still to be read.                                                        *)
OrderInv ==
  /\ Rising(Input, "action") /\ Rising(actionQueue, "job") /\ Rising(executed, "job")
  /\ Chain(Ids(executed, "job"), Doing, Ids(actionQueue, "job"), Ids(Input, "action"))

(* S has with a request every earlier one of E.                             *)
Downward(S, E) == \A x \in S, y \in E : y < x => y \in S

(* The results of executors.                                                *)
Results == {NoError} \cup ExecutionErrors

ResultInv ==
  /\ \A i \in Where(events, "completed") : events[i].result \in Results
  /\ actionWorker.at = "reporting" => actionWorker.result \in Results

(* The replies of the stream, those to come and the one that is reported.   *)
AnswersFollow(S, C, R, E) ==
  /\ C \subseteq E
  /\ Below(S, C) /\ Below(S, R) /\ Below(C, R)
  /\ E \subseteq S \cup C \cup R

(* The replies of the client are those of the first actions, and while the  *)
(* writer and the loop go on every other action that was executed is going  *)
(* to be replied to, in order.                                              *)
AnswerInv ==
  /\ Rising(Stream, "reply")
  /\ Ids(Stream, "reply") \subseteq Ids(executed, "job")
  /\ Downward(Ids(Stream, "reply"), Ids(executed, "job"))
  /\ Reporting \subseteq Ids(executed, "job")
  /\ Live /\ coordinator \in Looping =>
       /\ Rising(events, "completed")
       /\ AnswersFollow(Ids(Stream, "reply"), Ids(events, "completed"), Reporting,
                        Ids(executed, "job"))

---------------------------------------------------------------------------
(* Lemmas about lists.                                                      *)

(* What the requests of a list are.                                         *)
LEMMA IdsAre ==
  ASSUME NEW u, NEW kind, NEW x
  PROVE  x \in Ids(u, kind) <=>
           \E i \in DOMAIN u : Is(u[i], kind) /\ x = Ident(u[i], kind)
BY DEF Ids, Where

(* A list that is part of another one, in its order.                        *)
LEMMA PartPasses ==
  ASSUME NEW u, NEW v, NEW kind, NEW f \in [DOMAIN v -> DOMAIN u],
         DOMAIN u \subseteq Int, DOMAIN v \subseteq Int,
         \A i \in DOMAIN v : v[i] = u[f[i]],
         \A i, j \in DOMAIN v : i < j => f[i] < f[j]
  PROVE  Passes(u, v, kind)
<1>1. \A i \in Where(v, kind) : f[i] \in Where(u, kind) /\ v[i] = u[f[i]]
  BY DEF Where
<1>2. Ids(v, kind) \subseteq Ids(u, kind)
  BY <1>1 DEF Ids
<1>3. ASSUME Once(u, kind), NEW i \in Where(v, kind), NEW j \in Where(v, kind),
             Ident(v[i], kind) = Ident(v[j], kind)
      PROVE  i = j
  <2>1. f[i] = f[j]
    BY <1>1, <1>3 DEF Once
  <2>2. i \in Int /\ j \in Int /\ f[i] \in Int /\ i \in DOMAIN v /\ j \in DOMAIN v
    BY DEF Where
  <2>3. ~(i < j) /\ ~(j < i)
    BY <2>1, <2>2
  <2>4. QED
    BY <2>2, <2>3
<1>4. ASSUME Rising(u, kind), NEW i \in Where(v, kind), NEW j \in Where(v, kind), i < j
      PROVE  Ident(v[i], kind) < Ident(v[j], kind)
  <2>1. f[i] < f[j]
    BY <1>4 DEF Where
  <2>2. QED
    BY <1>1, <1>4, <2>1 DEF Rising
<1>5. QED
  BY <1>2, <1>3, <1>4 DEF Passes, Once, Rising

(* A list passes itself on.                                                 *)
LEMMA SameAsItself == ASSUME NEW u, NEW kind PROVE Same(u, u, kind)
BY DEF Same, Passes

(* What is passed on twice is passed on.                                    *)
LEMMA PassesOn ==
  ASSUME NEW u, NEW v, NEW w, NEW kind, Passes(u, v, kind), Passes(v, w, kind)
  PROVE  Passes(u, w, kind)
BY DEF Passes

(* The first element is taken.                                              *)
LEMMA TailRequests ==
  ASSUME NEW u, IsList(u), u # <<>>, NEW kind
  PROVE  /\ IsList(Tail(u))
         /\ Passes(u, Tail(u), kind)
         /\ ~Is(Head(u), kind) => Same(u, Tail(u), kind)
         /\ Is(Head(u), kind) =>
              /\ Ids(u, kind) = Ids(Tail(u), kind) \cup {Ident(Head(u), kind)}
              /\ Once(u, kind) => Ident(Head(u), kind) \notin Ids(Tail(u), kind)
              /\ Rising(u, kind) => \A y \in Ids(Tail(u), kind) : Ident(Head(u), kind) < y
<1> DEFINE v == Tail(u)
           n == Len(u)
           f == [i \in 1..(n - 1) |-> i + 1]
<1>1. /\ IsList(v) /\ n \in Nat /\ n >= 1 /\ Len(v) = n - 1
      /\ \A i \in 1..(n - 1) : v[i] = u[i + 1]
      /\ Head(u) = u[1]
  BY TailList
<1>2. DOMAIN u = 1..n /\ DOMAIN v = 1..(n - 1)
  BY <1>1, ListLength
<1> HIDE DEF v, n
<1>3. f \in [1..(n - 1) -> 1..n] /\ \A i \in 1..(n - 1) : f[i] = i + 1
  BY <1>1
<1> HIDE DEF f
<1>4. 1..n \subseteq Int /\ 1..(n - 1) \subseteq Int /\ 1 \in 1..n
  BY <1>1
<1>5. Passes(u, v, kind)
  <2>1. \A i, j \in 1..(n - 1) : i < j => f[i] < f[j]
    BY <1>3
  <2>2. QED
    BY <1>1, <1>2, <1>3, <1>4, <2>1, PartPasses
<1>6. ASSUME NEW i \in Where(u, kind), i # 1
      PROVE  Ident(u[i], kind) \in Ids(v, kind)
  <2> DEFINE j == i - 1
  <2>1. i \in 1..n /\ Is(u[i], kind)
    BY <1>2 DEF Where
  <2>2. j \in 1..(n - 1) /\ i = j + 1
    BY <1>1, <1>6, <2>1
  <2> HIDE DEF j
  <2>3. v[j] = u[i]
    BY <1>1, <2>2
  <2>4. QED
    BY <1>2, <2>1, <2>2, <2>3, IdsAre
<1>7. ASSUME NEW y \in Ids(v, kind)
      PROVE  \E i \in Where(u, kind) : i # 1 /\ 1 < i /\ y = Ident(u[i], kind)
  <2>1. PICK j \in 1..(n - 1) : Is(v[j], kind) /\ y = Ident(v[j], kind)
    BY <1>2, <1>7 DEF Ids, Where
  <2>2. j + 1 \in 1..n /\ j + 1 # 1 /\ 1 < j + 1 /\ v[j] = u[j + 1]
    BY <1>1
  <2>3. QED
    BY <1>2, <2>1, <2>2 DEF Where
<1>8. ASSUME ~Is(Head(u), kind) PROVE Same(u, v, kind)
  <2>1. \A i \in Where(u, kind) : i # 1
    BY <1>1, <1>8 DEF Where
  <2>2. Ids(u, kind) \subseteq Ids(v, kind)
    BY <1>6, <2>1 DEF Ids
  <2>3. QED
    BY <1>5, <2>2 DEF Same, Passes
<1>9. ASSUME Is(Head(u), kind)
      PROVE  /\ Ids(u, kind) = Ids(v, kind) \cup {Ident(Head(u), kind)}
             /\ Once(u, kind) => Ident(Head(u), kind) \notin Ids(v, kind)
             /\ Rising(u, kind) => \A y \in Ids(v, kind) : Ident(Head(u), kind) < y
  <2>1. 1 \in Where(u, kind) /\ Ident(Head(u), kind) = Ident(u[1], kind)
    BY <1>1, <1>2, <1>4, <1>9 DEF Where
  <2>2. Ids(u, kind) \subseteq Ids(v, kind) \cup {Ident(Head(u), kind)}
    BY <1>6, <2>1 DEF Ids
  <2>3. Ident(Head(u), kind) \in Ids(u, kind) /\ Ids(v, kind) \subseteq Ids(u, kind)
    BY <1>5, <2>1 DEF Ids, Passes
  <2>4. Once(u, kind) => Ident(Head(u), kind) \notin Ids(v, kind)
    BY <1>7, <2>1 DEF Once
  <2>5. Rising(u, kind) => \A y \in Ids(v, kind) : Ident(Head(u), kind) < y
    BY <1>7, <2>1 DEF Rising
  <2>6. QED
    BY <2>2, <2>3, <2>4, <2>5
<1>10. QED
  BY <1>1, <1>5, <1>8, <1>9 DEF v

(* What remains of a list was in it.                                        *)
LEMMA TailIsOld ==
  ASSUME NEW u, IsList(u), u # <<>>
  PROVE  \A i \in DOMAIN Tail(u) : \E k \in DOMAIN u : Tail(u)[i] = u[k]
<1> DEFINE v == Tail(u)
           n == Len(u)
<1>1. /\ IsList(v) /\ n \in Nat /\ n >= 1 /\ Len(v) = n - 1
      /\ \A i \in 1..(n - 1) : v[i] = u[i + 1]
  BY TailList
<1>2. DOMAIN u = 1..n /\ DOMAIN v = 1..(n - 1)
  BY <1>1, ListLength
<1> HIDE DEF v, n
<1>3. \A i \in 1..(n - 1) : i + 1 \in 1..n
  BY <1>1
<1>4. QED
  BY <1>1, <1>2, <1>3 DEF v

(* An element is appended.                                                  *)
LEMMA AppendRequests ==
  ASSUME NEW u, IsList(u), NEW m, NEW kind
  PROVE  /\ IsList(Append(u, m))
         /\ ~Is(m, kind) => Same(u, Append(u, m), kind)
         /\ Is(m, kind) =>
              /\ Ids(Append(u, m), kind) = Ids(u, kind) \cup {Ident(m, kind)}
              /\ Once(u, kind) /\ Ident(m, kind) \notin Ids(u, kind) =>
                   Once(Append(u, m), kind)
              /\ Rising(u, kind) /\ (\A y \in Ids(u, kind) : y < Ident(m, kind)) =>
                   Rising(Append(u, m), kind)
<1> DEFINE v == Append(u, m)
           n == Len(u)
<1>1. /\ IsList(v) /\ DOMAIN v = 1..(n + 1) /\ n \in Nat /\ DOMAIN u = 1..n
      /\ \A i \in 1..n : v[i] = u[i]
      /\ v[n + 1] = m
  BY AppendList, ListLength
<1> HIDE DEF v, n
<1>2. /\ 1..(n + 1) = 1..n \cup {n + 1} /\ n + 1 \notin 1..n
      /\ \A i \in 1..n : i < n + 1 /\ ~(n + 1 < i)
      /\ ~(n + 1 < n + 1)
  BY <1>1
<1>3. Where(u, kind) = Where(v, kind) \ {n + 1}
  BY <1>1, <1>2 DEF Where
<1>4. \A i \in Where(u, kind) : i \in 1..n /\ v[i] = u[i]
  BY <1>1 DEF Where
<1>5. ASSUME ~Is(m, kind) PROVE Same(u, v, kind)
  <2>1. Where(u, kind) = Where(v, kind)
    BY <1>1, <1>3, <1>5 DEF Where
  <2>2. QED
    BY <1>4, <2>1 DEF Same, Passes, Ids, Once, Rising
<1>6. ASSUME Is(m, kind)
      PROVE  /\ Ids(v, kind) = Ids(u, kind) \cup {Ident(m, kind)}
             /\ Once(u, kind) /\ Ident(m, kind) \notin Ids(u, kind) => Once(v, kind)
             /\ Rising(u, kind) /\ (\A y \in Ids(u, kind) : y < Ident(m, kind)) =>
                  Rising(v, kind)
  <2>1. Where(v, kind) = Where(u, kind) \cup {n + 1} /\ v[n + 1] = m
    BY <1>1, <1>2, <1>3, <1>6 DEF Where
  <2>2. Ids(v, kind) = Ids(u, kind) \cup {Ident(m, kind)}
    BY <1>4, <2>1 DEF Ids
  <2>3. \A i \in Where(u, kind) : Ident(v[i], kind) \in Ids(u, kind)
    BY <1>4 DEF Ids
  <2>4. Once(u, kind) /\ Ident(m, kind) \notin Ids(u, kind) => Once(v, kind)
    BY <1>4, <2>1, <2>3 DEF Once
  <2>5. Rising(u, kind) /\ (\A y \in Ids(u, kind) : y < Ident(m, kind)) =>
          Rising(v, kind)
    BY <1>2, <1>4, <2>1, <2>3 DEF Rising
  <2>6. QED
    BY <2>2, <2>4, <2>5
<1>7. QED
  BY <1>1, <1>5, <1>6 DEF v

(* The writer shows v of u.                                                 *)
LEMMA KeptPasses ==
  ASSUME NEW u, IsList(u), NEW v, IsList(v), Kept(u, v), NEW kind
  PROVE  Passes(u, v, kind)
<1>1. DOMAIN u \subseteq Int /\ DOMAIN v \subseteq Int
  BY ListLength
<1>2. PICK f \in [DOMAIN v -> DOMAIN u] : Embeds(f, u, v)
  BY DEF Kept
<1>3. QED
  BY <1>1, <1>2, PartPasses DEF Embeds

(* All of it, as pings, pongs and the close are nothing of a request.       *)
LEMMA KeptAllIsSame ==
  ASSUME NEW u, IsList(u), NEW v, IsList(v), KeptAll(u, v),
         NEW kind \in {"reply", "response"}
  PROVE  Same(u, v, kind)
<1>1. Passes(u, v, kind)
  BY AllIsKept, KeptPasses
<1>2. \A x : Is(x, kind) => x.type \notin Native
  BY DEF Is, IsReply, Native
<1>3. \A k \in DOMAIN u : u[k].type \notin Native => \E i \in DOMAIN v : v[i] = u[k]
  BY AllStays
<1>4. Ids(u, kind) \subseteq Ids(v, kind)
  BY <1>2, <1>3, IdsAre
<1>5. QED
  BY <1>1, <1>4 DEF Same, Passes

(* Or its beginning.                                                        *)
LEMMA KeptIsBeginning ==
  ASSUME NEW u, IsList(u), NEW v, IsList(v), Kept(u, v),
         Rising(u, "reply"), Ids(u, "reply") \subseteq Int,
         NEW x \in Ids(v, "reply"), NEW y \in Ids(u, "reply"), y < x
  PROVE  y \in Ids(v, "reply")
<1>1. DOMAIN u \subseteq Int /\ DOMAIN v \subseteq Int
  BY ListLength
<1>2. PICK f \in [DOMAIN v -> DOMAIN u] : Embeds(f, u, v)
  BY DEF Kept
<1>3. PICK i \in DOMAIN v : Is(v[i], "reply") /\ x = Ident(v[i], "reply")
  BY IdsAre
<1>4. PICK k \in DOMAIN u : Is(u[k], "reply") /\ y = Ident(u[k], "reply")
  BY IdsAre
<1>5. v[i] = u[f[i]] /\ f[i] \in DOMAIN u
  BY <1>2 DEF Embeds
<1>6. f[i] \in Where(u, "reply") /\ k \in Where(u, "reply")
  BY <1>3, <1>4, <1>5 DEF Where
<1>7. x \in Int /\ y \in Int /\ f[i] \in Int /\ k \in Int
  BY <1>1, <1>3, <1>5, <1>6 DEF Ids
<1>8. ~(f[i] < k)
  <2>1. f[i] < k => x < y
    BY <1>3, <1>4, <1>5, <1>6 DEF Rising
  <2>2. QED
    BY <1>7, <2>1
<1>9. f[i] # k
  BY <1>3, <1>4, <1>5, <1>7
<1>10. k < f[i]
  BY <1>7, <1>8, <1>9
<1>11. u[k].type \notin Native
  BY <1>4 DEF Is, IsReply, Native
<1>12. PICK j \in DOMAIN v : f[j] = k
  BY <1>2, <1>10, <1>11 DEF Embeds
<1>13. v[j] = u[k]
  BY <1>2, <1>12 DEF Embeds
<1>14. QED
  BY <1>4, <1>13, IdsAre

---------------------------------------------------------------------------
(* The input.                                                               *)

(* A frame is taken from the front.                                         *)
LEMMA FrontIsTaken ==
  ASSUME NEW a, IsList(a), a # <<>>, NEW b, IsList(b), NEW c, IsList(c)
  PROVE  /\ a \o (b \o c) # <<>>
         /\ Head(a \o (b \o c)) = Head(a)
         /\ Tail(a) \o (b \o c) = Tail(a \o (b \o c))
<1> DEFINE d == b \o c
           u == a \o d
           t == Tail(a)
           v == t \o d
           w == Tail(u)
           la == Len(a)
           ld == Len(d)
<1>1. IsList(d)
  BY ConcatList
<1>2. ld \in Nat
  BY <1>1, ListLength
<1> HIDE DEF d, la, ld
<1>3. /\ IsList(t) /\ la \in Nat /\ la >= 1 /\ Len(t) = la - 1
      /\ \A i \in 1..(la - 1) : t[i] = a[i + 1]
      /\ Head(a) = a[1]
  BY TailList DEF la
<1> HIDE DEF t
<1>4. /\ IsList(u) /\ Len(u) = la + ld
      /\ \A i \in 1..la : u[i] = a[i]
      /\ \A i \in 1..ld : u[la + i] = d[i]
  BY <1>1, ConcatList DEF la, ld
<1>5. /\ IsList(v) /\ Len(v) = (la - 1) + ld
      /\ \A i \in 1..(la - 1) : v[i] = t[i]
      /\ \A i \in 1..ld : v[(la - 1) + i] = d[i]
  <2>1. /\ IsList(t \o d) /\ Len(t \o d) = Len(t) + Len(d)
        /\ \A i \in 1..Len(t) : (t \o d)[i] = t[i]
        /\ \A i \in 1..Len(d) : (t \o d)[Len(t) + i] = d[i]
    <3>1. IsList(t)
      BY <1>3
    <3>2. QED
      BY <1>1, <3>1, ConcatList
  <2>2. QED
    BY <1>3, <2>1 DEF ld
<1> HIDE DEF u, v
<1>6. u # <<>>
  <2>1. Len(<<>>) = 0 /\ Len(u) # 0
    BY <1>2, <1>3, <1>4
  <2>2. QED
    BY <2>1
<1>7. /\ IsList(w) /\ Len(w) = (la + ld) - 1
      /\ \A i \in 1..((la + ld) - 1) : w[i] = u[i + 1]
      /\ Head(u) = u[1]
  BY <1>4, <1>6, TailList
<1> HIDE DEF w
<1>8. Head(u) = Head(a)
  <2>1. 1 \in 1..la
    BY <1>3
  <2>2. QED
    BY <1>3, <1>4, <1>7, <2>1
<1>9. ASSUME NEW i \in 1..Len(v) PROVE v[i] = w[i]
  <2>1. i \in 1..((la - 1) + ld)
    BY <1>5, <1>9
  <2>2. CASE i <= la - 1
    <3>1. i \in 1..(la - 1) /\ i + 1 \in 1..la /\ i \in 1..((la + ld) - 1)
      BY <1>2, <1>3, <2>1, <2>2
    <3>2. v[i] = a[i + 1] /\ w[i] = a[i + 1]
      BY <1>3, <1>4, <1>5, <1>7, <3>1
    <3>3. QED
      BY <3>2
  <2>3. CASE ~(i <= la - 1)
    <3> DEFINE j == i - (la - 1)
    <3>1. /\ j \in 1..ld /\ i = (la - 1) + j /\ i + 1 = la + j
          /\ i \in 1..((la + ld) - 1)
      BY <1>2, <1>3, <2>1, <2>3
    <3> HIDE DEF j
    <3>2. v[i] = d[j] /\ w[i] = u[i + 1] /\ u[i + 1] = d[j]
      BY <1>4, <1>5, <1>7, <3>1
    <3>3. QED
      BY <3>2
  <2>4. QED
    BY <2>2, <2>3
<1>10. Len(v) = Len(w)
  BY <1>2, <1>3, <1>5, <1>7
<1>11. v = w
  BY <1>5, <1>7, <1>9, <1>10, SameList
<1>12. QED
  BY <1>6, <1>8, <1>11 DEF u, v, w, t, d

(* The parts of the input are lists.                                        *)
LEMMA InputParts ==
  ASSUME InputInv
  PROVE  /\ IsList(inbound) /\ IsList(script) /\ IsList(Held) /\ IsList(Input)
         /\ reader.at = "sending" => Held = <<reader.frame>>
         /\ reader.at # "sending" => Held = <<>>
<1>1. IsList(inbound) /\ IsList(script)
  BY SeqIsList DEF InputInv
<1>2. IsList(Held)
  BY ShortLists DEF Held
<1>3. IsList(Input)
  BY <1>1, <1>2, StreamShape DEF Input, Parted
<1>4. QED
  BY <1>1, <1>2, <1>3 DEF Held

(* The coordinator takes a frame.                                           *)
LEMMA FrameIsTaken ==
  ASSUME InputInv, inbound # <<>>, inbound' = Tail(inbound), UNCHANGED <<script, reader>>
  PROVE  /\ IsList(Input) /\ Input # <<>>
         /\ Head(Input) = Head(inbound)
         /\ Input' = Tail(Input)
<1>1. IsList(inbound) /\ IsList(script) /\ IsList(Held) /\ IsList(Input)
  BY InputParts
<1>2. Input' = Tail(inbound) \o (Held \o script)
  BY DEF Input, Held
<1>3. Input = inbound \o (Held \o script)
  BY DEF Input
<1>4. PICK a, b, c : a = inbound /\ b = Held /\ c = script
  OBVIOUS
<1>5. IsList(a) /\ a # <<>> /\ IsList(b) /\ IsList(c)
  BY <1>1, <1>4
<1>6. /\ a \o (b \o c) # <<>>
      /\ Head(a \o (b \o c)) = Head(a)
      /\ Tail(a) \o (b \o c) = Tail(a \o (b \o c))
  BY <1>5, FrontIsTaken, SMTT(30)
<1>7. QED
  BY <1>1, <1>2, <1>3, <1>4, <1>6

(* The reader takes frames from the script in their order, until it ends.   *)
LEMMA ReaderPasses ==
  ASSUME InputInv, Reader, NEW kind \in {"action", "query"}
  PROVE  Passes(Input, Input', kind)
<1>1. /\ IsList(inbound) /\ IsList(script) /\ IsList(Input)
      /\ reader.at = "sending" => Held = <<reader.frame>>
      /\ reader.at # "sending" => Held = <<>>
  BY InputParts
<1>2. /\ reader'.at = "sending" => Held' = <<reader'.frame>>
      /\ reader'.at # "sending" => Held' = <<>>
  BY DEF Held
<1>3. Input' = Input => Passes(Input, Input', kind)
  BY SameAsItself DEF Same
<1>4. CASE ReadFrame
  <2>1. reader.at = "reading" /\ UNCHANGED inbound /\ Input = inbound \o (<<>> \o script)
    BY <1>1, <1>4 DEF ReadFrame, Input
  <2>2. CASE /\ script # <<>> /\ script' = Tail(script)
             /\ reader' = [at |-> "sending", frame |-> Head(script)]
    <3>1. Input' = inbound \o (<<Head(script)>> \o Tail(script))
      BY <1>2, <2>1, <2>2 DEF Input
    <3>2. Input' = Input
      BY <1>1, <2>1, <2>2, <3>1, TakenIsShown
    <3>3. QED
      BY <1>3, <3>2
  <2>3. CASE /\ script' = <<>>
             /\ reader' = [at |-> "sending", frame |-> Frame("Closed", NotJson)]
    <3> DEFINE m == Frame("Closed", NotJson)
               v == Append(inbound, m)
               u == Input
    <3>1. Input' = inbound \o (<<m>> \o <<>>)
      BY <1>2, <2>1, <2>3 DEF Input
    <3>2. ~Is(m, kind)
      BY DEF Is, IsA, Frame
    <3> HIDE DEF m
    <3>3. IsList(<<>>) /\ IsList(v)
      BY <1>1, ShortLists, AppendList
    <3>4. inbound \o (<<m>> \o <<>>) = v \o (<<>> \o <<>>)
      BY <1>1, <3>3, WrittenIsShown
    <3>5. v \o (<<>> \o <<>>) = v
      BY <3>3, NothingLeft
    <3>6. Passes(inbound, v, kind)
      BY <1>1, <3>2, AppendRequests DEF Same
    <3>7. Passes(u, inbound, kind)
      BY <1>1, <2>1, <3>3, PrefixKept, KeptPasses
    <3> HIDE DEF u, v
    <3>8. Passes(u, v, kind)
      BY <3>6, <3>7, PassesOn
    <3>9. QED
      BY <3>1, <3>4, <3>5, <3>8 DEF u
  <2>4. QED
    BY <1>4, <2>2, <2>3 DEF ReadFrame
<1>5. CASE ReaderSends
  <2>1. /\ reader.at = "sending" /\ reader'.at # "sending" /\ UNCHANGED script
        /\ inbound' = Append(inbound, reader.frame)
    BY <1>5 DEF ReaderSends, InputInv
  <2>2. /\ Input = inbound \o (<<reader.frame>> \o script)
        /\ Input' = Append(inbound, reader.frame) \o (<<>> \o script)
    BY <1>1, <1>2, <2>1 DEF Input
  <2>3. Input' = Input
    BY <1>1, <2>2, WrittenIsShown
  <2>4. QED
    BY <1>3, <2>3
<1>6. CASE ReadError \/ ReaderReports \/ ReaderStops
  <2>1. reader.at # "sending" /\ reader'.at # "sending" /\ UNCHANGED <<script, inbound>>
    BY <1>6 DEF ReadError, ReaderReports, ReaderStops, InputInv
  <2>2. Input' = Input
    BY <1>1, <1>2, <2>1 DEF Input
  <2>3. QED
    BY <1>3, <2>2
<1>7. QED
  BY <1>4, <1>5, <1>6 DEF Reader

---------------------------------------------------------------------------
(* What the steps do to requests.                                           *)

(* Nothing is said, or nothing that answers a request.                      *)
Silent(m) == ~Is(m, "reply") /\ ~Is(m, "response")
Mute == UNCHANGED outbound \/ \E m : Says(m) /\ Silent(m)

(* What a queued message is, with the request that it names.                *)
LEMMA QueueNames ==
  ASSUME NEW type, NEW request, NEW s, NEW content,
         Queue(Outbound(type, request, s, content))
  PROVE  \E m : /\ Says(m) /\ m.type = type /\ m.request = request
                /\ m.content = content
<1> DEFINE m == [Outbound(type, request, s, content) EXCEPT !.codec = codec]
<1>1. m.type = type /\ m.request = request /\ m.content = content
  BY DEF Outbound
<1>2. outbound' = Append(outbound, m)
  BY DEF Queue, QueueWith
<1> HIDE DEF m
<1>3. QED
  BY <1>1, <1>2 DEF Says

(* The code of an error is that of a reply if it is one of an executor.     *)
LEMMA Codes ==
  /\ Code(UnsupportedVersion) \notin {"execution_rejected", "internal_error"}
  /\ Code(Error("SubscriptionAuthorization", "Rejected")) \notin
       {"execution_rejected", "internal_error"}
  /\ \A e \in ExecutionErrors : Code(e) \in {"execution_rejected", "internal_error"}
<1> USE DEF Code, Error, CodecErrors, SlowConsumer
<1>1. Code(UnsupportedVersion) = "unsupported_version"
  BY DEF UnsupportedVersion
<1>2. Code(Error("SubscriptionAuthorization", "Rejected")) = "subscription_rejected"
  OBVIOUS
<1>3. Code(Error("Execution", "Rejected")) = "execution_rejected"
  OBVIOUS
<1>4. Code(Error("Execution", "Unavailable")) = "internal_error"
  OBVIOUS
<1>5. Code(Error("Execution", "Failed")) = "internal_error"
  OBVIOUS
<1> HIDE DEF Code
<1>6. \A e \in ExecutionErrors : Code(e) \in {"execution_rejected", "internal_error"}
  BY <1>3, <1>4, <1>5 DEF ExecutionErrors
<1>7. QED
  BY <1>1, <1>2, <1>6

(* What is queued but for acknowledgements, responses and errors with a     *)
(* request answers none.                                                    *)
LEMMA MessagesAreMute ==
  /\ \A e : Queue(ErrorMessage(0, e)) => Mute
  /\ \A type \in Native : Queue(Command(type)) => Mute
  /\ \A nonce : Queue(Pong(nonce)) => Mute
  /\ \A request, s : Queue(SubscriptionAccepted(request, s)) => Mute
  /\ \A request, s : Queue(SubscriptionClosed(request, s)) => Mute
  /\ \A s, v : Queue(EventMessage(s, v)) => Mute
  /\ \A v : QueueWith(HelloAccepted(v), "bootstrap") => Mute
  /\ \A request : Queue(ErrorMessage(request, UnsupportedVersion)) => Mute
  /\ \A request :
       Queue(ErrorMessage(request, Error("SubscriptionAuthorization", "Rejected"))) => Mute
<1>1. ASSUME NEW type, NEW request, NEW s, NEW content,
             Queue(Outbound(type, request, s, content)),
             type \notin {"Ack", "QueryResponse", "Error"}
      PROVE  Mute
  <2>1. PICK m : Says(m) /\ m.type = type
    BY <1>1, QueueNames
  <2>2. Silent(m)
    BY <1>1, <2>1 DEF Silent, Is, IsReply
  <2>3. QED
    BY <2>1, <2>2 DEF Mute
<1>2. ASSUME NEW request, NEW e, Queue(ErrorMessage(request, e)),
             request = 0 \/ Code(e) \notin {"execution_rejected", "internal_error"}
      PROVE  Mute
  <2> DEFINE c == <<Code(e), IsRetryable(e)>>
  <2>1. Queue(Outbound("Error", request, NoSubscription, c))
    BY <1>2 DEF ErrorMessage
  <2>2. c[1] = Code(e)
    OBVIOUS
  <2> HIDE DEF c
  <2>3. PICK m : Says(m) /\ m.type = "Error" /\ m.request = request /\ m.content = c
    BY <2>1, QueueNames
  <2>4. Silent(m)
    BY <1>2, <2>2, <2>3 DEF Silent, Is, IsReply
  <2>5. QED
    BY <2>3, <2>4 DEF Mute
<1>3. \A e : Queue(ErrorMessage(0, e)) => Mute
  BY <1>2
<1>4. \A type \in Native : Queue(Command(type)) => Mute
  BY <1>1 DEF Command, Native
<1>5. \A nonce : Queue(Pong(nonce)) => Mute
  BY <1>1 DEF Pong
<1>6. \A request, s : Queue(SubscriptionAccepted(request, s)) => Mute
  BY <1>1 DEF SubscriptionAccepted
<1>7. \A request, s : Queue(SubscriptionClosed(request, s)) => Mute
  BY <1>1 DEF SubscriptionClosed
<1>8. \A s, v : Queue(EventMessage(s, v)) => Mute
  BY <1>1 DEF EventMessage
<1>9. ASSUME NEW v, QueueWith(HelloAccepted(v), "bootstrap") PROVE Mute
  <2>1. PICK m : Says(m) /\ m.type = "HelloAccepted"
    BY <1>9, QueueSays DEF HelloAccepted
  <2>2. Silent(m)
    BY <2>1 DEF Silent, Is, IsReply
  <2>3. QED
    BY <2>1, <2>2 DEF Mute
<1>10. \A request : Queue(ErrorMessage(request, UnsupportedVersion)) => Mute
  BY <1>2, Codes
<1>11. \A request :
         Queue(ErrorMessage(request, Error("SubscriptionAuthorization", "Rejected"))) => Mute
  BY <1>2, Codes
<1>12. QED
  BY <1>3, <1>4, <1>5, <1>6, <1>7, <1>8, <1>9, <1>10, <1>11

(* The event channel: nothing that completes a request is posted or taken.  *)
Completions == {"ActionCompleted", "QueryCompleted"}
EventsPass ==
  \/ UNCHANGED events
  \/ \E e : e.type \notin Completions /\ events' = Append(events, e)
  \/ events # <<>> /\ events' = Tail(events) /\ Head(events).type \notin Completions

(* What the workers of the session hold.                                    *)
workVars == <<actionQueue, actionWorker, executed, queryQueue, queryWorker, inFlight>>

(* The branches of the loop that have nothing to do with requests.          *)
OtherAction ==
  \/ HandleGarbage \/ HandleClose \/ HandleNative \/ InputEnds \/ HandleHello
  \/ HandleAuthenticate \/ Resolve \/ HandlePing \/ HandleSubscribe \/ Subscribed
  \/ HandleUnsubscribe \/ Joined \/ ReportComplaint \/ OnSubscriptionFinished
  \/ OnEventSourceFailed \/ OnSlowConsumer \/ OnTaskFailed \/ Heartbeat

(* They answer none.                                                        *)
LEMMA OthersAreMute == ASSUME OtherAction PROVE Mute
<1> USE DEF Deliver, Reply, LeaveTelling, Leave, Complain, Stay
<1>1. UNCHANGED outbound => Mute
  BY DEF Mute
<1>2. "NativePing" \in Native /\ "NativePong" \in Native
  BY DEF Native
<1>3. HandleGarbage \/ HandleClose \/ HandleNative \/ InputEnds => Mute
  BY <1>1, <1>2, MessagesAreMute DEF HandleGarbage, HandleClose, HandleNative, InputEnds
<1>4. HandleHello => Mute
  BY <1>1, MessagesAreMute DEF HandleHello
<1>5. HandleAuthenticate \/ Resolve \/ HandlePing \/ HandleSubscribe => Mute
  BY <1>1, MessagesAreMute DEF HandleAuthenticate, Resolve, HandlePing, HandleSubscribe
<1>6. Subscribed \/ HandleUnsubscribe \/ Joined => Mute
  BY <1>1, MessagesAreMute DEF Subscribed, HandleUnsubscribe, Join, Joined
<1>7. ReportComplaint \/ Heartbeat => Mute
  BY <1>1, <1>2, MessagesAreMute DEF ReportComplaint, Heartbeat
<1>8. OnSubscriptionFinished \/ OnEventSourceFailed \/ OnSlowConsumer \/ OnTaskFailed => Mute
  BY <1>1, MessagesAreMute DEF OnSubscriptionFinished, OnEventSourceFailed, OnSlowConsumer,
     OnTaskFailed, Join
<1>9. QED
  BY <1>3, <1>4, <1>5, <1>6, <1>7, <1>8 DEF OtherAction

(* And leave the workers alone.                                             *)
LEMMA OthersLeaveWork ==
  ASSUME OtherAction
  PROVE  EventsPass /\ UNCHANGED <<actionQueue, queryQueue>>
<1> USE DEF TakeMessage, TakeFrame, TakeEvent, ControlElse, EventsPass, Completions
<1>1. HandleGarbage \/ HandleClose \/ HandleNative \/ InputEnds =>
        EventsPass /\ UNCHANGED <<actionQueue, queryQueue>>
  BY DEF HandleGarbage, HandleClose, HandleNative, InputEnds
<1>2. HandleHello \/ HandleAuthenticate \/ Resolve \/ HandlePing =>
        EventsPass /\ UNCHANGED <<actionQueue, queryQueue>>
  BY DEF HandleHello, HandleAuthenticate, Resolve, HandlePing
<1>3. HandleSubscribe \/ Subscribed \/ HandleUnsubscribe \/ Joined =>
        EventsPass /\ UNCHANGED <<actionQueue, queryQueue>>
  BY DEF HandleSubscribe, Subscribed, HandleUnsubscribe, Joined
<1>4. ReportComplaint \/ Heartbeat => EventsPass /\ UNCHANGED <<actionQueue, queryQueue>>
  BY DEF ReportComplaint, Heartbeat
<1>5. OnSubscriptionFinished \/ OnEventSourceFailed \/ OnSlowConsumer \/ OnTaskFailed =>
        EventsPass /\ UNCHANGED <<actionQueue, queryQueue>>
  BY DEF OnSubscriptionFinished, OnEventSourceFailed, OnSlowConsumer, OnTaskFailed
<1>6. QED
  BY <1>1, <1>2, <1>3, <1>4, <1>5 DEF OtherAction

(* A step that has no part in the requests: it may take a frame, lose the   *)
(* rest of the input or the end of the stream, and say what answers none.   *)
InputGoes ==
  \/ UNCHANGED <<inbound, reader, script>>
  \/ inbound # <<>> /\ inbound' = Tail(inbound) /\ UNCHANGED <<reader, script>>
  \/ Reader

Aloof ==
  /\ UNCHANGED workVars /\ EventsPass /\ InputGoes
  /\ Writer \/ (UNCHANGED <<writer, sent>> /\ Mute)

(* Every step is aloof or one of the workers or of four branches.           *)
LEMMA RequestCases ==
  ASSUME [Next]_vars
  PROVE  \/ Aloof \/ ActionWorker \/ QueryWorker
         \/ HandleAction \/ HandleQuery \/ OnActionCompleted \/ OnQueryCompleted
<1>1. CASE Reader
  <2>1. UNCHANGED <<workVars, outbound, writer, sent>>
    BY <1>1 DEF Reader, ReadFrame, ReadError, ReaderSends, ReaderReports, ReaderStops,
                ReaderElse, workVars, writerVars, actionVars, queryVars
  <2>2. EventsPass
    BY <1>1 DEF Reader, ReadFrame, ReadError, ReaderSends, ReaderReports, ReaderStops,
                Post, Event, EventsPass, Completions
  <2>3. QED
    BY <1>1, <2>1, <2>2 DEF Aloof, InputGoes, Mute
<1>2. CASE Writer
  <2>1. UNCHANGED <<workVars, inbound, reader, script>>
    BY <1>2 DEF Writer, WriterTakes, WriterWrites, WriterFails, WriterReports,
       WriterCancels, WriterStops,
                WriterElse, workVars, inputVars, actionVars, queryVars
  <2>2. EventsPass
    BY <1>2 DEF Writer, WriterTakes, WriterWrites, WriterFails, WriterReports,
       WriterCancels, WriterStops,
                Post, Event, EventsPass, Completions
  <2>3. QED
    BY <1>2, <2>1, <2>2 DEF Aloof, InputGoes
<1>3. ASSUME NEW s \in Subscriptions, Pump(s) PROVE Aloof
  <2>1. UNCHANGED <<workVars, inbound, reader, script, writer, sent>>
    BY <1>3 DEF Pump, PumpEvent, PumpSourceEnds, PumpSourceFails, PumpReports, PumpStops,
                PumpElse, workVars, inputVars, writerVars, actionVars, queryVars
  <2>2. EventsPass
    <3>1. PumpReports(s) => EventsPass
      BY DEF PumpReports, PumpReport, Post, Event, EventsPass, Completions
    <3>2. QED
      BY <1>3, <3>1 DEF Pump, PumpEvent, PumpSourceEnds, PumpSourceFails, PumpStops, EventsPass
  <2>3. Mute
    <3>1. UNCHANGED outbound => Mute
      BY DEF Mute
    <3>2. QED
      BY <1>3, <3>1, MessagesAreMute
      DEF Pump, PumpEvent, PumpSourceEnds, PumpSourceFails, PumpReports, PumpStops
  <2>4. QED
    BY <2>1, <2>2, <2>3 DEF Aloof, InputGoes
<1>4. CASE CloseStep
  <2>1. UNCHANGED <<workVars, events, inbound, reader, script, writer, sent>>
    BY <1>4 DEF CloseStep, FinalError, SendClose, AwaitWriter, JoinPumps, JoinTasks,
                CloseElse, TaskVars, workVars, inputVars, writerVars, actionVars, queryVars
  <2>2. Mute
    <3>1. "Close" \in Native /\ (UNCHANGED outbound => Mute)
      BY DEF Native, Mute
    <3>2. QED
      BY <1>4, <3>1, MessagesAreMute
      DEF CloseStep, FinalError, SendClose, AwaitWriter, JoinPumps, JoinTasks
  <2>3. QED
    BY <2>1, <2>2 DEF Aloof, InputGoes, EventsPass
<1>5. CASE OtherAction
  <2>1. LoopAction
    BY <1>5 DEF OtherAction, LoopAction
  <2>2. /\ UNCHANGED <<reader, script, writer, sent, actionWorker, executed, queryWorker,
                       inFlight>>
        /\ UNCHANGED inbound \/ (inbound # <<>> /\ inbound' = Tail(inbound))
    BY <2>1, LoopActionFrame
    DEF LoopFrame, TaskVars, inputVars, writerVars, actionVars, queryVars
  <2>3. QED
    BY <1>5, <2>2, OthersAreMute, OthersLeaveWork DEF Aloof, InputGoes, workVars
<1>6. CASE UNCHANGED vars
  BY <1>6 DEF vars, inputVars, writerVars, actionVars, queryVars, workVars, Aloof,
              InputGoes, EventsPass, Mute
<1>7. LoopAction => \/ OtherAction \/ HandleAction \/ HandleQuery
                    \/ OnActionCompleted \/ OnQueryCompleted
  BY DEF LoopAction, OtherAction
<1>8. QED
  BY <1>1, <1>2, <1>3, <1>4, <1>5, <1>6, <1>7, NextCases

(* The input of an aloof step.                                              *)
LEMMA AloofInput ==
  ASSUME InputInv, InputGoes, NEW kind \in {"action", "query"}
  PROVE  Passes(Input, Input', kind)
<1>1. CASE UNCHANGED <<inbound, reader, script>>
  <2>1. Input' = Input
    BY <1>1 DEF Input, Held
  <2>2. QED
    BY <2>1, SameAsItself DEF Same
<1>2. CASE inbound # <<>> /\ inbound' = Tail(inbound) /\ UNCHANGED <<reader, script>>
  <2>1. IsList(Input) /\ Input # <<>> /\ Input' = Tail(Input)
    BY <1>2, FrameIsTaken
  <2>2. QED
    BY <2>1, TailRequests
<1>3. CASE Reader
  BY <1>3, ReaderPasses
<1>4. QED
  BY <1>1, <1>2, <1>3 DEF InputGoes

(* The event channel in a step that posts and takes nothing of a kind.      *)
Avoids(kind) ==
  \/ UNCHANGED events
  \/ \E e : ~Is(e, kind) /\ events' = Append(events, e)
  \/ events # <<>> /\ events' = Tail(events) /\ ~Is(Head(events), kind)

(* It keeps what it has of the kind.                                        *)
LEMMA AvoidedStays ==
  ASSUME IsList(events), NEW kind, Avoids(kind)
  PROVE  /\ Same(events, events', kind)
         /\ \A i \in Where(events', kind) :
              \E k \in Where(events, kind) : events'[i] = events[k]
<1>1. PICK u, v : u = events /\ v = events'
  OBVIOUS
<1>2. IsList(u) /\ (\/ v = u
                    \/ \E e : ~Is(e, kind) /\ v = Append(u, e)
                    \/ u # <<>> /\ v = Tail(u) /\ ~Is(Head(u), kind))
  BY <1>1 DEF Avoids
<1>3. CASE v = u
  BY <1>1, <1>3, SameAsItself
<1>4. ASSUME NEW e, ~Is(e, kind), v = Append(u, e)
      PROVE  /\ Same(u, v, kind)
             /\ \A i \in Where(v, kind) : \E k \in Where(u, kind) : v[i] = u[k]
  <2>1. Same(u, v, kind)
    BY <1>2, <1>4, AppendRequests
  <2>2. \A i \in DOMAIN v : (\E k \in DOMAIN u : v[i] = u[k]) \/ v[i] = e
    BY <1>2, <1>4, AppendHas
  <2>3. QED
    BY <1>4, <2>1, <2>2 DEF Where
<1>5. ASSUME u # <<>>, v = Tail(u), ~Is(Head(u), kind)
      PROVE  /\ Same(u, v, kind)
             /\ \A i \in Where(v, kind) : \E k \in Where(u, kind) : v[i] = u[k]
  <2>1. Same(u, v, kind)
    BY <1>2, <1>5, TailRequests
  <2>2. \A i \in DOMAIN v : \E k \in DOMAIN u : v[i] = u[k]
    BY <1>2, <1>5, TailIsOld
  <2>3. QED
    BY <2>1, <2>2 DEF Where
<1>6. QED
  BY <1>1, <1>2, <1>3, <1>4, <1>5

(* Aloof steps avoid completions.                                           *)
LEMMA AloofEvents == ASSUME EventsPass PROVE Avoids("completed") /\ Avoids("answered")
<1>1. \A e : e.type \notin Completions => ~Is(e, "completed") /\ ~Is(e, "answered")
  BY DEF Is, Completions
<1>2. QED
  BY <1>1 DEF EventsPass, Avoids

(* The stream in a step that says nothing of a kind.                        *)
LEMMA UnsaidStays ==
  ASSUME Lists, UNCHANGED <<writer, sent>>, NEW kind,
         UNCHANGED outbound \/ \E m : Says(m) /\ ~Is(m, kind)
  PROVE  Lists' /\ (Live' <=> Live) /\ Same(Stream, Stream', kind)
<1>1. PICK u, v : u = Stream /\ v = Stream'
  OBVIOUS
<1>2. IsList(u)
  BY <1>1, StreamIsList
<1>3. CASE UNCHANGED outbound
  <2>1. Lists' /\ (Live' <=> Live) /\ v = u
    BY <1>1, <1>3, OthersShow
  <2>2. QED
    BY <1>1, <2>1, SameAsItself
<1>4. ASSUME NEW m, Says(m), ~Is(m, kind)
      PROVE  Lists' /\ (Live' <=> Live) /\ Same(u, v, kind)
  <2>1. Lists' /\ (Live' <=> Live) /\ (v = u \/ v = Append(u, m))
    BY <1>1, <1>4, OthersShow
  <2>2. QED
    BY <1>2, <1>4, <2>1, SameAsItself, AppendRequests
<1>5. QED
  BY <1>1, <1>3, <1>4

(* Its stream.                                                              *)
LEMMA AloofStream ==
  ASSUME SessionInv, Lists, Writer \/ (UNCHANGED <<writer, sent>> /\ Mute)
  PROVE  /\ Lists' /\ (Live' => Live)
         /\ \A kind \in {"reply", "response"} :
              Passes(Stream, Stream', kind) /\ (Live' => Same(Stream, Stream', kind))
         /\ Rising(Stream, "reply") /\ Ids(Stream, "reply") \subseteq Int =>
              \A x \in Ids(Stream', "reply"), y \in Ids(Stream, "reply") :
                y < x => y \in Ids(Stream', "reply")
<1>1. PICK u, v : u = Stream /\ v = Stream'
  OBVIOUS
<1>2. IsList(u)
  BY <1>1, StreamIsList
<1>3. ASSUME \A kind \in {"reply", "response"} : Same(u, v, kind)
      PROVE  /\ \A kind \in {"reply", "response"} :
                  Passes(u, v, kind) /\ (Live' => Same(u, v, kind))
             /\ Rising(u, "reply") /\ Ids(u, "reply") \subseteq Int =>
                  \A x \in Ids(v, "reply"), y \in Ids(u, "reply") :
                    y < x => y \in Ids(v, "reply")
  BY <1>3 DEF Same
<1>4. CASE Writer
  <2>1. Lists' /\ (Live' => Live) /\ StreamKept
    BY <1>4, WriterShows DEF SessionInv, JoinInv
  <2>2. (Lists => IsList(Stream))'
    BY StreamIsList, PTL
  <2>3. IsList(v) /\ Kept(u, v) /\ (Live' => KeptAll(u, v))
    BY <1>1, <2>1, <2>2, AllIsKept DEF StreamKept
  <2>4. \A kind \in {"reply", "response"} :
          Passes(u, v, kind) /\ (Live' => Same(u, v, kind))
    BY <1>2, <2>3, KeptPasses, KeptAllIsSame
  <2>5. Rising(u, "reply") /\ Ids(u, "reply") \subseteq Int =>
          \A x \in Ids(v, "reply"), y \in Ids(u, "reply") :
            y < x => y \in Ids(v, "reply")
    BY <1>2, <2>3, KeptIsBeginning
  <2>6. QED
    BY <1>1, <2>1, <2>4, <2>5
<1>5. CASE UNCHANGED <<writer, sent>> /\ Mute
  <2>1. \A kind \in {"reply", "response"} :
          UNCHANGED outbound \/ \E m : Says(m) /\ ~Is(m, kind)
    BY <1>5 DEF Mute, Silent
  <2>2. Lists' /\ (Live' <=> Live) /\ \A kind \in {"reply", "response"} : Same(u, v, kind)
    BY <1>1, <1>5, <2>1, UnsaidStays
  <2>3. QED
    BY <1>1, <1>3, <2>2
<1>6. QED
  BY <1>4, <1>5

---------------------------------------------------------------------------
(* Queries: one place at a time.                                            *)

(* Requests leave their places.                                             *)
LEMMA LeavingKeepsApart ==
  ASSUME NEW P, NEW R, Apart(P), \A k \in Stages : R[k] \subseteq P[k]
  PROVE  Apart(R)
BY DEF Apart

(* One request goes to another place.                                       *)
LEMMA MovingKeepsApart ==
  ASSUME NEW P, NEW R, Apart(P), NEW a \in Stages, NEW b \in Stages, a # b,
         NEW q \in P[a], q \notin R[a],
         \A k \in Stages \ {b} : R[k] \subseteq P[k], R[b] \subseteq P[b] \cup {q}
  PROVE  Apart(R)
<1>1. ASSUME NEW k \in Stages, k # b PROVE R[k] \cap R[b] = {}
  <2>1. R[k] \subseteq P[k] /\ P[k] \cap P[b] = {}
    BY <1>1 DEF Apart
  <2>2. q \notin R[k]
    <3>1. CASE k = a
      BY <3>1
    <3>2. CASE k # a
      BY <2>1, <3>2 DEF Apart
    <3>3. QED
      BY <3>1, <3>2
  <2>3. QED
    BY <2>1, <2>2
<1>2. ASSUME NEW k \in Stages, NEW l \in Stages, k # b, l # b, k # l
      PROVE  R[k] \cap R[l] = {}
  BY <1>2 DEF Apart
<1>3. QED
  BY <1>1, <1>2 DEF Apart

(* The sets of queries at the stages.                                       *)
LEMMA StageSets ==
  /\ Places["input"] = Ids(Input, "query")
  /\ Places["queue"] = Ids(queryQueue, "waiting")
  /\ Places["flight"] = inFlight
  /\ Places["reporting"] =
       IF queryWorker.at = "reporting" THEN {queryWorker.request} ELSE {}
  /\ Places["events"] = Ids(events, "answered")
  /\ Places["stream"] = Ids(Stream, "response")
BY DEF Places

(* Queries leave: what is said of them stays true.                          *)
LEMMA QueriesLeave ==
  ASSUME QueryInv, IsList(queryQueue'),
         Passes(Input, Input', "query"), Passes(queryQueue, queryQueue', "waiting"),
         inFlight' \subseteq inFlight,
         queryWorker'.at = "reporting" => UNCHANGED queryWorker,
         Passes(events, events', "answered"), Passes(Stream, Stream', "response")
  PROVE  QueryInv'
<1>1. PICK P, R : P = Places /\ R = Places'
  OBVIOUS
<1>2. \A k \in Stages : R[k] \subseteq P[k]
  <2>1. /\ R["input"] = Ids(Input', "query") /\ R["queue"] = Ids(queryQueue', "waiting")
        /\ R["flight"] = inFlight'
        /\ R["reporting"] =
             IF queryWorker'.at = "reporting" THEN {queryWorker'.request} ELSE {}
        /\ R["events"] = Ids(events', "answered") /\ R["stream"] = Ids(Stream', "response")
    BY <1>1 DEF Places
  <2>2. R["reporting"] \subseteq P["reporting"]
    BY <1>1, <2>1, StageSets
  <2>3. QED
    BY <1>1, <2>1, <2>2, StageSets DEF Stages, Passes
<1>3. Apart(R)
  BY <1>1, <1>2, LeavingKeepsApart DEF QueryInv
<1>4. /\ Once(Input', "query") /\ Once(queryQueue', "waiting")
      /\ Once(events', "answered") /\ Once(Stream', "response")
  BY DEF QueryInv, Passes
<1>5. QED
  BY <1>1, <1>3, <1>4 DEF QueryInv

(* One query goes to another place.                                         *)
LEMMA QueryMoves ==
  ASSUME QueryInv, IsList(queryQueue'),
         NEW a \in Stages, NEW b \in Stages, a # b,
         NEW q \in Places[a], q \notin Places'[a],
         \A k \in Stages \ {b} : Places'[k] \subseteq Places[k],
         Places'[b] \subseteq Places[b] \cup {q},
         Once(Input', "query"), Once(queryQueue', "waiting"),
         Once(events', "answered"), Once(Stream', "response")
  PROVE  QueryInv'
<1>1. PICK P, R : P = Places /\ R = Places'
  OBVIOUS
<1>2. Apart(R)
  BY <1>1, MovingKeepsApart DEF QueryInv
<1>3. QED
  BY <1>1, <1>2 DEF QueryInv

(* A step that changes nothing of the queries.                              *)
LEMMA QueriesStay ==
  ASSUME QueryInv, UNCHANGED <<queryQueue, inFlight, queryWorker>>,
         Passes(Input, Input', "query"),
         Passes(events, events', "answered"), Passes(Stream, Stream', "response")
  PROVE  QueryInv'
<1>1. Passes(queryQueue, queryQueue', "waiting") /\ IsList(queryQueue')
  BY SameAsItself DEF Same, QueryInv
<1>2. QED
  BY <1>1, QueriesLeave

(* The stream where nothing is said.                                        *)
LEMMA NothingIsSaid ==
  ASSUME Lists, UNCHANGED <<writer, sent, outbound>>
  PROVE  Stream' = Stream /\ (Live' <=> Live) /\ Lists'
BY OthersShow

(* The input where no frame is taken.                                       *)
LEMMA NothingIsRead == UNCHANGED <<inbound, reader, script>> => Input' = Input
BY DEF Input, Held

(* The query worker.                                                        *)
LEMMA QueryWorkerMoves ==
  ASSUME SessionInv, BeforeHello, EventInv, QueryInv, QueryWorker
  PROVE  QueryInv'
<1>1. /\ UNCHANGED <<inbound, reader, script, writer, sent, outbound>>
      /\ Lists /\ IsList(events)
  BY DEF QueryWorker, TakeQuery, ExecuteQuery, ReportQuery, StopQueries, QueryElse,
         inputVars, writerVars, EventInv, BeforeHello
<1>2. Input' = Input /\ Stream' = Stream
  BY <1>1, NothingIsSaid, NothingIsRead
<1>3. /\ Passes(Input, Input', "query") /\ Passes(Stream, Stream', "response")
      /\ Once(Input', "query") /\ Once(Stream', "response")
  BY <1>2, SameAsItself DEF Same, QueryInv
<1>4. PICK P, R : P = Places /\ R = Places'
  OBVIOUS
<1>5. /\ P["input"] = Ids(Input, "query") /\ P["queue"] = Ids(queryQueue, "waiting")
      /\ P["flight"] = inFlight
      /\ P["reporting"] = IF queryWorker.at = "reporting" THEN {queryWorker.request} ELSE {}
      /\ P["events"] = Ids(events, "answered") /\ P["stream"] = Ids(Stream, "response")
  BY <1>4, StageSets
<1>6. /\ R["input"] = P["input"] /\ R["queue"] = Ids(queryQueue', "waiting")
      /\ R["flight"] = inFlight'
      /\ R["reporting"] =
           IF queryWorker'.at = "reporting" THEN {queryWorker'.request} ELSE {}
      /\ R["events"] = Ids(events', "answered") /\ R["stream"] = P["stream"]
  BY <1>2, <1>4, <1>5 DEF Places
<1>7. UNCHANGED events => Passes(events, events', "answered") /\ Once(events', "answered")
  BY SameAsItself DEF Same, QueryInv
<1>8. UNCHANGED queryQueue => IsList(queryQueue') /\ Once(queryQueue', "waiting")
  BY DEF QueryInv
<1>9. \A x : Is(x, "waiting") /\ Ident(x, "waiting") = x
  BY DEF Is, Ident
<1>10. CASE TakeQuery
  <2> DEFINE q == Head(queryQueue)
  <2>1. /\ queryQueue # <<>> /\ queryQueue' = Tail(queryQueue) /\ inFlight' = inFlight \cup {q}
        /\ UNCHANGED <<queryWorker, events>>
    BY <1>10 DEF TakeQuery
  <2>2. /\ IsList(queryQueue') /\ Passes(queryQueue, queryQueue', "waiting")
        /\ q \in Ids(queryQueue, "waiting") /\ q \notin Ids(queryQueue', "waiting")
    BY <1>9, <2>1, TailRequests DEF QueryInv
  <2> HIDE DEF q
  <2>3. /\ q \in P["queue"] /\ q \notin R["queue"] /\ R["queue"] \subseteq P["queue"]
        /\ R["reporting"] = P["reporting"] /\ R["events"] = P["events"]
        /\ R["flight"] \subseteq P["flight"] \cup {q}
    BY <1>5, <1>6, <2>1, <2>2 DEF Passes
  <2>4. Once(queryQueue', "waiting")
    BY <2>2 DEF QueryInv, Passes
  <2>5. QED
    BY <1>3, <1>4, <1>6, <1>7, <2>1, <2>2, <2>3, <2>4, QueryMoves DEF Stages
<1>11. CASE ExecuteQuery
  <2>1. PICK q \in inFlight : /\ queryWorker'.at = "reporting" /\ queryWorker'.request = q
                              /\ inFlight' = inFlight \ {q}
    BY <1>11 DEF ExecuteQuery
  <2>2. UNCHANGED <<queryQueue, events>>
    BY <1>11 DEF ExecuteQuery
  <2>3. /\ q \in P["flight"] /\ q \notin R["flight"] /\ R["flight"] \subseteq P["flight"]
        /\ R["queue"] = P["queue"] /\ R["events"] = P["events"]
        /\ R["reporting"] \subseteq P["reporting"] \cup {q}
    BY <1>5, <1>6, <2>1, <2>2
  <2>4. QED
    BY <1>3, <1>4, <1>6, <1>7, <1>8, <2>2, <2>3, QueryMoves DEF Stages
<1>12. CASE ReportQuery
  <2> DEFINE q == queryWorker.request
             e == Event("QueryCompleted", q, NoSubscription, queryWorker.result)
  <2>1. /\ queryWorker.at = "reporting" /\ queryWorker'.at # "reporting"
        /\ events' = Append(events, e) /\ UNCHANGED <<queryQueue, inFlight>>
    BY <1>12 DEF ReportQuery, Post, SessionInv, JoinInv
  <2>2. Is(e, "answered") /\ Ident(e, "answered") = q
    BY DEF Is, Ident, Event
  <2> HIDE DEF e, q
  <2>3. q \in P["reporting"] /\ R["reporting"] = {}
    BY <1>5, <1>6, <2>1 DEF q
  <2>4. q \notin P["events"]
    BY <1>4, <2>3 DEF QueryInv, Apart, Stages
  <2>5. Ids(events', "answered") = Ids(events, "answered") \cup {q} /\ Once(events', "answered")
    BY <1>1, <1>5, <2>1, <2>2, <2>4, AppendRequests DEF QueryInv
  <2>6. /\ R["flight"] = P["flight"] /\ R["queue"] = P["queue"]
        /\ R["events"] \subseteq P["events"] \cup {q}
    BY <1>5, <1>6, <2>1, <2>5
  <2>7. QED
    BY <1>3, <1>4, <1>6, <1>8, <2>1, <2>3, <2>5, <2>6, QueryMoves DEF Stages
<1>13. CASE StopQueries
  <2>1. /\ queryQueue' = <<>> /\ inFlight' = {} /\ queryWorker'.at # "reporting"
        /\ UNCHANGED events
    BY <1>13 DEF StopQueries, SessionInv, JoinInv
  <2>2. IsList(queryQueue') /\ Passes(queryQueue, queryQueue', "waiting")
    <3>1. IsList(<<>>) /\ DOMAIN <<>> = {}
      BY ShortLists
    <3>2. QED
      BY <2>1, <3>1 DEF Passes, Ids, Once, Rising, Where
  <2>3. QED
    BY <1>3, <1>7, <2>1, <2>2, QueriesLeave
<1>14. QED
  BY <1>10, <1>11, <1>12, <1>13 DEF QueryWorker

(* The messages that answer requests.                                       *)
LEMMA ResponseIsQueued ==
  ASSUME NEW request, Queue(QueryResponseMessage(version, request))
  PROVE  \E m : Says(m) /\ Is(m, "response") /\ Ident(m, "response") = request
<1>1. PICK m : Says(m) /\ m.type = "QueryResponse" /\ m.request = request
  BY QueueNames DEF QueryResponseMessage
<1>2. QED
  BY <1>1 DEF Is, Ident

(* A query is taken from the input.                                         *)
LEMMA QueryIsTaken ==
  ASSUME SessionInv, TakeMessage("query")
  PROVE  /\ UNCHANGED <<writer, sent, events, inFlight, queryWorker>>
         /\ Passes(Input, Input', "query")
         /\ Payload.message_id.id \in Ids(Input, "query")
         /\ Once(Input, "query") => Payload.message_id.id \notin Ids(Input', "query")
<1>1. /\ inbound # <<>> /\ inbound' = Tail(inbound) /\ Head(inbound).event = "Text"
      /\ UNCHANGED <<script, reader, writer, sent, events, inFlight, queryWorker>>
      /\ Decoded.kind = "query"
  BY DEF TakeMessage, TakeFrame, TaskVars, inputVars, writerVars, queryVars
<1>2. IsList(Input) /\ Input # <<>> /\ Head(Input) = Head(inbound) /\ Input' = Tail(Input)
  BY <1>1, FrameIsTaken DEF SessionInv
<1>3. Is(Head(inbound), "query")
  BY <1>1 DEF Is, IsA, Decoded
<1>4. Ident(Head(inbound), "query") = Payload.message_id.id
  BY DEF Ident, RequestOf, Payload, Decoded
<1>5. PICK u, v, h, q : /\ u = Input /\ v = Input' /\ h = Head(inbound)
                        /\ q = Payload.message_id.id
  OBVIOUS
<1>6. IsList(u) /\ u # <<>> /\ v = Tail(u) /\ Is(Head(u), "query") /\ Ident(Head(u), "query") = q
  BY <1>2, <1>3, <1>4, <1>5
<1>7. /\ Passes(u, v, "query") /\ q \in Ids(u, "query")
      /\ Once(u, "query") => q \notin Ids(v, "query")
  BY <1>6, TailRequests
<1>8. QED
  BY <1>1, <1>5, <1>7

(* A query is answered: it goes from where it was to the stream, or is lost *)
(* where the writer has ended.                                              *)
LEMMA QueryIsAnswered ==
  ASSUME Lists, QueryInv, UNCHANGED <<writer, sent, queryQueue, inFlight, queryWorker>>,
         Passes(Input, Input', "query"), Passes(events, events', "answered"),
         NEW a \in {"input", "events"}, NEW q \in Places[a], q \notin Places'[a],
         Queue(QueryResponseMessage(version, q))
  PROVE  QueryInv'
<1>1. PICK m : Says(m) /\ Is(m, "response") /\ Ident(m, "response") = q
  BY ResponseIsQueued
<1>2. ~Live => Stream' = Stream
  BY <1>1, OthersShow
<1>3. Live => Stream' = Append(Stream, m)
  BY <1>1, OthersShow
<1>4. CASE ~Live
  <2>1. Passes(Stream, Stream', "response")
    BY <1>2, <1>4, SameAsItself DEF Same
  <2>2. QED
    BY <2>1, QueriesStay
<1>5. CASE Live
  <2>1. PICK P, R : P = Places /\ R = Places'
    OBVIOUS
  <2>2. /\ P["input"] = Ids(Input, "query") /\ P["queue"] = Ids(queryQueue, "waiting")
        /\ P["flight"] = inFlight
        /\ P["reporting"] =
             IF queryWorker.at = "reporting" THEN {queryWorker.request} ELSE {}
        /\ P["events"] = Ids(events, "answered") /\ P["stream"] = Ids(Stream, "response")
    BY <2>1, StageSets
  <2>3. /\ R["input"] = Ids(Input', "query") /\ R["queue"] = P["queue"]
        /\ R["flight"] = P["flight"] /\ R["reporting"] = P["reporting"]
        /\ R["events"] = Ids(events', "answered") /\ R["stream"] = Ids(Stream', "response")
    BY <2>1, <2>2 DEF Places
  <2>4. q \notin Ids(Stream, "response")
    BY <2>1, <2>2 DEF QueryInv, Apart, Stages
  <2>5. /\ Ids(Stream', "response") = Ids(Stream, "response") \cup {q}
        /\ Once(Stream', "response")
    <3>1. PICK u, v : u = Stream /\ v = Stream'
      OBVIOUS
    <3>2. /\ IsList(u) /\ v = Append(u, m) /\ Once(u, "response")
          /\ q \notin Ids(u, "response")
      BY <1>3, <1>5, <2>4, <3>1, StreamIsList DEF QueryInv
    <3>3. Ids(v, "response") = Ids(u, "response") \cup {q} /\ Once(v, "response")
      BY <1>1, <3>2, AppendRequests
    <3>4. QED
      BY <3>1, <3>3
  <2>6. \A k \in Stages \ {"stream"} : R[k] \subseteq P[k]
    BY <2>2, <2>3 DEF Stages, Passes
  <2>7. R["stream"] \subseteq P["stream"] \cup {q}
    BY <2>2, <2>3, <2>5
  <2>8. /\ IsList(queryQueue') /\ Once(Input', "query") /\ Once(queryQueue', "waiting")
        /\ Once(events', "answered")
    BY DEF QueryInv, Passes
  <2>9. a \in Stages /\ "stream" \in Stages /\ a # "stream"
    BY DEF Stages
  <2>10. QED
    BY <2>1, <2>5, <2>6, <2>7, <2>8, <2>9, QueryMoves
<1>6. QED
  BY <1>4, <1>5

(* The coordinator takes a query.                                           *)
LEMMA HandlingMovesQuery ==
  ASSUME SessionInv, EventInv, QueryInv, HandleQuery
  PROVE  QueryInv'
<1> DEFINE q == Payload.message_id.id
<1>1. /\ UNCHANGED <<writer, sent, events, inFlight, queryWorker>>
      /\ Passes(Input, Input', "query")
      /\ q \in Ids(Input, "query") /\ q \notin Ids(Input', "query")
  BY QueryIsTaken DEF HandleQuery, QueryInv
<1>2. Lists
  BY DEF EventInv
<1>3. \/ UNCHANGED queryQueue /\ Mute
      \/ queryQueue' = Append(queryQueue, q) /\ UNCHANGED outbound
      \/ UNCHANGED queryQueue /\ Queue(QueryResponseMessage(version, q))
  <2>1. UNCHANGED outbound => Mute
    BY DEF Mute
  <2>2. QED
    BY <2>1, MessagesAreMute DEF HandleQuery, Reply, Complain
<1> HIDE DEF q
<1>4. Passes(events, events', "answered")
  BY <1>1, SameAsItself DEF Same
<1>5. CASE UNCHANGED queryQueue /\ Mute
  <2>1. Passes(Stream, Stream', "response")
    BY <1>1, <1>2, <1>5, AloofStream
  <2>2. QED
    BY <1>1, <1>4, <1>5, <2>1, QueriesStay
<1>6. CASE queryQueue' = Append(queryQueue, q) /\ UNCHANGED outbound
  <2>1. Stream' = Stream
    BY <1>1, <1>2, <1>6, NothingIsSaid
  <2>2. PICK P, R : P = Places /\ R = Places'
    OBVIOUS
  <2>3. /\ P["input"] = Ids(Input, "query") /\ P["queue"] = Ids(queryQueue, "waiting")
        /\ P["flight"] = inFlight
        /\ P["reporting"] =
             IF queryWorker.at = "reporting" THEN {queryWorker.request} ELSE {}
        /\ P["events"] = Ids(events, "answered") /\ P["stream"] = Ids(Stream, "response")
    BY <2>2, StageSets
  <2>4. /\ R["input"] = Ids(Input', "query") /\ R["queue"] = Ids(queryQueue', "waiting")
        /\ R["flight"] = P["flight"] /\ R["reporting"] = P["reporting"]
        /\ R["events"] = P["events"] /\ R["stream"] = P["stream"]
    BY <1>1, <2>1, <2>2, <2>3 DEF Places
  <2>5. q \notin Ids(queryQueue, "waiting")
    BY <1>1, <2>2, <2>3 DEF QueryInv, Apart, Stages
  <2>6. Is(q, "waiting") /\ Ident(q, "waiting") = q
    BY DEF Is, Ident
  <2>7. /\ IsList(queryQueue') /\ Once(queryQueue', "waiting")
        /\ Ids(queryQueue', "waiting") = Ids(queryQueue, "waiting") \cup {q}
    BY <1>6, <2>5, <2>6, AppendRequests DEF QueryInv
  <2>8. /\ \A k \in Stages \ {"queue"} : R[k] \subseteq P[k]
        /\ R["queue"] \subseteq P["queue"] \cup {q}
        /\ q \in P["input"] /\ q \notin R["input"]
    BY <1>1, <2>3, <2>4, <2>7 DEF Stages, Passes
  <2>9. Once(Input', "query") /\ Once(events', "answered") /\ Once(Stream', "response")
    BY <1>1, <2>1 DEF QueryInv, Passes
  <2>10. "input" \in Stages /\ "queue" \in Stages
    BY DEF Stages
  <2>11. QED
    BY <2>2, <2>7, <2>8, <2>9, <2>10, QueryMoves
<1>7. CASE UNCHANGED queryQueue /\ Queue(QueryResponseMessage(version, q))
  <2>1. q \in Places["input"] /\ q \notin Places'["input"]
    BY <1>1, StageSets DEF Places
  <2>2. QED
    BY <1>1, <1>2, <1>4, <1>7, <2>1, QueryIsAnswered
<1>8. QED
  BY <1>3, <1>5, <1>6, <1>7

(* A query is completed.                                                    *)
LEMMA CompletionMovesQuery ==
  ASSUME SessionInv, BeforeHello, EventInv, QueryInv, OnQueryCompleted
  PROVE  QueryInv'
<1> DEFINE q == Head(events).request
<1>1. /\ events # <<>> /\ events' = Tail(events) /\ Head(events).type = "QueryCompleted"
      /\ UNCHANGED <<inbound, reader, script, writer, sent, queryQueue, inFlight, queryWorker>>
  BY DEF OnQueryCompleted, TakeEvent, TaskVars, inputVars, writerVars, queryVars
<1>2. Lists /\ IsList(events)
  BY DEF EventInv, BeforeHello
<1>3. Is(Head(events), "answered") /\ Ident(Head(events), "answered") = q
  BY <1>1 DEF Is, Ident
<1>4. UNCHANGED outbound \/ Queue(QueryResponseMessage(version, q))
  BY DEF OnQueryCompleted, QueueQueryResponse, Deliver
<1> HIDE DEF q
<1>5. /\ Passes(events, events', "answered") /\ q \in Ids(events, "answered")
      /\ q \notin Ids(events', "answered")
  <2>1. PICK u, v : u = events /\ v = events'
    OBVIOUS
  <2>2. /\ IsList(u) /\ u # <<>> /\ v = Tail(u) /\ Once(u, "answered")
        /\ Is(Head(u), "answered") /\ Ident(Head(u), "answered") = q
    BY <1>1, <1>2, <1>3, <2>1 DEF QueryInv
  <2>3. Passes(u, v, "answered") /\ q \in Ids(u, "answered") /\ q \notin Ids(v, "answered")
    BY <2>2, TailRequests
  <2>4. QED
    BY <2>1, <2>3
<1>6. Passes(Input, Input', "query")
  BY <1>1, NothingIsRead, SameAsItself DEF Same
<1>7. CASE UNCHANGED outbound
  <2>1. Passes(Stream, Stream', "response")
    BY <1>1, <1>2, <1>7, NothingIsSaid, SameAsItself DEF Same
  <2>2. QED
    BY <1>1, <1>5, <1>6, <2>1, QueriesStay
<1>8. CASE Queue(QueryResponseMessage(version, q))
  <2>1. q \in Places["events"] /\ q \notin Places'["events"]
    BY <1>5, StageSets DEF Places
  <2>2. QED
    BY <1>1, <1>2, <1>5, <1>6, <1>8, <2>1, QueryIsAnswered
<1>9. QED
  BY <1>4, <1>7, <1>8

(* A reply to an action answers no query.                                   *)
LEMMA ReplyIsNoResponse ==
  ASSUME NEW request, NEW e,
         \/ Queue(ActionAcknowledgement(request)) \/ Queue(ErrorMessage(request, e))
  PROVE  \E n : Says(n) /\ ~Is(n, "response")
<1>1. PICK n : Says(n) /\ n.type \in {"Ack", "Error"}
  BY QueueNames DEF ActionAcknowledgement, ErrorMessage
<1>2. QED
  BY <1>1 DEF Is

(* What the steps that are about actions do to queries: nothing.            *)
LEMMA ActionsLeaveQueries ==
  ASSUME SessionInv, BeforeHello, EventInv, QueryInv,
         ActionWorker \/ HandleAction \/ OnActionCompleted
  PROVE  QueryInv'
<1>1. Lists /\ IsList(events) /\ InputInv
  BY DEF EventInv, BeforeHello, SessionInv
<1>2. UNCHANGED <<writer, sent, outbound>> => Passes(Stream, Stream', "response")
  BY <1>1, NothingIsSaid, SameAsItself DEF Same
<1>3. UNCHANGED <<inbound, reader, script>> => Passes(Input, Input', "query")
  BY NothingIsRead, SameAsItself DEF Same
<1>4. UNCHANGED events => Passes(events, events', "answered")
  BY SameAsItself DEF Same
<1>5. CASE ActionWorker
  <2>1. UNCHANGED <<inbound, reader, script, writer, sent, outbound, queryQueue, inFlight,
                    queryWorker>>
    BY <1>5 DEF ActionWorker, TakeAction, ExecuteAction, ReportAction, StopActions, ActionElse,
                inputVars, writerVars, queryVars
  <2>2. Passes(events, events', "answered")
    <3>1. CASE ReportAction
      <4> DEFINE e == Event("ActionCompleted", actionWorker.job.request, NoSubscription,
                            actionWorker.result)
      <4>1. events' = Append(events, e)
        BY <3>1 DEF ReportAction, Post
      <4>2. ~Is(e, "answered")
        BY DEF Is, Event
      <4> HIDE DEF e
      <4>3. QED
        BY <1>1, <4>1, <4>2, AppendRequests DEF Same
    <3>2. CASE UNCHANGED events
      BY <1>4, <3>2
    <3>3. QED
      BY <1>5, <3>1, <3>2 DEF ActionWorker, TakeAction, ExecuteAction, StopActions
  <2>3. QED
    BY <1>2, <1>3, <2>1, <2>2, QueriesStay
<1>6. CASE HandleAction
  <2>1. /\ UNCHANGED <<reader, script, writer, sent, outbound, events, queryQueue, inFlight,
                       queryWorker>>
        /\ inbound # <<>> /\ inbound' = Tail(inbound)
    BY <1>6 DEF HandleAction, TakeMessage, TakeFrame, TaskVars, inputVars, writerVars,
                queryVars, Complain
  <2>2. Passes(Input, Input', "query")
    BY <1>1, <2>1, AloofInput DEF InputGoes
  <2>3. QED
    BY <1>2, <1>4, <2>1, <2>2, QueriesStay
<1>7. CASE OnActionCompleted
  <2>1. /\ UNCHANGED <<inbound, reader, script, writer, sent, queryQueue, inFlight,
                       queryWorker>>
        /\ events # <<>> /\ events' = Tail(events)
    BY <1>7 DEF OnActionCompleted, TakeEvent, TaskVars, inputVars, writerVars, queryVars
  <2>2. Passes(events, events', "answered")
    BY <1>1, <2>1, TailRequests
  <2>3. UNCHANGED outbound \/ \E n : Says(n) /\ ~Is(n, "response")
    BY <1>7, ReplyIsNoResponse DEF OnActionCompleted, Deliver
  <2>4. Passes(Stream, Stream', "response")
    BY <1>1, <2>1, <2>3, UnsaidStays DEF Same
  <2>5. QED
    BY <1>3, <2>1, <2>2, <2>4, QueriesStay
<1>8. QED
  BY <1>5, <1>6, <1>7

(* Every step.                                                              *)
LEMMA QueryStep ==
  ASSUME SessionInv, BeforeHello, EventInv, QueryInv, [Next]_vars
  PROVE  QueryInv'
<1>1. CASE Aloof
  <2>1. Lists /\ IsList(events) /\ InputInv
    BY DEF EventInv, BeforeHello, SessionInv
  <2>2. UNCHANGED <<queryQueue, inFlight, queryWorker>>
    BY <1>1 DEF Aloof, workVars
  <2>3. Passes(Input, Input', "query")
    BY <1>1, <2>1, AloofInput DEF Aloof
  <2>4. Passes(events, events', "answered")
    BY <1>1, <2>1, AloofEvents, AvoidedStays DEF Aloof, Same
  <2>5. Passes(Stream, Stream', "response")
    BY <1>1, <2>1, AloofStream DEF Aloof
  <2>6. QED
    BY <2>2, <2>3, <2>4, <2>5, QueriesStay
<1>2. QED
  BY <1>1, RequestCases, QueryWorkerMoves, HandlingMovesQuery, CompletionMovesQuery,
     ActionsLeaveQueries

(* In the beginning every request is in the script.                         *)
LEMMA InputBegins ==
  Init => Input = script /\ script \in Scripts /\ IsList(script)
<1> SUFFICES ASSUME Init PROVE Input = script /\ script \in Scripts /\ IsList(script)
  OBVIOUS
<1>1. script \in Scripts /\ inbound = <<>> /\ Held = <<>>
  BY DEF Init, Held
<1>2. IsList(script) /\ IsList(<<>>) /\ Len(<<>>) = 0
  BY <1>1, ShortLists, SessionAssumption DEF IsList
<1>3. ASSUME NEW c, IsList(c) PROVE <<>> \o c = c
  <2> DEFINE e == <<>>
             r == e \o c
  <2>1. IsList(e) /\ Len(e) = 0 /\ Len(c) \in Nat
    BY <1>2, <1>3, ListLength
  <2> HIDE DEF e
  <2>2. /\ IsList(r) /\ Len(r) = Len(e) + Len(c)
        /\ \A i \in 1..Len(c) : r[Len(e) + i] = c[i]
    BY <1>3, <2>1, ConcatList
  <2> HIDE DEF r
  <2>3. Len(r) = Len(c) /\ \A i \in 1..Len(r) : r[i] = c[i]
    BY <2>1, <2>2
  <2>4. r = c
    BY <1>3, <2>2, <2>3, SameList
  <2>5. QED
    BY <2>4 DEF r, e
<1>4. Input = script
  BY <1>1, <1>2, <1>3 DEF Input
<1>5. QED
  BY <1>1, <1>2, <1>4

(* No request is anywhere else.                                             *)
LEMMA NothingBegins == \A kind : Ids(<<>>, kind) = {} /\ Where(<<>>, kind) = {}
BY DEF Ids, Where

(* The queries of the script are distinct.                                  *)
LEMMA QueryInit == QueriesAreDistinct /\ Init => QueryInv
<1> SUFFICES ASSUME QueriesAreDistinct, Init PROVE QueryInv
  OBVIOUS
<1>1. Input = script /\ script \in Scripts
  BY InputBegins
<1>2. \A x : Is(x, "query") <=> IsA(x, "query")
  BY DEF Is
<1>3. \A x : Ident(x, "query") = RequestOf(x)
  BY DEF Ident
<1>4. Once(Input, "query")
  BY <1>1, <1>2, <1>3 DEF Once, Where, QueriesAreDistinct
<1>5. queryQueue = <<>> /\ events = <<>> /\ inFlight = {} /\ queryWorker.at # "reporting"
  BY DEF Init
<1>6. IsList(queryQueue) /\ Stream = <<>>
  BY <1>5, ShortLists, StreamBegins
<1>7. Once(queryQueue, "waiting") /\ Once(events, "answered") /\ Once(Stream, "response")
  BY <1>5, <1>6, NothingBegins DEF Once
<1>8. \A k \in Stages : k # "input" => Places[k] = {}
  BY <1>5, <1>6, NothingBegins, StageSets DEF Stages
<1>9. Apart(Places)
  BY <1>8 DEF Apart
<1>10. QED
  BY <1>4, <1>6, <1>7, <1>9 DEF QueryInv

(* If no two queries of a client have one request identifier, every query   *)
(* has at most one response, whether it was answered by its executor,       *)
(* refused for want of room, replaced for its length or cut off by the      *)
(* close.                                                                   *)
THEOREM QueriesAreAnsweredOnce == QueriesAreDistinct => (Spec => []OneResponsePerQuery)
<1>1. QueryInv => OneResponsePerQuery
  <2> SUFFICES ASSUME QueryInv PROVE OneResponsePerQuery
    OBVIOUS
  <2>1. \A x : Is(x, "response") <=> x.type = "QueryResponse"
    BY DEF Is
  <2>2. \A x : Ident(x, "response") = x.request
    BY DEF Ident
  <2>3. Once(Stream, "response")
    BY DEF QueryInv
  <2>4. QED
    BY <2>1, <2>2, <2>3 DEF Once, Where, OneResponsePerQuery
<1>2. SessionInv /\ BeforeHello /\ EventInv /\ QueryInv /\ [Next]_vars => QueryInv'
  BY QueryStep
<1>3. QED
  BY <1>1, <1>2, QueryInit, EventsAlways, PTL DEF Spec

---------------------------------------------------------------------------
(* Actions: executed in their order.                                        *)

(* Requests leave the chain.                                                *)
LEMMA ChainShrinks ==
  ASSUME NEW A, NEW B, NEW C, NEW D, Chain(A, B, C, D),
         NEW A2, NEW B2, NEW C2, NEW D2,
         A2 \subseteq A, B2 \subseteq B, C2 \subseteq C, D2 \subseteq D
  PROVE  Chain(A2, B2, C2, D2)
BY DEF Chain, Below

(* The first request that is still to be read gets to wait.                 *)
LEMMA ChainReads ==
  ASSUME NEW A, NEW B, NEW C, NEW D, Chain(A, B, C, D),
         NEW x \in D, NEW D2, D2 \subseteq D, \A y \in D2 : x < y
  PROVE  Chain(A, B, C \cup {x}, D2)
BY DEF Chain, Below

(* The first that waits gets to be executed.                                *)
LEMMA ChainTakes ==
  ASSUME NEW A, NEW C, NEW D, Chain(A, {}, C, D),
         NEW x \in C, NEW C2, C2 \subseteq C, \A y \in C2 : x < y
  PROVE  Chain(A, {x}, C2, D)
BY DEF Chain, Below

(* And has been executed.                                                   *)
LEMMA ChainExecutes ==
  ASSUME NEW A, NEW x, NEW C, NEW D, Chain(A, {x}, C, D)
  PROVE  Chain(A \cup {x}, {}, C, D) /\ \A y \in A : y < x
BY DEF Chain, Below

(* What a job is.                                                           *)
LEMMA JobsAre == \A x : Is(x, "job") /\ Ident(x, "job") = x.request
BY DEF Is, Ident

(* The lists of actions.                                                    *)
LEMMA ActionLists ==
  ASSUME SessionInv
  PROVE  /\ IsList(actionQueue) /\ IsList(executed)
         /\ DOMAIN actionWorker = {"at", "job", "result"}
BY SeqIsList DEF SessionInv, WorkInv

(* The worker keeps what it holds, and what is read is not an action or is  *)
(* lost.                                                                    *)
LEMMA OrderStays ==
  ASSUME OrderInv, Passes(Input, Input', "action"), Doing' = Doing,
         UNCHANGED <<actionQueue, executed>>
  PROVE  OrderInv'
<1>1. Ids(Input', "action") \subseteq Ids(Input, "action")
  BY DEF Passes
<1>2. Chain(Ids(executed', "job"), Doing', Ids(actionQueue', "job"), Ids(Input', "action"))
  BY <1>1, ChainShrinks DEF OrderInv
<1>3. Rising(Input', "action") /\ Rising(actionQueue', "job") /\ Rising(executed', "job")
  BY DEF OrderInv, Passes
<1>4. QED
  BY <1>2, <1>3 DEF OrderInv

(* The action worker.                                                       *)
LEMMA ActionWorkerKeepsOrder ==
  ASSUME SessionInv, OrderInv, ActionWorker
  PROVE  OrderInv'
<1>1. /\ IsList(actionQueue) /\ IsList(executed)
      /\ DOMAIN actionWorker = {"at", "job", "result"}
  BY ActionLists
<1>2. Input' = Input
  BY NothingIsRead DEF ActionWorker, TakeAction, ExecuteAction, ReportAction, StopActions,
     ActionElse, inputVars
<1>3. PICK E, B, Q, I : /\ E = Ids(executed, "job") /\ B = Doing
                        /\ Q = Ids(actionQueue, "job") /\ I = Ids(Input, "action")
  OBVIOUS
<1>4. Chain(E, B, Q, I) /\ Ids(Input', "action") = I /\ Rising(Input', "action")
  BY <1>2, <1>3 DEF OrderInv
<1>5. CASE TakeAction
  <2> DEFINE x == Head(actionQueue).request
  <2>1. /\ actionWorker.at = "waiting" /\ actionQueue # <<>>
        /\ actionQueue' = Tail(actionQueue) /\ UNCHANGED executed
        /\ actionWorker'.at = "executing" /\ actionWorker'.job = Head(actionQueue)
    BY <1>1, <1>5 DEF TakeAction
  <2>2. B = {} /\ Doing' = {x}
    BY <1>3, <2>1 DEF Doing
  <2>3. /\ Rising(actionQueue', "job") /\ Ids(actionQueue', "job") \subseteq Q
        /\ x \in Q /\ \A y \in Ids(actionQueue', "job") : x < y
    BY <1>1, <1>3, <2>1, TailRequests, JobsAre DEF OrderInv, Passes
  <2> HIDE DEF x
  <2>4. Chain(E, {x}, Ids(actionQueue', "job"), I)
    BY <1>4, <2>2, <2>3, ChainTakes
  <2>5. QED
    BY <1>3, <1>4, <2>1, <2>2, <2>3, <2>4 DEF OrderInv
<1>6. CASE ExecuteAction
  <2> DEFINE j == actionWorker.job
             x == j.request
  <2>1. /\ actionWorker.at = "executing" /\ actionWorker'.at = "reporting"
        /\ executed' = Append(executed, j) /\ UNCHANGED actionQueue
    BY <1>1, <1>6 DEF ExecuteAction
  <2>2. B = {x} /\ Doing' = {}
    BY <1>3, <2>1 DEF Doing
  <2>3. Is(j, "job") /\ Ident(j, "job") = x
    BY JobsAre
  <2> HIDE DEF j, x
  <2>4. Chain(E \cup {x}, {}, Q, I) /\ \A y \in E : y < x
    BY <1>4, <2>2, ChainExecutes
  <2>5. Ids(executed', "job") = E \cup {x} /\ Rising(executed', "job")
    BY <1>1, <1>3, <2>1, <2>3, <2>4, AppendRequests DEF OrderInv
  <2>6. QED
    BY <1>3, <1>4, <2>1, <2>2, <2>4, <2>5 DEF OrderInv
<1>7. CASE ReportAction
  <2>1. Doing' = Doing /\ UNCHANGED <<actionQueue, executed>>
    BY <1>1, <1>7 DEF ReportAction, Doing
  <2>2. QED
    BY <1>2, <2>1, OrderStays, SameAsItself DEF Same
<1>8. CASE StopActions
  <2>1. Doing' = {} /\ actionQueue' = <<>> /\ UNCHANGED executed
    BY <1>1, <1>8 DEF StopActions, Doing
  <2>2. Ids(actionQueue', "job") = {} /\ Rising(actionQueue', "job")
    BY <2>1 DEF Ids, Where, Rising
  <2>3. Chain(E, {}, {}, I)
    BY <1>4, ChainShrinks
  <2>4. QED
    BY <1>3, <1>4, <2>1, <2>2, <2>3 DEF OrderInv
<1>9. QED
  BY <1>5, <1>6, <1>7, <1>8 DEF ActionWorker

(* The coordinator hands an action to the worker, or refuses it.            *)
LEMMA HandlingKeepsOrder ==
  ASSUME SessionInv, OrderInv, HandleAction
  PROVE  OrderInv'
<1> DEFINE x == Payload.message_id.id
<1>1. /\ inbound # <<>> /\ inbound' = Tail(inbound) /\ Head(inbound).event = "Text"
      /\ UNCHANGED <<script, reader, actionWorker, executed>>
      /\ Decoded.kind = "action"
  BY DEF HandleAction, TakeMessage, TakeFrame, TaskVars, inputVars, actionVars
<1>2. InputInv /\ IsList(actionQueue)
  BY ActionLists DEF SessionInv
<1>3. IsList(Input) /\ Input # <<>> /\ Head(Input) = Head(inbound) /\ Input' = Tail(Input)
  BY <1>1, <1>2, FrameIsTaken
<1>4. Is(Head(inbound), "action") /\ Ident(Head(inbound), "action") = x
  BY <1>1 DEF Is, IsA, Decoded, Ident, RequestOf, Payload
<1>5. UNCHANGED actionQueue \/ \E actor : actionQueue' = Append(actionQueue, Job(x, actor))
  BY DEF HandleAction
<1>6. Doing' = Doing
  BY <1>1 DEF Doing
<1> HIDE DEF x
<1>7. /\ Passes(Input, Input', "action") /\ x \in Ids(Input, "action")
      /\ \A y \in Ids(Input', "action") : x < y
  <2>1. PICK u, v : u = Input /\ v = Input'
    OBVIOUS
  <2>2. /\ IsList(u) /\ u # <<>> /\ v = Tail(u) /\ Rising(u, "action")
        /\ Is(Head(u), "action") /\ Ident(Head(u), "action") = x
    BY <1>3, <1>4, <2>1 DEF OrderInv
  <2>3. /\ Passes(u, v, "action") /\ x \in Ids(u, "action")
        /\ \A y \in Ids(v, "action") : x < y
    BY <2>2, TailRequests
  <2>4. QED
    BY <2>1, <2>3
<1>8. CASE UNCHANGED actionQueue
  BY <1>1, <1>6, <1>7, <1>8, OrderStays
<1>9. ASSUME NEW actor, actionQueue' = Append(actionQueue, Job(x, actor))
      PROVE  OrderInv'
  <2> DEFINE j == Job(x, actor)
  <2>1. Is(j, "job") /\ Ident(j, "job") = x
    BY JobsAre DEF Job
  <2> HIDE DEF j
  <2>2. PICK E, B, Q, I, J : /\ E = Ids(executed, "job") /\ B = Doing
                             /\ Q = Ids(actionQueue, "job") /\ I = Ids(Input, "action")
                             /\ J = Ids(Input', "action")
    OBVIOUS
  <2>3. Chain(E, B, Q, I) /\ x \in I /\ J \subseteq I /\ \A y \in J : x < y
    BY <1>7, <2>2 DEF OrderInv, Passes
  <2>4. Chain(E, B, Q \cup {x}, J)
    BY <2>3, ChainReads
  <2>5. \A y \in Q : y < x
    BY <2>3 DEF Chain, Below
  <2>6. Ids(actionQueue', "job") = Q \cup {x} /\ Rising(actionQueue', "job")
    BY <1>2, <1>9, <2>1, <2>2, <2>5, AppendRequests DEF OrderInv, j
  <2>7. Rising(Input', "action") /\ Rising(executed', "job")
    BY <1>1, <1>7 DEF OrderInv, Passes
  <2>8. QED
    BY <1>1, <1>6, <2>2, <2>4, <2>6, <2>7 DEF OrderInv
<1>10. QED
  BY <1>5, <1>8, <1>9

(* The steps that are about queries leave actions alone.                    *)
LEMMA QueriesLeaveActions ==
  ASSUME QueryWorker \/ HandleQuery \/ OnQueryCompleted
  PROVE  /\ UNCHANGED <<actionQueue, actionWorker, executed, writer, sent>>
         /\ InputGoes /\ Avoids("completed")
         /\ UNCHANGED outbound \/ \E m : Says(m) /\ ~Is(m, "reply")
<1>1. ASSUME NEW request, Queue(QueryResponseMessage(version, request))
      PROVE  \E m : Says(m) /\ ~Is(m, "reply")
  <2>1. PICK m : Says(m) /\ m.type = "QueryResponse"
    BY <1>1, QueueNames DEF QueryResponseMessage
  <2>2. QED
    BY <2>1 DEF Is, IsReply
<1>2. Mute => UNCHANGED outbound \/ \E m : Says(m) /\ ~Is(m, "reply")
  BY DEF Mute, Silent
<1>3. CASE QueryWorker
  <2>1. /\ UNCHANGED <<actionQueue, actionWorker, executed, writer, sent, outbound>>
        /\ UNCHANGED <<inbound, reader, script>>
    BY <1>3 DEF QueryWorker, TakeQuery, ExecuteQuery, ReportQuery, StopQueries, QueryElse,
                inputVars, writerVars, actionVars
  <2>2. Avoids("completed")
    <3>1. CASE ReportQuery
      <4> DEFINE e == Event("QueryCompleted", queryWorker.request, NoSubscription,
                            queryWorker.result)
      <4>1. events' = Append(events, e)
        BY <3>1 DEF ReportQuery, Post
      <4>2. ~Is(e, "completed")
        BY DEF Is, Event
      <4> HIDE DEF e
      <4>3. QED
        BY <4>1, <4>2 DEF Avoids
    <3>2. QED
      BY <1>3, <3>1 DEF QueryWorker, TakeQuery, ExecuteQuery, StopQueries, Avoids
  <2>3. QED
    BY <2>1, <2>2 DEF InputGoes
<1>4. CASE HandleQuery
  <2>1. /\ UNCHANGED <<actionQueue, actionWorker, executed, writer, sent, events>>
        /\ inbound # <<>> /\ inbound' = Tail(inbound) /\ UNCHANGED <<reader, script>>
    BY <1>4 DEF HandleQuery, TakeMessage, TakeFrame, TaskVars, inputVars, writerVars, actionVars
  <2>2. UNCHANGED outbound \/ \E m : Says(m) /\ ~Is(m, "reply")
    BY <1>1, <1>2, <1>4, MessagesAreMute DEF HandleQuery, Reply, Complain
  <2>3. QED
    BY <2>1, <2>2 DEF InputGoes, Avoids
<1>5. CASE OnQueryCompleted
  <2>1. /\ UNCHANGED <<actionQueue, actionWorker, executed, writer, sent>>
        /\ UNCHANGED <<inbound, reader, script>>
        /\ events # <<>> /\ events' = Tail(events) /\ Head(events).type = "QueryCompleted"
    BY <1>5 DEF OnQueryCompleted, TakeEvent, TaskVars, inputVars, writerVars, actionVars
  <2>2. UNCHANGED outbound \/ \E m : Says(m) /\ ~Is(m, "reply")
    BY <1>1, <1>5 DEF OnQueryCompleted, QueueQueryResponse, Deliver
  <2>3. ~Is(Head(events), "completed")
    BY <2>1 DEF Is
  <2>4. QED
    BY <2>1, <2>2, <2>3 DEF InputGoes, Avoids
<1>6. QED
  BY <1>3, <1>4, <1>5

(* Every step.                                                              *)
LEMMA OrderStep ==
  ASSUME SessionInv, OrderInv, [Next]_vars
  PROVE  OrderInv'
<1>1. InputInv
  BY DEF SessionInv
<1>2. ASSUME InputGoes, UNCHANGED <<actionQueue, actionWorker, executed>>
      PROVE  OrderInv'
  <2>1. Passes(Input, Input', "action") /\ Doing' = Doing
    BY <1>1, <1>2, AloofInput DEF Doing
  <2>2. QED
    BY <1>2, <2>1, OrderStays
<1>3. Aloof => OrderInv'
  BY <1>2 DEF Aloof, workVars
<1>4. QueryWorker \/ HandleQuery \/ OnQueryCompleted => OrderInv'
  BY <1>2, QueriesLeaveActions
<1>5. OnActionCompleted => OrderInv'
  BY <1>2 DEF OnActionCompleted, TakeEvent, TaskVars, inputVars, actionVars, InputGoes
<1>6. QED
  BY <1>3, <1>4, <1>5, RequestCases, ActionWorkerKeepsOrder, HandlingKeepsOrder

---------------------------------------------------------------------------
(* Actions: replied to in their order.                                      *)

(* A completion is what an executor made of an action.                      *)
LEMMA ResultStep ==
  ASSUME SessionInv, BeforeHello, ResultInv, [Next]_vars
  PROVE  ResultInv'
<1>1. IsList(events) /\ DOMAIN actionWorker = {"at", "job", "result"}
  BY ActionLists DEF BeforeHello
<1>2. ASSUME \A i \in Where(events', "completed") :
               (\E k \in Where(events, "completed") : events'[i] = events[k])
                 \/ events'[i].result \in Results,
             actionWorker'.at = "reporting" => actionWorker'.result \in Results
      PROVE  ResultInv'
  BY <1>2 DEF ResultInv
<1>3. ASSUME Avoids("completed")
      PROVE  \A i \in Where(events', "completed") :
               \E k \in Where(events, "completed") : events'[i] = events[k]
  BY <1>1, <1>3, AvoidedStays
<1>4. ASSUME Avoids("completed"), UNCHANGED actionWorker PROVE ResultInv'
  BY <1>2, <1>3, <1>4 DEF ResultInv
<1>5. Aloof => ResultInv'
  BY <1>4, AloofEvents DEF Aloof, workVars
<1>6. QueryWorker \/ HandleQuery \/ OnQueryCompleted => ResultInv'
  BY <1>4, QueriesLeaveActions
<1>7. HandleAction => ResultInv'
  BY <1>4 DEF HandleAction, TakeMessage, TakeFrame, TaskVars, actionVars, Avoids
<1>8. CASE OnActionCompleted
  <2>1. UNCHANGED actionWorker /\ events # <<>> /\ events' = Tail(events)
    BY <1>8 DEF OnActionCompleted, TakeEvent, TaskVars, actionVars
  <2>2. \A i \in DOMAIN events' : \E k \in DOMAIN events : events'[i] = events[k]
    BY <1>1, <2>1, TailIsOld
  <2>3. QED
    BY <1>2, <2>1, <2>2 DEF ResultInv, Where
<1>9. CASE TakeAction \/ StopActions
  <2>1. actionWorker'.at # "reporting" /\ Avoids("completed")
    BY <1>1, <1>9 DEF TakeAction, StopActions, Avoids
  <2>2. QED
    BY <1>2, <1>3, <2>1
<1>10. CASE ExecuteAction
  <2>1. actionWorker'.result \in Results /\ Avoids("completed")
    BY <1>1, <1>10 DEF ExecuteAction, Avoids, Results
  <2>2. QED
    BY <1>2, <1>3, <2>1
<1>11. CASE ReportAction
  <2> DEFINE e == Event("ActionCompleted", actionWorker.job.request, NoSubscription,
                        actionWorker.result)
  <2>1. /\ actionWorker.at = "reporting" /\ actionWorker'.at # "reporting"
        /\ events' = Append(events, e)
    BY <1>1, <1>11 DEF ReportAction, Post
  <2>2. e.result \in Results
    BY <2>1 DEF ResultInv, Event
  <2> HIDE DEF e
  <2>3. \A i \in DOMAIN events' : (\E k \in DOMAIN events : events'[i] = events[k])
                                    \/ events'[i] = e
    BY <1>1, <2>1, AppendHas
  <2>4. QED
    BY <1>2, <2>1, <2>2, <2>3 DEF Where
<1>12. QED
  BY <1>5, <1>6, <1>7, <1>8, <1>9, <1>10, <1>11, RequestCases DEF ActionWorker

(* A step that neither executes nor reports nor replies.                    *)
LEMMA AnswersStay ==
  ASSUME OrderInv, AnswerInv, IsList(events), UNCHANGED executed,
         Reporting' = Reporting, Avoids("completed"),
         coordinator' \in Looping => coordinator \in Looping,
         Live' => Live, Passes(Stream, Stream', "reply"),
         Live' => Same(Stream, Stream', "reply"),
         Rising(Stream, "reply") /\ Ids(Stream, "reply") \subseteq Int =>
           \A x \in Ids(Stream', "reply"), y \in Ids(Stream, "reply") :
             y < x => y \in Ids(Stream', "reply")
  PROVE  AnswerInv'
<1>1. PICK S, T, E, R, C : /\ S = Ids(Stream, "reply") /\ T = Ids(Stream', "reply")
                           /\ E = Ids(executed, "job") /\ R = Reporting
                           /\ C = Ids(events, "completed")
  OBVIOUS
<1>2. Ids(executed', "job") = E /\ Reporting' = R /\ Ids(events', "completed") = C
  BY <1>1, AvoidedStays DEF Same
<1>3. Rising(Stream', "reply") /\ T \subseteq S /\ S \subseteq E
  BY <1>1 DEF AnswerInv, Passes
<1>4. E \subseteq Int
  BY <1>1 DEF OrderInv, Chain, Numbers
<1>5. Downward(T, E)
  <2>1. \A x \in T, y \in S : y < x => y \in T
    BY <1>1, <1>3, <1>4 DEF AnswerInv
  <2>2. Downward(S, E)
    BY <1>1 DEF AnswerInv
  <2>3. QED
    BY <1>3, <2>1, <2>2 DEF Downward
<1>6. ASSUME Live', coordinator' \in Looping
      PROVE  Rising(events', "completed") /\ AnswersFollow(T, C, R, E)
  <2>1. Rising(events, "completed") /\ AnswersFollow(S, C, R, E)
    BY <1>1, <1>6 DEF AnswerInv
  <2>2. T = S
    BY <1>1, <1>6 DEF Same
  <2>3. Rising(events', "completed")
    BY <2>1, AvoidedStays DEF Same, Passes
  <2>4. QED
    BY <2>1, <2>2, <2>3
<1>7. R \subseteq E
  BY <1>1 DEF AnswerInv
<1>8. QED
  BY <1>1, <1>2, <1>3, <1>5, <1>6, <1>7 DEF AnswerInv

(* Nothing is said but what is no reply.                                    *)
LEMMA SilentAnswersStay ==
  ASSUME OrderInv, AnswerInv, Lists, IsList(events), UNCHANGED executed,
         Reporting' = Reporting, Avoids("completed"),
         coordinator' \in Looping => coordinator \in Looping,
         UNCHANGED <<writer, sent>>,
         UNCHANGED outbound \/ \E m : Says(m) /\ ~Is(m, "reply")
  PROVE  AnswerInv'
<1>1. (Live' <=> Live) /\ Same(Stream, Stream', "reply")
  BY UnsaidStays
<1>2. \A x \in Ids(Stream', "reply"), y \in Ids(Stream, "reply") :
        y < x => y \in Ids(Stream', "reply")
  BY <1>1 DEF Same
<1>3. Passes(Stream, Stream', "reply")
  BY <1>1 DEF Same
<1>4. QED
  BY <1>1, <1>2, <1>3, AnswersStay

(* The action worker.                                                       *)
LEMMA ActionWorkerKeepsAnswers ==
  ASSUME SessionInv, BeforeHello, EventInv, OrderInv, AnswerInv, ActionWorker
  PROVE  AnswerInv'
<1>1. /\ IsList(events) /\ Lists /\ IsList(executed)
      /\ DOMAIN actionWorker = {"at", "job", "result"}
  BY ActionLists DEF BeforeHello, EventInv
<1>2. UNCHANGED <<writer, sent, outbound, coordinator>>
  BY DEF ActionWorker, TakeAction, ExecuteAction, ReportAction, StopActions, ActionElse,
         writerVars
<1>3. Stream' = Stream /\ (Live' <=> Live)
  BY <1>1, <1>2, NothingIsSaid
<1>4. PICK S, E, R, C : /\ S = Ids(Stream, "reply") /\ E = Ids(executed, "job")
                        /\ R = Reporting /\ C = Ids(events, "completed")
  OBVIOUS
<1>5. /\ Rising(Stream', "reply") /\ Ids(Stream', "reply") = S
      /\ S \subseteq E /\ Downward(S, E) /\ R \subseteq E /\ E \subseteq Int
  BY <1>3, <1>4 DEF AnswerInv, OrderInv, Chain, Numbers
<1>6. Live' /\ coordinator' \in Looping =>
        Rising(events, "completed") /\ AnswersFollow(S, C, R, E)
  BY <1>2, <1>3, <1>4 DEF AnswerInv
<1>7. CASE TakeAction \/ StopActions
  <2>1. UNCHANGED executed /\ Reporting' = Reporting /\ Avoids("completed")
    BY <1>1, <1>7 DEF TakeAction, StopActions, Reporting, Avoids
  <2>2. QED
    BY <1>1, <1>2, <2>1, SilentAnswersStay
<1>8. CASE ExecuteAction
  <2> DEFINE j == actionWorker.job
             x == j.request
  <2>1. /\ actionWorker.at = "executing" /\ actionWorker'.at = "reporting"
        /\ actionWorker'.job = j
        /\ executed' = Append(executed, j) /\ UNCHANGED events
    BY <1>1, <1>8 DEF ExecuteAction
  <2>2. Doing = {x} /\ R = {} /\ Reporting' = {x}
    BY <1>4, <2>1 DEF Doing, Reporting
  <2>3. Is(j, "job") /\ Ident(j, "job") = x
    BY JobsAre
  <2> HIDE DEF j, x
  <2>4. Ids(executed', "job") = E \cup {x}
    BY <1>1, <1>4, <2>1, <2>3, AppendRequests
  <2>5. x \in Int /\ \A y \in E : y < x
    BY <1>4, <2>2 DEF OrderInv, Chain, Below, Numbers
  <2>6. Downward(S, E \cup {x})
    <3>1. \A y \in S : ~(x < y)
      BY <1>5, <2>5
    <3>2. QED
      BY <1>5, <3>1 DEF Downward
  <2>7. AnswersFollow(S, C, R, E) => AnswersFollow(S, C, {x}, E \cup {x})
    BY <1>5, <2>2, <2>5 DEF AnswersFollow, Below
  <2>8. QED
    BY <1>4, <1>5, <1>6, <2>1, <2>2, <2>4, <2>6, <2>7 DEF AnswerInv
<1>9. CASE ReportAction
  <2> DEFINE x == actionWorker.job.request
             e == Event("ActionCompleted", x, NoSubscription, actionWorker.result)
  <2>1. /\ actionWorker.at = "reporting" /\ actionWorker'.at = "waiting"
        /\ events' = Append(events, e) /\ UNCHANGED executed
    BY <1>1, <1>9 DEF ReportAction, Post
  <2>2. R = {x} /\ Reporting' = {}
    BY <1>4, <2>1 DEF Reporting
  <2>3. Is(e, "completed") /\ Ident(e, "completed") = x
    BY DEF Is, Ident, Event
  <2> HIDE DEF e, x
  <2>4. Ids(events', "completed") = C \cup {x}
    BY <1>1, <1>4, <2>1, <2>3, AppendRequests
  <2>5. ASSUME Rising(events, "completed"), AnswersFollow(S, C, R, E)
        PROVE  Rising(events', "completed") /\ AnswersFollow(S, C \cup {x}, {}, E)
    <3>1. \A y \in C : y < x
      BY <2>2, <2>5 DEF AnswersFollow, Below
    <3>2. Rising(events', "completed")
      BY <1>1, <1>4, <2>1, <2>3, <2>5, <3>1, AppendRequests
    <3>3. AnswersFollow(S, C \cup {x}, {}, E)
      BY <1>5, <2>2, <2>5 DEF AnswersFollow, Below
    <3>4. QED
      BY <3>2, <3>3
  <2>6. QED
    BY <1>4, <1>5, <1>6, <2>1, <2>2, <2>4, <2>5 DEF AnswerInv
<1>10. QED
  BY <1>7, <1>8, <1>9 DEF ActionWorker

(* What is queued for an action that was executed is a reply.               *)
LEMMA ReplyIsQueued ==
  ASSUME NEW x \in Numbers, NEW error \in Results,
         Queue(IF error = NoError THEN ActionAcknowledgement(x) ELSE ErrorMessage(x, error))
  PROVE  \E m : Says(m) /\ Is(m, "reply") /\ Ident(m, "reply") = x
<1>1. CASE error = NoError
  <2>1. PICK m : Says(m) /\ m.type = "Ack" /\ m.request = x
    BY <1>1, QueueNames DEF ActionAcknowledgement
  <2>2. QED
    BY <2>1 DEF Is, IsReply, Ident
<1>2. CASE error # NoError
  <2> DEFINE c == <<Code(error), IsRetryable(error)>>
  <2>1. Queue(Outbound("Error", x, NoSubscription, c))
    BY <1>2 DEF ErrorMessage
  <2>2. c[1] = Code(error)
    OBVIOUS
  <2>3. Code(error) \in {"execution_rejected", "internal_error"}
    BY <1>2, Codes DEF Results
  <2> HIDE DEF c
  <2>4. PICK m : Says(m) /\ m.type = "Error" /\ m.request = x /\ m.content = c
    BY <2>1, QueueNames
  <2>5. QED
    BY <2>2, <2>3, <2>4 DEF Is, IsReply, Ident, Numbers
<1>3. QED
  BY <1>1, <1>2

(* The first completion is replied to.                                      *)
LEMMA RepliesFollow ==
  ASSUME NEW S, NEW C, NEW R, NEW E, AnswersFollow(S, C, R, E),
         E \subseteq Int, S \subseteq E, R \subseteq E, Downward(S, E),
         NEW x, NEW C2, C = C2 \cup {x}, \A y \in C2 : x < y
  PROVE  /\ \A y \in S : y < x
         /\ S \cup {x} \subseteq E
         /\ Downward(S \cup {x}, E)
         /\ AnswersFollow(S \cup {x}, C2, R, E)
<1>1. x \in E /\ \A y \in S : y < x
  BY DEF AnswersFollow, Below
<1>2. \A y \in R : x < y
  BY DEF AnswersFollow, Below
<1>3. ASSUME NEW y \in E, y < x PROVE y \in S
  <2>1. y \in Int /\ x \in Int /\ y # x
    BY <1>1, <1>3
  <2>2. y \notin R
    BY <1>2, <1>3, <2>1
  <2>3. y \notin C2
    BY <1>3, <2>1
  <2>4. QED
    BY <2>1, <2>2, <2>3 DEF AnswersFollow
<1>4. Downward(S \cup {x}, E)
  BY <1>3 DEF Downward
<1>5. AnswersFollow(S \cup {x}, C2, R, E)
  BY <1>1, <1>2 DEF AnswersFollow, Below
<1>6. QED
  BY <1>1, <1>4, <1>5

(* The coordinator replies, or leaves the loop.                             *)
LEMMA CompletionKeepsAnswers ==
  ASSUME SessionInv, BeforeHello, EventInv, OrderInv, ResultInv, AnswerInv, OnActionCompleted
  PROVE  AnswerInv'
<1> DEFINE x == Head(events).request
           error == Head(events).result
<1>1. /\ events # <<>> /\ events' = Tail(events) /\ Head(events).type = "ActionCompleted"
      /\ coordinator = "loop" /\ UNCHANGED <<writer, sent, actionWorker, executed>>
  BY DEF OnActionCompleted, TakeEvent, TaskVars, writerVars, actionVars
<1>2. Lists /\ IsList(events)
  BY DEF EventInv, BeforeHello
<1>3. \/ Queue(IF error = NoError THEN ActionAcknowledgement(x) ELSE ErrorMessage(x, error))
      \/ UNCHANGED outbound /\ coordinator' = "final_error"
  BY DEF OnActionCompleted, Deliver, Leave
<1>4. Is(Head(events), "completed") /\ Ident(Head(events), "completed") = x
  BY <1>1 DEF Is, Ident
<1>5. error \in Results
  <2>1. 1 \in DOMAIN events /\ Head(events) = events[1]
    <3>1. Len(events) \in Nat /\ Len(events) >= 1 /\ Head(events) = events[1]
      BY <1>1, <1>2, TailList
    <3>2. DOMAIN events = 1..Len(events)
      BY <1>2, ListLength
    <3>3. QED
      BY <3>1, <3>2
  <2>2. QED
    BY <1>4, <2>1 DEF ResultInv, Where
<1> HIDE DEF x, error
<1>6. PICK S, E, R, C, C2 :
        /\ S = Ids(Stream, "reply") /\ E = Ids(executed, "job") /\ R = Reporting
        /\ C = Ids(events, "completed") /\ C2 = Ids(events', "completed")
  OBVIOUS
<1>7. /\ Rising(Stream, "reply") /\ S \subseteq E /\ Downward(S, E) /\ R \subseteq E
      /\ E \subseteq Numbers /\ E \subseteq Int
      /\ Ids(executed', "job") = E /\ Reporting' = R
  BY <1>1, <1>6 DEF AnswerInv, OrderInv, Chain, Numbers, Reporting
<1>8. ASSUME Stream' = Stream, ~(Live' /\ coordinator' \in Looping)
      PROVE  AnswerInv'
  BY <1>6, <1>7, <1>8 DEF AnswerInv
<1>9. CASE UNCHANGED outbound /\ coordinator' = "final_error"
  <2>1. Stream' = Stream
    BY <1>1, <1>2, <1>9, NothingIsSaid
  <2>2. coordinator' \notin Looping
    BY <1>9 DEF Looping
  <2>3. QED
    BY <1>8, <2>1, <2>2
<1>10. CASE Queue(IF error = NoError THEN ActionAcknowledgement(x)
                                     ELSE ErrorMessage(x, error))
  <2>1. PICK n : Says(n)
    BY <1>10 DEF Queue, QueueWith, Says
  <2>2. CASE ~Live
    <3>1. Stream' = Stream /\ ~Live'
      BY <1>1, <1>2, <2>1, <2>2, OthersShow
    <3>2. QED
      BY <1>8, <3>1
  <2>3. CASE Live
    <3>1. Rising(events, "completed") /\ AnswersFollow(S, C, R, E)
      BY <1>1, <1>6, <2>3 DEF AnswerInv, Looping
    <3>2. /\ C = C2 \cup {x} /\ (\A y \in C2 : x < y) /\ Rising(events', "completed")
      BY <1>1, <1>2, <1>4, <1>6, <3>1, TailRequests DEF Passes
    <3>3. /\ \A y \in S : y < x
          /\ S \cup {x} \subseteq E
          /\ Downward(S \cup {x}, E)
          /\ AnswersFollow(S \cup {x}, C2, R, E)
      <4>1. PICK y : y = x
        OBVIOUS
      <4>2. /\ AnswersFollow(S, C, R, E) /\ E \subseteq Int /\ S \subseteq E /\ R \subseteq E
            /\ Downward(S, E) /\ C = C2 \cup {y} /\ \A z \in C2 : y < z
        BY <1>7, <3>1, <3>2, <4>1
      <4>3. /\ \A z \in S : z < y
            /\ S \cup {y} \subseteq E
            /\ Downward(S \cup {y}, E)
            /\ AnswersFollow(S \cup {y}, C2, R, E)
        BY <4>2, RepliesFollow
      <4>4. QED
        BY <4>1, <4>3
    <3>4. PICK m : Says(m) /\ Is(m, "reply") /\ Ident(m, "reply") = x
      BY <1>5, <1>7, <1>10, <3>3, ReplyIsQueued
    <3>5. Ids(Stream', "reply") = S \cup {x} /\ Rising(Stream', "reply")
      <4>1. PICK u, v : u = Stream /\ v = Stream'
        OBVIOUS
      <4>2. IsList(u) /\ v = Append(u, m) /\ Rising(u, "reply") /\ S = Ids(u, "reply")
        BY <1>1, <1>2, <1>6, <1>7, <2>3, <3>4, <4>1, StreamIsList, OthersShow
      <4>3. Ids(v, "reply") = S \cup {x} /\ Rising(v, "reply")
        BY <3>3, <3>4, <4>2, AppendRequests
      <4>4. QED
        BY <4>1, <4>3
    <3>6. QED
      BY <1>6, <1>7, <3>2, <3>3, <3>5 DEF AnswerInv
  <2>4. QED
    BY <2>2, <2>3
<1>11. QED
  BY <1>3, <1>9, <1>10

(* Every step.                                                              *)
LEMMA AnswerStep ==
  ASSUME SessionInv, BeforeHello, EventInv, OrderInv, ResultInv, AnswerInv, [Next]_vars
  PROVE  AnswerInv'
<1>1. Lists /\ IsList(events)
  BY DEF EventInv, BeforeHello
<1>2. coordinator' \in Looping => coordinator \in Looping
  BY LoopIsLeftOnce
<1>3. CASE Aloof
  <2>1. UNCHANGED executed /\ Reporting' = Reporting /\ Avoids("completed")
    BY <1>3, AloofEvents DEF Aloof, workVars, Reporting
  <2>2. /\ Live' => Live
        /\ Passes(Stream, Stream', "reply") /\ (Live' => Same(Stream, Stream', "reply"))
        /\ Rising(Stream, "reply") /\ Ids(Stream, "reply") \subseteq Int =>
             \A x \in Ids(Stream', "reply"), y \in Ids(Stream, "reply") :
               y < x => y \in Ids(Stream', "reply")
    BY <1>1, <1>3, AloofStream DEF Aloof
  <2>3. QED
    BY <1>1, <1>2, <2>1, <2>2, AnswersStay
<1>4. CASE QueryWorker \/ HandleQuery \/ OnQueryCompleted
  <2>1. /\ UNCHANGED <<executed, writer, sent>> /\ Reporting' = Reporting
        /\ Avoids("completed")
        /\ UNCHANGED outbound \/ \E m : Says(m) /\ ~Is(m, "reply")
    BY <1>4, QueriesLeaveActions DEF Reporting
  <2>2. QED
    BY <1>1, <1>2, <2>1, SilentAnswersStay
<1>5. CASE HandleAction
  <2>1. UNCHANGED <<executed, actionWorker, writer, sent, outbound, events>>
    BY <1>5 DEF HandleAction, TakeMessage, TakeFrame, TaskVars, writerVars, actionVars, Complain
  <2>2. Reporting' = Reporting /\ Avoids("completed")
    BY <2>1 DEF Reporting, Avoids
  <2>3. QED
    BY <1>1, <1>2, <2>1, <2>2, SilentAnswersStay
<1>6. QED
  BY <1>3, <1>4, <1>5, RequestCases, ActionWorkerKeepsAnswers, CompletionKeepsAnswers

(* The actions of the script are numbered.                                  *)
LEMMA ActionInit == ActionsAreNumbered /\ Init => OrderInv /\ ResultInv /\ AnswerInv
<1> SUFFICES ASSUME ActionsAreNumbered, Init PROVE OrderInv /\ ResultInv /\ AnswerInv
  OBVIOUS
<1>1. Input = script /\ script \in Scripts
  BY InputBegins
<1>2. \A x : (Is(x, "action") <=> IsA(x, "action")) /\ Ident(x, "action") = RequestOf(x)
  BY DEF Is, Ident
<1>3. Rising(Input, "action")
  BY <1>1, <1>2 DEF Rising, Where, ActionsAreNumbered
<1>4. Ids(Input, "action") \subseteq Numbers
  BY <1>1, <1>2 DEF Ids, Where, ActionsAreNumbered, Numbers
<1>5. actionQueue = <<>> /\ executed = <<>> /\ events = <<>> /\ actionWorker.at = "waiting"
  BY DEF Init
<1>6. Stream = <<>> /\ Doing = {} /\ Reporting = {}
  BY <1>5, StreamBegins DEF Doing, Reporting
<1>7. \A kind : Rising(<<>>, kind) /\ Ids(<<>>, kind) = {} /\ Where(<<>>, kind) = {}
  BY NothingBegins DEF Rising
<1>8. OrderInv
  BY <1>3, <1>4, <1>5, <1>6, <1>7 DEF OrderInv, Chain, Below
<1>9. ResultInv
  BY <1>5, <1>7 DEF ResultInv
<1>10. AnswerInv
  BY <1>5, <1>6, <1>7 DEF AnswerInv, Downward, AnswersFollow, Below
<1>11. QED
  BY <1>8, <1>9, <1>10

(* What the invariants say of the client.                                   *)
LEMMA OrderIsSeen == SessionInv /\ OrderInv /\ AnswerInv => ActionsInOrder
<1> SUFFICES ASSUME SessionInv, OrderInv, AnswerInv PROVE ActionsInOrder
  OBVIOUS
<1>1. PICK u, v : u = executed /\ v = Stream
  OBVIOUS
<1>2. Where(u, "job") = DOMAIN u /\ \A i : Ident(u[i], "job") = u[i].request
  BY JobsAre DEF Where
<1>3. Replies = Where(v, "reply") /\ \A i : Ident(v[i], "reply") = v[i].request
  BY <1>1 DEF Replies, Where, Is, Ident
<1>4. /\ Rising(u, "job") /\ Rising(v, "reply")
      /\ Ids(v, "reply") \subseteq Ids(u, "job") /\ Downward(Ids(v, "reply"), Ids(u, "job"))
  BY <1>1 DEF OrderInv, AnswerInv
<1>5. \A i, j \in DOMAIN u : i < j => u[i].request < u[j].request
  BY <1>2, <1>4 DEF Rising
<1>6. \A i, j \in Replies : i < j => v[i].request < v[j].request
  BY <1>3, <1>4 DEF Rising
<1>7. ASSUME NEW i \in Replies
      PROVE  \E n \in DOMAIN u :
               /\ v[i].request = u[n].request
               /\ \A k \in 1..(n - 1) : \E j \in Replies : v[j].request = u[k].request
  <2>1. v[i].request \in Ids(v, "reply")
    BY <1>3 DEF Ids
  <2>2. PICK n \in DOMAIN u : v[i].request = u[n].request
    BY <1>2, <1>4, <2>1 DEF Ids
  <2>3. ASSUME NEW k \in 1..(n - 1)
        PROVE  \E j \in Replies : v[j].request = u[k].request
    <3>1. k \in DOMAIN u /\ k < n
      <4>1. Len(u) \in Nat /\ DOMAIN u = 1..Len(u)
        BY <1>1, ActionLists, ListLength
      <4>2. QED
        BY <2>2, <2>3, <4>1
    <3>2. u[k].request < v[i].request /\ u[k].request \in Ids(u, "job")
      BY <1>2, <1>5, <2>2, <3>1 DEF Ids
    <3>3. u[k].request \in Ids(v, "reply")
      BY <1>4, <2>1, <3>2 DEF Downward
    <3>4. QED
      BY <1>3, <3>3 DEF Ids
  <2>4. QED
    BY <2>2, <2>3
<1>8. QED
  BY <1>1, <1>5, <1>6, <1>7 DEF ActionsInOrder

(* If a client numbers its actions in their order, they are executed in     *)
(* that order, each at most once, and the replies that it sees are those of *)
(* the first executed ones, in order and without a gap, whatever the query  *)
(* worker, the pumps and the close put between them.                        *)
THEOREM ActionsStayInOrder == ActionsAreNumbered => (Spec => []ActionsInOrder)
<1>1. SessionInv /\ BeforeHello /\ EventInv /\ (OrderInv /\ ResultInv /\ AnswerInv)
        /\ [Next]_vars => (OrderInv /\ ResultInv /\ AnswerInv)'
  BY OrderStep, ResultStep, AnswerStep
<1>2. QED
  BY <1>1, ActionInit, OrderIsSeen, EventsAlways, PTL DEF Spec
=============================================================================
