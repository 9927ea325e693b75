------------------------ MODULE DocumentQueriesProofs ------------------------
(***************************************************************************)
(* Proofs about DocumentQueries for any sessions, assets, geometries, page *)
(* lists, number of documents and number of concurrent queries.            *)
(*                                                                         *)
(* The argument: a document, once in the catalog, is there for ever as it  *)
(* is, so what a query read before one of its awaits is what it would read *)
(* after it.  The catalogs therefore only grow, and everything a running   *)
(* query relies on is of the kind that growth keeps.                       *)
(***************************************************************************)
EXTENDS DocumentQueries, FiniteSetTheorems, SequenceTheorems, TLAPS

PageCanvases == [page : PageIds, canvas : Canvases]
Compositions ==
  [document : Documents, asset : Assets, canvases : Seq(PageCanvases)]
Summaries == [id : DocumentIds, pages : Nat, asset : Assets]

(* A composition carries the number of its document, in its pages too.      *)
Numbered(id, c) ==
  /\ c.document.id = id
  /\ c.document.pages # <<>>
  /\ \A i \in DOMAIN c.document.pages : /\ c.document.pages[i].page = <<id, i>>
                                        /\ c.document.pages[i].canvas = <<id, i>>
  /\ ValidComposition(c)

ComposedInv ==
  /\ composed \in Seq(Compositions)
  /\ Len(composed) <= MaxDocuments
  /\ \A id \in DOMAIN composed : Numbered(id, composed[id])
  /\ published \subseteq DOMAIN composed

(* A stored document is a composed one, perhaps of another session.         *)
StoredInv ==
  /\ documents \in [DocumentIds -> Documents \cup {None}]
  /\ \A id \in DocumentIds : documents[id] # None =>
       /\ id \in DOMAIN composed
       /\ documents[id].id = id
       /\ documents[id].pages = composed[id].document.pages

(* The order of a session has its documents, each once.                     *)
OrderInv ==
  /\ sessionOrder \in [Sessions -> Seq(DocumentIds)]
  /\ \A s \in Sessions : \A i \in 1..Len(sessionOrder[s]) :
       /\ documents[sessionOrder[s][i]] # None
       /\ documents[sessionOrder[s][i]].session = s
       /\ \A j \in 1..Len(sessionOrder[s]) :
            sessionOrder[s][i] = sessionOrder[s][j] => i = j
  /\ \A id \in DocumentIds, s \in Sessions :
       documents[id] # None /\ documents[id].session = s =>
         \E i \in 1..Len(sessionOrder[s]) : sessionOrder[s][i] = id

CatalogInv == ComposedInv /\ StoredInv /\ OrderInv

(* The last list of a session is a beginning of its order.                  *)
ShownInv ==
  /\ shown \in [Sessions -> Seq(Summaries)]
  /\ \A s \in Sessions :
       /\ Len(shown[s]) <= Len(sessionOrder[s])
       /\ \A i \in 1..Len(shown[s]) :
            shown[s][i] = Summary(documents[sessionOrder[s][i]])

(* The canvases read so far are those of the first pages.                   *)
Drawn(canvases, d) ==
  /\ canvases \in Seq(PageCanvases)
  /\ \A i \in 1..Len(canvases) :
       /\ canvases[i].page = d.pages[i].page
       /\ canvases[i].canvas = CanvasFor(d.id, i, d.session, d.pages[i].geometry)

Fields == {"pc", "kind", "target", "resolved", "document", "asset", "canvases",
           "result", "answer", "granted", "known", "ready", "faulty"}

(* A query of each kind goes through its own stages.                        *)
Staged(q) ==
  /\ DOMAIN q = Fields
  /\ q.pc # "done" => q.result = None
  /\ q.pc \in {"authorize", "list", "resolve", "document", "asset", "page"} =>
       q.kind \in {"list", "get"}
  /\ q.kind = "list" => /\ q.target \in Sessions
                        /\ q.pc \in {"authorize", "list", "done"}
  /\ q.kind = "get" =>
       /\ q.target \in DocumentIds
       /\ q.pc \in {"resolve", "authorize", "document", "asset", "page", "done"}

(* What a query has learnt when it reaches a stage.                         *)
Reading(q) ==
  /\ q.pc \in {"resolve", "authorize", "document", "asset"} => q.canvases = <<>>
  /\ q.kind = "list" /\ q.pc = "list" => q.target \in q.granted
  /\ q.kind = "get" =>
       /\ q.pc \in {"resolve", "authorize"} => q.granted = {}
       /\ q.pc = "authorize" => /\ documents[q.target] # None
                                /\ q.resolved = documents[q.target]
       /\ q.pc \in {"document", "asset", "page"} =>
            /\ documents[q.target] # None
            /\ documents[q.target].session \in q.granted
       /\ q.pc \in {"asset", "page"} => q.document = documents[q.target]
       /\ q.pc = "page" => /\ q.asset = q.document.asset
                           /\ Len(q.canvases) < Len(q.document.pages)
                           /\ Drawn(q.canvases, q.document)

(* What a successful answer says is what the catalog says.                  *)
Answered(q) ==
  q.result = "Success" =>
    /\ q.kind \in {"list", "get"}
    /\ q.kind = "get" =>
         /\ documents[q.target] # None
         /\ q.answer.document = documents[q.target]
         /\ q.answer.asset = q.answer.document.asset
         /\ Len(q.answer.canvases) = Len(q.answer.document.pages)
         /\ Drawn(q.answer.canvases, q.answer.document)
         /\ documents[q.target].session \in q.granted
    /\ q.kind = "list" =>
         /\ q.target \in q.granted
         /\ \A i \in DOMAIN q.answer.documents :
              /\ q.answer.documents[i].id \in DocumentIds
              /\ documents[q.answer.documents[i].id] # None
              /\ documents[q.answer.documents[i].id].session = q.target

(* What was known when the query began still holds.                         *)
Remembered(q) ==
  /\ q.known => /\ q.kind = "get"
                /\ documents[q.target] # None
                /\ q.result # "NotFound"
  /\ q.ready => /\ q.kind = "get"
                /\ Complete(q.target)
                /\ ~q.faulty /\ q.granted # {} => q.result \in {None, "Success"}

QueryInv(q) == Staged(q) /\ Reading(q) /\ Answered(q) /\ Remembered(q)

TaskInv == DOMAIN task = Tasks /\ \A t \in Tasks : QueryInv(task[t])

Inv == CatalogInv /\ ShownInv /\ TaskInv

---------------------------------------------------------------------------
(* How the catalogs change in a step: they only grow.                       *)
Grows ==
  /\ \A i \in DOMAIN composed : i \in DOMAIN composed' /\ composed'[i] = composed[i]
  /\ \A id \in DocumentIds : documents[id] # None => documents'[id] = documents[id]
  /\ \A s \in Sessions :
       /\ Len(sessionOrder[s]) <= Len(sessionOrder'[s])
       /\ \A i \in 1..Len(sessionOrder[s]) : sessionOrder'[s][i] = sessionOrder[s][i]
  /\ published \subseteq published'
  /\ assets \subseteq assets'

allCatalogs == <<composed, documents, sessionOrder, published, assets>>

(* A composition of an accepted page list is valid and numbered.            *)
LEMMA ComposeMakes ==
  ASSUME NEW id \in DocumentIds, NEW session \in Sessions, NEW asset \in Assets,
         NEW pages \in PageLists, pages # <<>>
  PROVE  LET c == Compose(id, session, asset, pages)
         IN  c \in Compositions /\ (ValidComposition(c) => Numbered(id, c))
<1> DEFINE c == Compose(id, session, asset, pages)
           dp == [i \in DOMAIN pages |-> DocumentPage(id, i, pages[i])]
           cs == [i \in DOMAIN pages |->
                    [page |-> <<id, i>>,
                     canvas |-> CanvasFor(id, i, session, pages[i].geometry)]]
           n == Len(pages)
<1>1. /\ pages \in Seq([index : Nat, geometry : Geometries])
      /\ n \in Nat /\ DOMAIN pages = 1..n
      /\ \A i \in 1..n : pages[i] \in [index : Nat, geometry : Geometries]
  BY DocumentAssumption, LenProperties, ElementOfSeq
<1>2. n # 0
  BY <1>1, EmptySeq
<1>3. \A i \in 1..n : <<id, i>> \in PageIds
  BY <1>1 DEF PageIds
<1> HIDE DEF n
<1>4. dp \in [1..n -> DocumentPages]
  BY <1>1, <1>3 DEF DocumentPage, DocumentPages
<1>5. cs \in [1..n -> PageCanvases]
  BY <1>1, <1>3 DEF CanvasFor, Canvases, PageCanvases
<1>6. dp \in Seq(DocumentPages) /\ cs \in Seq(PageCanvases)
  BY <1>1, <1>4, <1>5, IsASeq
<1>7. dp # <<>>
  <2>1. 1 \in DOMAIN dp
    BY <1>1, <1>2
  <2>2. 1 \notin DOMAIN <<>>
    OBVIOUS
  <2>3. QED
    BY <2>1, <2>2
<1>8. \A i \in DOMAIN dp : dp[i].page = <<id, i>> /\ dp[i].canvas = <<id, i>>
  BY DEF DocumentPage
<1>9. c = [document |-> Document(id, session, asset, dp), asset |-> asset,
           canvases |-> cs]
  BY DEF Compose
<1> HIDE DEF dp, cs, c
<1>10. Document(id, session, asset, dp) \in Documents
  BY <1>6 DEF Document, Documents
<1>11. c \in Compositions
  BY <1>6, <1>9, <1>10 DEF Compositions
<1>12. c.document.id = id /\ c.document.pages = dp
  BY <1>9 DEF Document
<1>13. QED
  BY <1>7, <1>8, <1>11, <1>12 DEF Numbered, c

(* Composing a document.                                                    *)
LEMMA ComposeKeeps ==
  ASSUME NEW s \in Sessions, NEW a \in Assets, NEW pages \in PageLists,
         CatalogInv, ComposeDocument(s, a, pages)
  PROVE  CatalogInv' /\ Grows
<1> DEFINE n == Len(composed)
           c == Compose(n + 1, s, a, pages)
<1>1. /\ composed \in Seq(Compositions) /\ n \in Nat /\ DOMAIN composed = 1..n
      /\ n <= MaxDocuments /\ MaxDocuments \in Nat
  BY DocumentAssumption, LenProperties DEF CatalogInv, ComposedInv
<1>2. /\ n < MaxDocuments /\ pages # <<>> /\ ValidComposition(c)
      /\ composed' = Append(composed, c)
      /\ UNCHANGED <<documents, sessionOrder, published, assets>>
  BY DEF ComposeDocument, CompositionInput
<1>3. n + 1 \in DocumentIds
  BY <1>1, <1>2 DEF DocumentIds
<1>4. c \in Compositions /\ Numbered(n + 1, c)
  BY <1>2, <1>3, ComposeMakes
<1> HIDE DEF c
<1>5. /\ composed' \in Seq(Compositions) /\ Len(composed') = n + 1
      /\ \A i \in 1..n : composed'[i] = composed[i]
      /\ composed'[n + 1] = c
  BY <1>1, <1>2, <1>4, AppendProperties
<1> HIDE DEF n
<1>6. DOMAIN composed' = 1..(n + 1)
  BY <1>5, LenProperties
<1>7. ComposedInv'
  <2>1. ASSUME NEW id \in 1..(n + 1)
        PROVE  Numbered(id, composed'[id])
    <3>1. CASE id = n + 1
      BY <1>4, <1>5, <3>1
    <3>2. CASE id # n + 1
      <4>1. id \in 1..n
        BY <1>1, <3>2
      <4>2. QED
        BY <1>1, <1>5, <4>1 DEF CatalogInv, ComposedInv
    <3>3. QED
      BY <3>1, <3>2
  <2>2. published' \subseteq 1..(n + 1)
    BY <1>1, <1>2 DEF CatalogInv, ComposedInv
  <2>3. n + 1 <= MaxDocuments
    BY <1>1, <1>2
  <2>4. QED
    BY <1>5, <1>6, <2>1, <2>2, <2>3 DEF ComposedInv, Numbered, ValidComposition
<1>8. StoredInv'
  BY <1>1, <1>2, <1>5, <1>6 DEF CatalogInv, StoredInv
<1>9. OrderInv'
  BY <1>2 DEF CatalogInv, OrderInv
<1>10. Grows
  <2>1. \A i \in DOMAIN composed : i \in DOMAIN composed' /\ composed'[i] = composed[i]
    BY <1>1, <1>5, <1>6
  <2>2. \A t \in Sessions : Len(sessionOrder[t]) \in Nat
    BY LenProperties DEF CatalogInv, OrderInv
  <2>3. QED
    BY <1>2, <2>1, <2>2 DEF Grows
<1>11. QED
  BY <1>7, <1>8, <1>9, <1>10 DEF CatalogInv

(* Registering a descriptor.                                                *)
LEMMA InsertKeeps ==
  ASSUME NEW d \in Presented, CatalogInv, InsertDocument(d)
  PROVE  CatalogInv' /\ Grows
<1>1. PICK i \in DOMAIN composed, s \in Sessions :
        d = [composed[i].document EXCEPT !.session = s]
  BY DEF Presented
<1>2. /\ composed \in Seq(Compositions) /\ Len(composed) \in Nat
      /\ DOMAIN composed = 1..Len(composed) /\ Len(composed) <= MaxDocuments
      /\ MaxDocuments \in Nat
  BY DocumentAssumption, LenProperties DEF CatalogInv, ComposedInv
<1>3. i \in DocumentIds
  BY <1>2 DEF DocumentIds
<1>4. composed[i].document \in Documents /\ Numbered(i, composed[i])
  <2>1. composed[i] \in Compositions
    BY <1>2, ElementOfSeq
  <2>2. QED
    BY <2>1 DEF CatalogInv, ComposedInv, Compositions
<1>5. /\ d \in Documents /\ d.id = i /\ d.session = s
      /\ d.pages = composed[i].document.pages
  BY <1>1, <1>4 DEF Documents, Numbered
<1>6. d # None
  BY <1>5, DocumentAssumption
<1>7. UNCHANGED <<composed, published, assets>> /\ Insert(d)
  BY DEF InsertDocument
<1>8. ComposedInv'
  BY <1>7 DEF CatalogInv, ComposedInv, Numbered, ValidComposition
<1>9. \A t \in Sessions : /\ sessionOrder[t] \in Seq(DocumentIds)
                          /\ Len(sessionOrder[t]) \in Nat
  BY LenProperties DEF CatalogInv, OrderInv
<1>10. CASE documents[i] # None
  <2>1. UNCHANGED <<documents, sessionOrder>>
    BY <1>5, <1>7, <1>10 DEF Insert, catalogVars
  <2>2. StoredInv' /\ OrderInv'
    BY <1>7, <2>1 DEF CatalogInv, StoredInv, OrderInv
  <2>3. Grows
    BY <1>7, <1>9, <2>1 DEF Grows
  <2>4. QED
    BY <1>8, <2>2, <2>3 DEF CatalogInv
<1>11. CASE documents[i] = None
  <2>1. /\ documents' = [documents EXCEPT ![i] = d]
        /\ sessionOrder' = [sessionOrder EXCEPT ![s] = Append(@, i)]
    BY <1>5, <1>7, <1>11 DEF Insert
  <2>2. /\ documents' \in [DocumentIds -> Documents \cup {None}]
        /\ documents'[i] = d
        /\ \A id \in DocumentIds : id # i => documents'[id] = documents[id]
    BY <1>3, <1>5, <2>1 DEF CatalogInv, StoredInv
  <2>3. StoredInv'
    BY <1>3, <1>5, <1>7, <2>2 DEF CatalogInv, StoredInv
  <2> DEFINE o == sessionOrder[s]
             p == sessionOrder'[s]
             n == Len(o)
  <2>4. /\ n \in Nat /\ p \in Seq(DocumentIds) /\ Len(p) = n + 1
        /\ \A j \in 1..n : p[j] = o[j]
        /\ p[n + 1] = i
    <3>1. p = Append(o, i)
      BY <2>1 DEF CatalogInv, OrderInv
    <3>2. QED
      BY <1>3, <1>9, <3>1, AppendProperties
  <2>5. \A t \in Sessions : t # s => sessionOrder'[t] = sessionOrder[t]
    BY <2>1 DEF CatalogInv, OrderInv
  <2>6. sessionOrder' \in [Sessions -> Seq(DocumentIds)]
    BY <2>1, <2>4, <2>5 DEF CatalogInv, OrderInv
  <2>7. \A t \in Sessions : \A j \in 1..Len(sessionOrder[t]) :
          /\ sessionOrder[t][j] \in DocumentIds
          /\ sessionOrder[t][j] # i
          /\ documents'[sessionOrder[t][j]] = documents[sessionOrder[t][j]]
    <3>1. ASSUME NEW t \in Sessions, NEW j \in 1..Len(sessionOrder[t])
          PROVE  sessionOrder[t][j] \in DocumentIds /\ sessionOrder[t][j] # i
      <4>1. sessionOrder[t][j] \in DocumentIds
        BY <1>9, ElementOfSeq
      <4>2. documents[sessionOrder[t][j]] # None
        BY DEF CatalogInv, OrderInv
      <4>3. QED
        BY <1>11, <4>1, <4>2
    <3>2. QED
      BY <2>2, <3>1
  <2>8. ASSUME NEW t \in Sessions, NEW j \in 1..Len(sessionOrder'[t])
        PROVE  /\ documents'[sessionOrder'[t][j]] # None
               /\ documents'[sessionOrder'[t][j]].session = t
               /\ \A k \in 1..Len(sessionOrder'[t]) :
                    sessionOrder'[t][j] = sessionOrder'[t][k] => j = k
    <3>1. CASE t # s
      BY <2>5, <2>7, <3>1 DEF CatalogInv, OrderInv
    <3>2. CASE t = s
      <4>1. \A k \in 1..(n + 1) : k \in 1..n \/ k = n + 1
        BY <2>4
      <4>2. \A k \in 1..n : p[k] = o[k] /\ o[k] # i
        BY <2>4, <2>7
      <4>3. \A k, m \in 1..n : o[k] = o[m] => k = m
        BY DEF CatalogInv, OrderInv
      <4>4. \A k \in 1..n : documents'[o[k]] # None /\ documents'[o[k]].session = s
        BY <2>7 DEF CatalogInv, OrderInv
      <4>5. j \in 1..(n + 1)
        BY <2>4, <3>2
      <4> HIDE DEF o, p, n
      <4>6. documents'[p[j]] # None /\ documents'[p[j]].session = s
        BY <1>5, <1>6, <2>2, <2>4, <4>1, <4>2, <4>4, <4>5
      <4>7. \A k \in 1..(n + 1) : p[j] = p[k] => j = k
        BY <2>4, <4>1, <4>2, <4>3, <4>5
      <4>8. QED
        BY <2>4, <3>2, <4>6, <4>7 DEF p
    <3>3. QED
      BY <3>1, <3>2
  <2>9. ASSUME NEW id \in DocumentIds, NEW t \in Sessions,
               documents'[id] # None, documents'[id].session = t
        PROVE  \E j \in 1..Len(sessionOrder'[t]) : sessionOrder'[t][j] = id
    <3>1. CASE id = i
      <4>1. t = s
        BY <1>5, <2>2, <2>9, <3>1
      <4>2. n + 1 \in 1..(n + 1)
        BY <2>4
      <4>3. QED
        BY <2>4, <3>1, <4>1, <4>2
    <3>2. CASE id # i
      <4>1. PICK j \in 1..Len(sessionOrder[t]) : sessionOrder[t][j] = id
        BY <2>2, <2>9, <3>2 DEF CatalogInv, OrderInv
      <4>2. CASE t # s
        BY <2>5, <4>1, <4>2
      <4>3. CASE t = s
        <5>1. j \in 1..(n + 1) /\ p[j] = id
          BY <2>4, <4>1, <4>3
        <5>2. QED
          BY <2>4, <4>3, <5>1
      <4>4. QED
        BY <4>2, <4>3
    <3>3. QED
      BY <3>1, <3>2
  <2>10. OrderInv'
    BY <2>6, <2>8, <2>9 DEF OrderInv
  <2>11. Grows
    <3>1. ASSUME NEW t \in Sessions
          PROVE  /\ Len(sessionOrder[t]) <= Len(sessionOrder'[t])
                 /\ \A j \in 1..Len(sessionOrder[t]) :
                      sessionOrder'[t][j] = sessionOrder[t][j]
      <4>1. CASE t # s
        BY <1>9, <2>5, <4>1
      <4>2. CASE t = s
        BY <2>4, <4>2
      <4>3. QED
        BY <4>1, <4>2
    <3>2. QED
      BY <1>7, <1>11, <2>2, <3>1 DEF Grows
  <2>12. QED
    BY <1>8, <2>3, <2>10, <2>11 DEF CatalogInv
<1>12. QED
  BY <1>10, <1>11

(* A step that leaves the catalogs alone.                                   *)
LEMMA CatalogsStay ==
  ASSUME CatalogInv, UNCHANGED allCatalogs
  PROVE  CatalogInv' /\ Grows
<1> USE DEF allCatalogs
<1>1. ComposedInv'
  BY DEF CatalogInv, ComposedInv, Numbered, ValidComposition
<1>2. StoredInv' /\ OrderInv'
  BY DEF CatalogInv, StoredInv, OrderInv
<1>3. \A s \in Sessions : Len(sessionOrder[s]) \in Nat
  BY LenProperties DEF CatalogInv, OrderInv
<1>4. Grows
  BY <1>3 DEF Grows
<1>5. QED
  BY <1>1, <1>2, <1>4 DEF CatalogInv

(* The queries: every action of Next on a task.                             *)
TaskStep(t) ==
  \/ \E code \in {"UnsupportedQuery", "InvalidQuery"} : Refuse(t, code)
  \/ \E s \in Sessions : ExecuteList(t, s)
  \/ \E id \in DocumentIds : ExecuteGet(t, id)
  \/ Drop(t)
  \/ Authorize(t)
  \/ \E code \in {"Unauthorized", "Unavailable", "Internal"} : AuthorizeFails(t, code)
  \/ ListDocuments(t)
  \/ ResolveDocument(t)
  \/ ReadDocument(t)
  \/ \E answer \in Assets \cup {None} : ReadAsset(t, answer)
  \/ \E answer \in CanvasAnswers \cup {None} : ReadCanvas(t, answer)
  \/ PortFails(t)

(* A step of a query changes that query only, and what it has shown.        *)
LEMMA TaskStepFrame ==
  ASSUME NEW t \in Tasks, TaskStep(t)
  PROVE  /\ UNCHANGED allCatalogs
         /\ \E q : task' = [task EXCEPT ![t] = q]
<1> USE DEF Goto, Become, Fail, allCatalogs
<1>1. \A code : Refuse(t, code) => UNCHANGED allCatalogs /\ \E q : task' = [task EXCEPT ![t] = q]
  BY DEF Refuse
<1>2. \A s : ExecuteList(t, s) => UNCHANGED allCatalogs /\ \E q : task' = [task EXCEPT ![t] = q]
  BY DEF ExecuteList
<1>3. \A id : ExecuteGet(t, id) => UNCHANGED allCatalogs /\ \E q : task' = [task EXCEPT ![t] = q]
  BY DEF ExecuteGet
<1>4. Drop(t) => UNCHANGED allCatalogs /\ \E q : task' = [task EXCEPT ![t] = q]
  BY DEF Drop
<1>5. Authorize(t) => UNCHANGED allCatalogs /\ \E q : task' = [task EXCEPT ![t] = q]
  BY DEF Authorize
<1>6. \A code : AuthorizeFails(t, code) =>
                  UNCHANGED allCatalogs /\ \E q : task' = [task EXCEPT ![t] = q]
  BY DEF AuthorizeFails
<1>7. ListDocuments(t) => UNCHANGED allCatalogs /\ \E q : task' = [task EXCEPT ![t] = q]
  BY DEF ListDocuments
<1>8. ResolveDocument(t) => UNCHANGED allCatalogs /\ \E q : task' = [task EXCEPT ![t] = q]
  BY DEF ResolveDocument
<1>9. ReadDocument(t) => UNCHANGED allCatalogs /\ \E q : task' = [task EXCEPT ![t] = q]
  BY DEF ReadDocument
<1>10. \A answer : ReadAsset(t, answer) =>
                     UNCHANGED allCatalogs /\ \E q : task' = [task EXCEPT ![t] = q]
  BY DEF ReadAsset
<1>11. \A answer : ReadCanvas(t, answer) =>
                     UNCHANGED allCatalogs /\ \E q : task' = [task EXCEPT ![t] = q]
  BY DEF ReadCanvas
<1>12. PortFails(t) => UNCHANGED allCatalogs /\ \E q : task' = [task EXCEPT ![t] = q]
  BY DEF PortFails
<1>13. QED
  BY <1>1, <1>2, <1>3, <1>4, <1>5, <1>6, <1>7, <1>8, <1>9, <1>10, <1>11, <1>12
  DEF TaskStep

(* Every step of the catalogs is one of composing, registering or nothing.  *)
LEMMA CatalogStep ==
  CatalogInv /\ [Next]_vars => CatalogInv' /\ Grows
<1> SUFFICES ASSUME CatalogInv, [Next]_vars
             PROVE  CatalogInv' /\ Grows
  OBVIOUS
<1>1. ASSUME NEW a \in Assets, RegisterAsset(a)
      PROVE  CatalogInv' /\ Grows
  <2>1. ComposedInv'
    BY <1>1 DEF RegisterAsset, CatalogInv, ComposedInv, Numbered, ValidComposition
  <2>2. StoredInv' /\ OrderInv'
    BY <1>1 DEF RegisterAsset, CatalogInv, StoredInv, OrderInv
  <2>3. \A s \in Sessions : Len(sessionOrder[s]) \in Nat
    BY LenProperties DEF CatalogInv, OrderInv
  <2>4. Grows
    BY <1>1, <2>3 DEF RegisterAsset, Grows
  <2>5. QED
    BY <2>1, <2>2, <2>4 DEF CatalogInv
<1>2. ASSUME NEW i \in DocumentIds, RegisterCanvases(i)
      PROVE  CatalogInv' /\ Grows
  <2>1. ComposedInv'
    BY <1>2 DEF RegisterCanvases, CatalogInv, ComposedInv, Numbered, ValidComposition
  <2>2. StoredInv' /\ OrderInv'
    BY <1>2 DEF RegisterCanvases, CatalogInv, StoredInv, OrderInv
  <2>3. \A s \in Sessions : Len(sessionOrder[s]) \in Nat
    BY LenProperties DEF CatalogInv, OrderInv
  <2>4. Grows
    BY <1>2, <2>3 DEF RegisterCanvases, Grows
  <2>5. QED
    BY <2>1, <2>2, <2>4 DEF CatalogInv
<1>3. ASSUME UNCHANGED vars
      PROVE  CatalogInv' /\ Grows
  BY <1>3, CatalogsStay DEF vars, allCatalogs
<1>4. ASSUME NEW t \in Tasks, TaskStep(t)
      PROVE  CatalogInv' /\ Grows
  BY <1>4, CatalogsStay, TaskStepFrame
<1>5. QED
  BY <1>1, <1>2, <1>3, <1>4, ComposeKeeps, InsertKeeps DEF Next, TaskStep

---------------------------------------------------------------------------
(* What a query relies on is not taken away when the catalogs grow.         *)
LEMMA QueryStays ==
  ASSUME CatalogInv, Grows, NEW q, QueryInv(q)
  PROVE  QueryInv(q)'
<1>1. /\ \A id \in DocumentIds : documents[id] # None => documents'[id] = documents[id]
      /\ \A i \in DOMAIN composed : i \in DOMAIN composed' /\ composed'[i] = composed[i]
      /\ published \subseteq published' /\ assets \subseteq assets'
  BY DEF Grows
<1>2. Staged(q)'
  BY DEF QueryInv, Staged
<1>3. Reading(q)'
  BY <1>1 DEF QueryInv, Staged, Reading, Drawn
<1>4. Answered(q)'
  BY <1>1 DEF QueryInv, Staged, Answered, Drawn
<1>5. Remembered(q)'
  <2>1. ASSUME NEW id \in DocumentIds, Complete(id)
        PROVE  Complete(id)'
    <3>1. id \in DOMAIN composed
      BY <2>1 DEF Complete, CatalogInv, ComposedInv
    <3>2. composed[id] \in Compositions
      BY <3>1, ElementOfSeq, LenProperties DEF CatalogInv, ComposedInv
    <3>3. documents[id] # None
      BY <2>1, <3>2, DocumentAssumption DEF Complete, Compositions
    <3>4. QED
      BY <1>1, <2>1, <3>1, <3>3 DEF Complete
  <2>2. q.kind = "get" => q.target \in DocumentIds
    BY DEF QueryInv, Staged
  <2>3. QED
    BY <1>1, <2>1, <2>2 DEF QueryInv, Remembered
<1>6. QED
  BY <1>2, <1>3, <1>4, <1>5 DEF QueryInv

(* The end of a query.                                                      *)
LEMMA DoneFields ==
  ASSUME NEW q, DOMAIN q = Fields, NEW code, NEW answer
  PROVE  LET d == Done(q, code, answer)
         IN  /\ DOMAIN d = Fields
             /\ d.pc = "done" /\ d.result = code /\ d.answer = answer
             /\ d.kind = q.kind /\ d.target = q.target /\ d.granted = q.granted
             /\ d.known = q.known /\ d.ready = q.ready /\ d.faulty = q.faulty
BY DEF Done, Fields

(* A query that fails, not with NotFound if its document was listed, nor at *)
(* all once it is authorized if its document is complete and no port failed. *)
LEMMA FailureKeeps ==
  ASSUME NEW q, QueryInv(q), NEW code, code # "Success",
         q.known => code # "NotFound",
         q.ready /\ ~q.faulty => q.granted = {}
  PROVE  QueryInv(Done(q, code, None))
<1> DEFINE d == Done(q, code, None)
<1>1. DOMAIN q = Fields
  BY DEF QueryInv, Staged
<1>2. /\ DOMAIN d = Fields
      /\ d.pc = "done" /\ d.result = code
      /\ d.kind = q.kind /\ d.target = q.target /\ d.granted = q.granted
      /\ d.known = q.known /\ d.ready = q.ready /\ d.faulty = q.faulty
  BY <1>1, DoneFields
<1> HIDE DEF d
<1>3. Staged(d)
  BY <1>2 DEF QueryInv, Staged
<1>4. Reading(d)
  BY <1>2 DEF Reading
<1>5. Answered(d)
  BY <1>2 DEF Answered
<1>6. Remembered(d)
  BY <1>2 DEF QueryInv, Remembered
<1>7. QED
  BY <1>3, <1>4, <1>5, <1>6 DEF QueryInv, d

(* A caller without a query.                                                *)
LEMMA IdleFields ==
  /\ DOMAIN Idle = Fields
  /\ Idle.pc = "idle" /\ Idle.kind = None /\ Idle.result = None
  /\ Idle.canvases = <<>> /\ Idle.granted = {}
  /\ ~Idle.known /\ ~Idle.ready /\ ~Idle.faulty
BY DEF Idle, Fields

(* Starting, refusing and dropping a query.                                 *)
LEMMA BeginKeeps ==
  ASSUME CatalogInv, ShownInv, NEW t \in Tasks,
         \/ \E code \in {"UnsupportedQuery", "InvalidQuery"} : Refuse(t, code)
         \/ \E s \in Sessions : ExecuteList(t, s)
         \/ \E id \in DocumentIds : ExecuteGet(t, id)
         \/ Drop(t)
  PROVE  \E q : QueryInv(q) /\ task' = [task EXCEPT ![t] = q]
<1> USE DEF Goto, Become
<1>1. CASE \E code \in {"UnsupportedQuery", "InvalidQuery"} : Refuse(t, code)
  <2>1. PICK code \in {"UnsupportedQuery", "InvalidQuery"} : Refuse(t, code)
    BY <1>1
  <2> DEFINE d == Done(Idle, code, None)
  <2>2. task' = [task EXCEPT ![t] = d]
    BY <2>1 DEF Refuse, Fail
  <2>3. /\ DOMAIN d = Fields
        /\ d.pc = "done" /\ d.result = code
        /\ d.kind = None /\ ~d.known /\ ~d.ready
    BY IdleFields, DoneFields
  <2> HIDE DEF d
  <2>4. Staged(d) /\ Reading(d) /\ Answered(d) /\ Remembered(d)
    BY <2>3, DocumentAssumption DEF Staged, Reading, Answered, Remembered
  <2>5. QED
    BY <2>2, <2>4 DEF QueryInv
<1>2. CASE \E s \in Sessions : ExecuteList(t, s)
  <2>1. PICK s \in Sessions : ExecuteList(t, s)
    BY <1>2
  <2> DEFINE q == [Idle EXCEPT !.pc = "authorize", !.kind = "list", !.target = s]
  <2>2. task' = [task EXCEPT ![t] = q]
    BY <2>1 DEF ExecuteList
  <2>3. /\ DOMAIN q = Fields
        /\ q.pc = "authorize" /\ q.kind = "list" /\ q.target = s
        /\ q.result = None /\ q.canvases = <<>>
        /\ ~q.known /\ ~q.ready
    BY IdleFields DEF Fields
  <2> HIDE DEF q
  <2>4. Staged(q) /\ Reading(q) /\ Answered(q) /\ Remembered(q)
    BY <2>3, DocumentAssumption DEF Staged, Reading, Answered, Remembered
  <2>5. QED
    BY <2>2, <2>4 DEF QueryInv
<1>3. CASE \E id \in DocumentIds : ExecuteGet(t, id)
  <2>1. PICK id \in DocumentIds : ExecuteGet(t, id)
    BY <1>3
  <2> DEFINE q == [Idle EXCEPT !.pc = "resolve", !.kind = "get", !.target = id,
                               !.known = Listed(id), !.ready = Complete(id)]
  <2>2. task' = [task EXCEPT ![t] = q]
    BY <2>1 DEF ExecuteGet
  <2>3. /\ DOMAIN q = Fields
        /\ q.pc = "resolve" /\ q.kind = "get" /\ q.target = id
        /\ q.result = None /\ q.canvases = <<>> /\ q.granted = {}
        /\ q.known = Listed(id) /\ q.ready = Complete(id)
    BY IdleFields DEF Fields
  <2> HIDE DEF q
  <2>4. Listed(id) => documents[id] # None
    <3> SUFFICES ASSUME NEW s \in Sessions, NEW i \in DOMAIN shown[s], shown[s][i].id = id
                 PROVE  documents[id] # None
      BY DEF Listed
    <3>1. i \in 1..Len(shown[s]) /\ Len(shown[s]) \in Nat
      BY LenProperties DEF ShownInv
    <3>2. /\ sessionOrder[s] \in Seq(DocumentIds) /\ Len(sessionOrder[s]) \in Nat
          /\ Len(shown[s]) <= Len(sessionOrder[s])
      BY LenProperties DEF CatalogInv, OrderInv, ShownInv
    <3>3. i \in 1..Len(sessionOrder[s])
      BY <3>1, <3>2
    <3> DEFINE k == sessionOrder[s][i]
    <3>4. k \in DocumentIds /\ documents[k] # None
      BY <3>2, <3>3, ElementOfSeq DEF CatalogInv, OrderInv
    <3>5. documents[k].id = k
      BY <3>4 DEF CatalogInv, StoredInv
    <3>6. shown[s][i].id = documents[k].id
      <4>1. shown[s][i] = Summary(documents[k])
        BY <3>1 DEF ShownInv
      <4>2. QED
        BY <4>1 DEF Summary
    <3>7. QED
      BY <3>4, <3>5, <3>6
  <2>5. Staged(q) /\ Reading(q) /\ Answered(q)
    BY <2>3, DocumentAssumption DEF Staged, Reading, Answered
  <2>6. Remembered(q)
    BY <2>3, <2>4, DocumentAssumption DEF Remembered
  <2>7. QED
    BY <2>2, <2>5, <2>6 DEF QueryInv
<1>4. CASE Drop(t)
  <2>1. task' = [task EXCEPT ![t] = Idle]
    BY <1>4 DEF Drop
  <2>2. Staged(Idle) /\ Reading(Idle) /\ Answered(Idle) /\ Remembered(Idle)
    BY IdleFields, DocumentAssumption DEF Staged, Reading, Answered, Remembered
  <2>3. QED
    BY <2>1, <2>2 DEF QueryInv
<1>5. QED
  BY <1>1, <1>2, <1>3, <1>4

(* The authorizer.                                                          *)
LEMMA AuthorizeKeeps ==
  ASSUME NEW t \in Tasks, QueryInv(task[t]),
         \/ Authorize(t)
         \/ \E code \in {"Unauthorized", "Unavailable", "Internal"} :
              AuthorizeFails(t, code)
  PROVE  \E q : QueryInv(q) /\ task' = [task EXCEPT ![t] = q]
<1> USE DEF Goto, Become
<1> DEFINE p == task[t]
<1>1. CASE Authorize(t)
  <2> DEFINE session == IF p.kind = "list" THEN p.target ELSE p.resolved.session
             q == [p EXCEPT !.granted = @ \cup {session},
                            !.pc = IF p.kind = "list" THEN "list" ELSE "document"]
  <2>1. task' = [task EXCEPT ![t] = q] /\ p.pc = "authorize"
    BY <1>1 DEF Authorize, At
  <2>2. DOMAIN p = Fields /\ p.result = None /\ p.kind \in {"list", "get"}
    BY <2>1 DEF QueryInv, Staged
  <2>3. /\ DOMAIN q = Fields
        /\ q.pc = IF p.kind = "list" THEN "list" ELSE "document"
        /\ session \in q.granted
        /\ q.kind = p.kind /\ q.target = p.target /\ q.result = None
        /\ q.canvases = p.canvases
        /\ q.known = p.known /\ q.ready = p.ready
    BY <2>2 DEF Fields
  <2>4. QueryInv(p)
    OBVIOUS
  <2> HIDE DEF q, p
  <2>5. Staged(q)
    BY <2>1, <2>2, <2>3, <2>4 DEF QueryInv, Staged
  <2>6. Reading(q)
    BY <2>1, <2>2, <2>3, <2>4 DEF QueryInv, Reading, Staged
  <2>7. Answered(q)
    BY <2>3, DocumentAssumption DEF Answered
  <2>8. Remembered(q)
    BY <2>1, <2>2, <2>3, <2>4 DEF QueryInv, Remembered
  <2>9. QED
    BY <2>1, <2>5, <2>6, <2>7, <2>8 DEF QueryInv
<1>2. CASE \E code \in {"Unauthorized", "Unavailable", "Internal"} : AuthorizeFails(t, code)
  <2>1. PICK code \in {"Unauthorized", "Unavailable", "Internal"} : AuthorizeFails(t, code)
    BY <1>2
  <2>2. task' = [task EXCEPT ![t] = Done(p, code, None)] /\ p.pc = "authorize"
    BY <2>1 DEF AuthorizeFails, At, Fail
  <2>3. QueryInv(p) /\ (p.ready => p.granted = {})
    BY <2>2 DEF QueryInv, Remembered, Reading
  <2> HIDE DEF p
  <2>4. QueryInv(Done(p, code, None))
    BY <2>3, FailureKeeps
  <2>5. QED
    BY <2>2, <2>4
<1>3. QED
  BY <1>1, <1>2

(* The two readings of the document.                                        *)
LEMMA ResolveKeeps ==
  ASSUME CatalogInv, NEW t \in Tasks, QueryInv(task[t]),
         ResolveDocument(t) \/ ReadDocument(t)
  PROVE  \E q : QueryInv(q) /\ task' = [task EXCEPT ![t] = q]
<1> USE DEF Goto, Become
<1> DEFINE p == task[t]
           d == documents[p.target]
<1>1. CASE ResolveDocument(t) /\ d = None
  <2>1. task' = [task EXCEPT ![t] = Done(p, "NotFound", None)] /\ p.pc = "resolve"
    BY <1>1 DEF ResolveDocument, At, Fail
  <2>2. QueryInv(p) /\ (p.ready => p.granted = {}) /\ ~p.known
    BY <1>1, <2>1 DEF QueryInv, Remembered, Reading
  <2> HIDE DEF p
  <2>3. QueryInv(Done(p, "NotFound", None))
    BY <2>2, FailureKeeps
  <2>4. QED
    BY <2>1, <2>3
<1>2. CASE ResolveDocument(t) /\ d # None
  <2> DEFINE q == [p EXCEPT !.pc = "authorize", !.resolved = d]
  <2>1. task' = [task EXCEPT ![t] = q] /\ p.pc = "resolve"
    BY <1>2 DEF ResolveDocument, At
  <2>2. DOMAIN p = Fields /\ p.result = None /\ p.kind = "get"
    BY <2>1 DEF QueryInv, Staged
  <2>3. /\ DOMAIN q = Fields /\ q.pc = "authorize" /\ q.resolved = d
        /\ q.kind = p.kind /\ q.target = p.target /\ q.result = None
        /\ q.canvases = p.canvases /\ q.granted = p.granted
        /\ q.known = p.known /\ q.ready = p.ready
    BY <2>2 DEF Fields
  <2>4. QueryInv(p)
    OBVIOUS
  <2> HIDE DEF q, p
  <2>5. Staged(q)
    BY <2>1, <2>2, <2>3, <2>4 DEF QueryInv, Staged
  <2>6. Reading(q)
    BY <1>2, <2>1, <2>2, <2>3, <2>4 DEF QueryInv, Reading
  <2>7. Answered(q)
    BY <2>3, DocumentAssumption DEF Answered
  <2>8. Remembered(q)
    BY <2>1, <2>2, <2>3, <2>4 DEF QueryInv, Remembered
  <2>9. QED
    BY <2>1, <2>5, <2>6, <2>7, <2>8 DEF QueryInv
<1>3. CASE ReadDocument(t)
  <2> DEFINE q == [p EXCEPT !.pc = "asset", !.document = d]
  <2>1. p.pc = "document" /\ DOMAIN p = Fields /\ p.result = None /\ p.kind = "get"
    BY <1>3 DEF ReadDocument, At, QueryInv, Staged
  <2>2. d # None
    BY <2>1 DEF QueryInv, Reading
  <2>3. task' = [task EXCEPT ![t] = q]
    BY <1>3, <2>2 DEF ReadDocument
  <2>4. /\ DOMAIN q = Fields /\ q.pc = "asset" /\ q.document = d
        /\ q.kind = p.kind /\ q.target = p.target /\ q.result = None
        /\ q.canvases = p.canvases /\ q.granted = p.granted
        /\ q.known = p.known /\ q.ready = p.ready
    BY <2>1 DEF Fields
  <2>5. QueryInv(p)
    OBVIOUS
  <2> HIDE DEF q, p
  <2>6. Staged(q)
    BY <2>1, <2>4, <2>5 DEF QueryInv, Staged
  <2>7. Reading(q)
    BY <2>1, <2>2, <2>4, <2>5 DEF QueryInv, Reading
  <2>8. Answered(q)
    BY <2>4, DocumentAssumption DEF Answered
  <2>9. Remembered(q)
    BY <2>1, <2>4, <2>5 DEF QueryInv, Remembered
  <2>10. QED
    BY <2>3, <2>6, <2>7, <2>8, <2>9 DEF QueryInv
<1>4. QED
  BY <1>1, <1>2, <1>3

(* The fault marker does not matter to anything but what is remembered.     *)
LEMMA MarkKeeps ==
  ASSUME NEW p, QueryInv(p), NEW f, p.faulty => f, p.result = None
  PROVE  LET q == [p EXCEPT !.faulty = f]
         IN  /\ QueryInv(q) /\ q.faulty = f
             /\ q.pc = p.pc /\ q.kind = p.kind /\ q.target = p.target
             /\ q.document = p.document /\ q.asset = p.asset /\ q.result = None
             /\ q.canvases = p.canvases /\ q.granted = p.granted
             /\ q.known = p.known /\ q.ready = p.ready
<1> DEFINE q == [p EXCEPT !.faulty = f]
<1>1. DOMAIN p = Fields
  BY DEF QueryInv, Staged
<1>2. /\ DOMAIN q = Fields /\ q.faulty = f
      /\ q.pc = p.pc /\ q.kind = p.kind /\ q.target = p.target
      /\ q.resolved = p.resolved
      /\ q.document = p.document /\ q.asset = p.asset /\ q.result = None
      /\ q.canvases = p.canvases /\ q.granted = p.granted
      /\ q.known = p.known /\ q.ready = p.ready
  BY <1>1 DEF Fields
<1> HIDE DEF q
<1>3. Staged(q)
  BY <1>2 DEF QueryInv, Staged
<1>4. Reading(q)
  BY <1>2 DEF QueryInv, Reading
<1>5. Answered(q)
  BY <1>2, DocumentAssumption DEF Answered
<1>6. Remembered(q)
  BY <1>2, DocumentAssumption DEF QueryInv, Remembered
<1>7. QED
  BY <1>2, <1>3, <1>4, <1>5, <1>6 DEF QueryInv, q

(* A catalog that is unavailable.                                           *)
LEMMA PortFailureKeeps ==
  ASSUME NEW t \in Tasks, QueryInv(task[t]), PortFails(t)
  PROVE  \E q : QueryInv(q) /\ task' = [task EXCEPT ![t] = q]
<1> DEFINE p == task[t]
           q == [p EXCEPT !.faulty = TRUE]
<1>1. task' = [task EXCEPT ![t] = Done(q, "Unavailable", None)]
  BY DEF PortFails, Fail, Goto, Become
<1>2. QueryInv(p) /\ p.result = None
  BY DEF PortFails, QueryInv, Staged
<1> HIDE DEF p
<1>3. QueryInv(q) /\ q.faulty = TRUE
  BY <1>2, MarkKeeps
<1> HIDE DEF q
<1>4. QueryInv(Done(q, "Unavailable", None))
  BY <1>3, FailureKeeps
<1>5. QED
  BY <1>1, <1>4

(* d is a document of its number, as it was composed.                       *)
Sound(id, d) ==
  /\ d \in Documents /\ d.id = id
  /\ id \in DOMAIN composed /\ composed[id] \in Compositions
  /\ Numbered(id, composed[id])
  /\ d.pages \in Seq(DocumentPages)
  /\ Len(d.pages) \in Nat /\ Len(d.pages) > 0
  /\ \A i \in 1..Len(d.pages) :
       /\ d.pages[i] \in DocumentPages
       /\ d.pages[i].page = <<id, i>> /\ d.pages[i].canvas = <<id, i>>

(* What the catalog holds under a number.                                   *)
LEMMA StoredDocument ==
  ASSUME CatalogInv, NEW id \in DocumentIds, documents[id] # None
  PROVE  Sound(id, documents[id])
<1> DEFINE d == documents[id]
           ps == d.pages
<1>1. /\ d \in Documents /\ d.id = id /\ id \in DOMAIN composed
      /\ ps = composed[id].document.pages
  BY DEF CatalogInv, StoredInv
<1>2. Numbered(id, composed[id]) /\ composed[id] \in Compositions
  BY <1>1, ElementOfSeq, LenProperties DEF CatalogInv, ComposedInv
<1>3. ps \in Seq(DocumentPages) /\ ps # <<>>
  BY <1>1, <1>2 DEF Documents, Numbered
<1>4. \A i \in DOMAIN ps : ps[i].page = <<id, i>> /\ ps[i].canvas = <<id, i>>
  BY <1>1, <1>2 DEF Numbered
<1> HIDE DEF ps
<1>5. Len(ps) \in Nat /\ Len(ps) > 0 /\ DOMAIN ps = 1..Len(ps)
  BY <1>3, EmptySeq, LenProperties
<1>6. \A i \in 1..Len(ps) : ps[i] \in DocumentPages
  BY <1>3, ElementOfSeq
<1>7. QED
  BY <1>1, <1>2, <1>3, <1>4, <1>5, <1>6 DEF ps, Sound

(* Reading the asset.                                                       *)
LEMMA AssetKeeps ==
  ASSUME CatalogInv, NEW t \in Tasks, QueryInv(task[t]),
         NEW answer \in Assets \cup {None}, ReadAsset(t, answer)
  PROVE  \E q : QueryInv(q) /\ task' = [task EXCEPT ![t] = q]
<1> DEFINE p == task[t]
           wanted == p.document.asset
           true == IF wanted \in assets THEN wanted ELSE None
           f == p.faulty \/ answer # true
           q == [p EXCEPT !.faulty = f]
           r == [q EXCEPT !.pc = "page", !.asset = answer]
<1>1. QueryInv(p) /\ p.pc = "asset" /\ p.kind = "get" /\ p.result = None
  BY DEF ReadAsset, At, QueryInv, Staged
<1>2. /\ p.target \in DocumentIds /\ documents[p.target] # None
      /\ p.document = documents[p.target] /\ p.canvases = <<>>
      /\ documents[p.target].session \in p.granted
  BY <1>1 DEF QueryInv, Staged, Reading
<1>3. IF answer # wanted
      THEN task' = [task EXCEPT ![t] = Done(q, "Internal", None)]
      ELSE task' = [task EXCEPT ![t] = r]
  BY DEF ReadAsset, Fail, Goto, Become
<1>4. /\ QueryInv(q) /\ q.faulty = f
      /\ q.pc = p.pc /\ q.kind = p.kind /\ q.target = p.target
      /\ q.document = p.document /\ q.result = None
      /\ q.canvases = p.canvases /\ q.granted = p.granted
      /\ q.known = p.known /\ q.ready = p.ready
  <2> HIDE DEF p, f
  <2>1. p.faulty => f
    BY DEF f
  <2>2. QED
    BY <1>1, <2>1, MarkKeeps
<1>5. CASE answer # wanted
  <2>1. q.ready => q.faulty
    <3> SUFFICES ASSUME p.ready
                 PROVE  answer # true
      BY <1>4
    <3>1. Complete(p.target) /\ Numbered(p.target, composed[p.target])
      BY <1>1, <1>2, StoredDocument DEF QueryInv, Remembered, Sound
    <3>2. wanted \in assets
      BY <1>2, <3>1, ZenonT(60) DEF Complete, Numbered, ValidComposition
    <3>3. QED
      BY <1>5, <3>2
  <2> HIDE DEF q
  <2>2. QueryInv(Done(q, "Internal", None))
    BY <1>4, <2>1, FailureKeeps
  <2>3. QED
    BY <1>3, <1>5, <2>2
<1>6. CASE answer = wanted
  <2>1. DOMAIN q = Fields
    BY <1>4 DEF QueryInv, Staged
  <2> HIDE DEF q
  <2>2. /\ DOMAIN r = Fields /\ r.pc = "page" /\ r.asset = answer
        /\ r.kind = "get" /\ r.target = q.target /\ r.document = p.document
        /\ r.result = None /\ r.canvases = <<>> /\ r.granted = q.granted
        /\ r.known = q.known /\ r.ready = q.ready
    BY <1>1, <1>2, <1>4, <2>1 DEF Fields
  <2> HIDE DEF r, p
  <2>3. Staged(r)
    BY <1>1, <1>4, <2>2 DEF QueryInv, Staged
  <2>4. Len(r.canvases) < Len(r.document.pages)
    BY <1>2, <2>2, StoredDocument DEF Sound
  <2>5. Drawn(r.canvases, r.document)
    BY <2>2 DEF Drawn
  <2>6. Reading(r)
    BY <1>2, <1>4, <1>6, <2>2, <2>4, <2>5 DEF Reading
  <2>7. Answered(r)
    BY <2>2, DocumentAssumption DEF Answered
  <2>8. Remembered(r)
    BY <1>4, <2>2, DocumentAssumption DEF QueryInv, Remembered
  <2>9. QED
    BY <1>3, <1>6, <2>3, <2>6, <2>7, <2>8 DEF QueryInv
<1>7. QED
  BY <1>5, <1>6

(* Reading a canvas.                                                        *)
LEMMA CanvasKeeps ==
  ASSUME CatalogInv, NEW t \in Tasks, QueryInv(task[t]),
         NEW answer \in CanvasAnswers \cup {None}, ReadCanvas(t, answer)
  PROVE  \E q : QueryInv(q) /\ task' = [task EXCEPT ![t] = q]
<1> DEFINE p == task[t]
           d == p.document
           n == Len(p.canvases)
           page == d.pages[n + 1]
           f == p.faulty \/ answer # TrueCanvas(page)
           q == [p EXCEPT !.faulty = f]
           cs == Append(q.canvases, [page |-> page.page, canvas |-> answer])
           more == [q EXCEPT !.canvases = cs]
           view == ViewAnswer(d, more.asset, more.canvases)
<1>1. QueryInv(p) /\ p.pc = "page" /\ p.kind = "get" /\ p.result = None
  BY DEF ReadCanvas, At, QueryInv, Staged
<1>2. /\ p.target \in DocumentIds /\ documents[p.target] # None
      /\ d = documents[p.target]
      /\ d.session \in p.granted /\ p.asset = d.asset
      /\ n < Len(d.pages) /\ Drawn(p.canvases, d)
  BY <1>1 DEF QueryInv, Staged, Reading
<1>3. /\ d \in Documents /\ d.id = p.target /\ p.target \in DOMAIN composed
      /\ Numbered(p.target, composed[p.target])
      /\ composed[p.target] \in Compositions
      /\ Len(d.pages) \in Nat
      /\ \A i \in 1..Len(d.pages) :
           /\ d.pages[i] \in DocumentPages
           /\ d.pages[i].page = <<p.target, i>> /\ d.pages[i].canvas = <<p.target, i>>
  <2>1. Sound(p.target, documents[p.target])
    BY <1>2, StoredDocument
  <2>2. Sound(p.target, d)
    BY <1>2, <2>1
  <2> HIDE DEF d, p
  <2>3. QED
    BY <2>2 DEF Sound
<1>4. n \in Nat /\ n + 1 \in 1..Len(d.pages)
  <2>1. n \in Nat
    BY <1>2, LenProperties DEF Drawn
  <2> HIDE DEF n, d
  <2>2. QED
    BY <1>2, <1>3, <2>1, SMTT(30)
<1>5. /\ page \in DocumentPages
      /\ page.page = <<p.target, n + 1>> /\ page.canvas = <<p.target, n + 1>>
  BY <1>3, <1>4
<1>6. IF answer = None \/ ~ValidPageCanvas(d, page, answer)
      THEN task' = [task EXCEPT ![t] = Done(q, "Internal", None)]
      ELSE IF Len(more.canvases) < Len(d.pages)
           THEN task' = [task EXCEPT ![t] = more]
           ELSE task' = [task EXCEPT ![t] = Done(more, "Success", view)]
  BY DEF ReadCanvas, Fail, Goto, Become
<1>7. /\ QueryInv(q) /\ q.faulty = f
      /\ q.pc = p.pc /\ q.kind = p.kind /\ q.target = p.target
      /\ q.document = p.document /\ q.asset = p.asset /\ q.result = None
      /\ q.canvases = p.canvases /\ q.granted = p.granted
      /\ q.known = p.known /\ q.ready = p.ready
  <2> HIDE DEF p, f
  <2>1. p.faulty => f
    BY DEF f
  <2>2. QED
    BY <1>1, <2>1, MarkKeeps
<1>8. CASE answer = None \/ ~ValidPageCanvas(d, page, answer)
  <2>1. q.ready => q.faulty
    <3> SUFFICES ASSUME p.ready
                 PROVE  answer # TrueCanvas(page)
      BY <1>7
    <3> DEFINE c == composed[p.target]
               drawn == c.canvases[n + 1].canvas
    <3>1. /\ p.target \in published /\ d = c.document /\ ValidComposition(c)
      BY <1>1, <1>2, <1>3 DEF QueryInv, Remembered, Complete, Numbered
    <3>2. TrueCanvas(page) = drawn
      <4> HIDE DEF page, n
      <4>1. page.canvas[1] = p.target /\ page.canvas[2] = n + 1
        BY <1>5
      <4>2. QED
        BY <3>1, <4>1 DEF TrueCanvas
    <3>3. c.canvases \in Seq(PageCanvases) /\ n + 1 \in 1..Len(c.canvases)
      BY <1>3, <1>4, <3>1 DEF Compositions, ValidComposition
    <3>4. c.canvases[n + 1] \in PageCanvases /\ n + 1 \in DOMAIN c.canvases
      BY <3>3, ElementOfSeq, LenProperties
    <3>5. drawn # None
      BY <3>4, DocumentAssumption DEF PageCanvases
    <3>6. ValidPageCanvas(d, page, drawn)
      BY <3>1, <3>4 DEF ValidComposition, ValidPageCanvas
    <3>7. QED
      BY <1>8, <3>2, <3>5, <3>6
  <2> HIDE DEF q
  <2>2. QueryInv(Done(q, "Internal", None))
    BY <1>7, <2>1, FailureKeeps
  <2>3. QED
    BY <1>6, <1>8, <2>2
<1>9. CASE ~(answer = None \/ ~ValidPageCanvas(d, page, answer))
  <2> DEFINE entry == [page |-> page.page, canvas |-> answer]
  <2>1. answer \in Canvases
    <3>1. 1..(MaxU32 + 1) \subseteq Nat \ {0}
      BY DocumentAssumption
    <3>2. QED
      BY <1>9, <3>1 DEF CanvasAnswers, Canvases, PageIds
  <2>2. answer = CanvasFor(d.id, n + 1, d.session, page.geometry)
    BY <1>3, <1>5, <1>9, <2>1 DEF ValidPageCanvas, Canvases, CanvasFor
  <2>3. entry \in PageCanvases
    BY <1>5, <2>1 DEF PageCanvases, DocumentPages
  <2>4. cs = Append(p.canvases, entry)
    BY <1>7
  <2>5. /\ cs \in Seq(PageCanvases) /\ Len(cs) = n + 1
        /\ \A i \in 1..n : cs[i] = p.canvases[i]
        /\ cs[n + 1] = entry
    <3> HIDE DEF entry, cs
    <3>1. p.canvases \in Seq(PageCanvases)
      BY <1>2 DEF Drawn
    <3> DEFINE old == p.canvases
    <3>2. old \in Seq(PageCanvases) /\ cs = Append(old, entry)
      BY <2>4, <3>1
    <3> HIDE DEF old
    <3>3. /\ Append(old, entry) \in Seq(PageCanvases)
          /\ Len(Append(old, entry)) = Len(old) + 1
          /\ \A i \in 1..Len(old) : Append(old, entry)[i] = old[i]
          /\ Append(old, entry)[Len(old) + 1] = entry
      BY <2>3, <3>2, AppendProperties
    <3>4. QED
      BY <3>2, <3>3 DEF old
  <2> HIDE DEF cs
  <2>6. Drawn(cs, d)
    <3>1. ASSUME NEW i \in 1..(n + 1)
          PROVE  /\ cs[i].page = d.pages[i].page
                 /\ cs[i].canvas = CanvasFor(d.id, i, d.session, d.pages[i].geometry)
      <4>1. CASE i = n + 1
        <5>1. cs[n + 1] = entry
          BY <2>5
        <5>2. entry.page = page.page /\ entry.canvas = answer
          OBVIOUS
        <5> HIDE DEF entry
        <5>3. QED
          BY <2>2, <4>1, <5>1, <5>2
      <4>2. CASE i # n + 1
        <5>1. i \in 1..n
          BY <1>4, <4>2
        <5>2. QED
          BY <1>2, <2>5, <5>1 DEF Drawn
      <4>3. QED
        BY <4>1, <4>2
    <3>2. QED
      BY <2>5, <3>1 DEF Drawn
  <2>7. DOMAIN q = Fields
    BY <1>7 DEF QueryInv, Staged
  <2> HIDE DEF q
  <2>8. /\ DOMAIN more = Fields /\ more.canvases = cs
        /\ more.pc = "page" /\ more.kind = "get" /\ more.target = p.target
        /\ more.document = d /\ more.asset = d.asset /\ more.result = None
        /\ more.granted = p.granted /\ more.known = p.known
        /\ more.ready = p.ready /\ more.faulty = q.faulty
    BY <1>1, <1>2, <1>7, <2>7 DEF Fields
  <2>9. QueryInv(q) /\ q.known = p.known /\ q.ready = p.ready /\ q.target = p.target
    BY <1>7
  <2> HIDE DEF more
  <2>10. CASE Len(cs) < Len(d.pages)
    <3> HIDE DEF d, p
    <3>1. Staged(more)
      BY <1>2, <2>8 DEF Staged
    <3>2. Reading(more)
      BY <1>2, <2>6, <2>8, <2>10 DEF Reading
    <3>3. Answered(more)
      BY <2>8, DocumentAssumption DEF Answered
    <3>4. Remembered(more)
      BY <2>8, <2>9, DocumentAssumption DEF QueryInv, Remembered
    <3>5. QED
      BY <1>6, <1>9, <2>8, <2>10, <3>1, <3>2, <3>3, <3>4 DEF QueryInv
  <2>11. CASE ~(Len(cs) < Len(d.pages))
    <3> DEFINE e == Done(more, "Success", view)
    <3>1. task' = [task EXCEPT ![t] = e]
      BY <1>6, <1>9, <2>8, <2>11
    <3>2. Len(cs) = Len(d.pages)
      <4> HIDE DEF n, d
      <4>1. QED
        BY <1>3, <1>4, <2>5, <2>11
    <3>3. view = [document |-> d, asset |-> d.asset, canvases |-> cs]
      BY <2>8 DEF ViewAnswer
    <3> HIDE DEF view
    <3>4. /\ DOMAIN e = Fields /\ e.pc = "done" /\ e.result = "Success"
          /\ e.answer = view /\ e.kind = "get" /\ e.target = p.target
          /\ e.granted = p.granted /\ e.known = p.known /\ e.ready = p.ready
      BY <2>8, DoneFields
    <3> HIDE DEF d, p, e
    <3>5. Staged(e)
      BY <1>2, <3>4 DEF Staged
    <3>6. Reading(e)
      BY <3>4 DEF Reading
    <3>7. Answered(e)
      <4>1. e.answer.document = d /\ e.answer.asset = d.asset /\ e.answer.canvases = cs
        BY <3>3, <3>4
      <4>2. QED
        BY <1>2, <2>6, <3>2, <3>4, <4>1 DEF Answered
    <3>8. Remembered(e)
      BY <2>9, <3>4 DEF QueryInv, Remembered
    <3>9. QED
      BY <3>1, <3>5, <3>6, <3>7, <3>8 DEF QueryInv
  <2>12. QED
    BY <2>10, <2>11
<1>10. QED
  BY <1>8, <1>9

---------------------------------------------------------------------------
(* Lists.                                                                   *)

(* The later of two lists of a session begins with the earlier one.         *)
Continues == \A s \in Sessions : IsPrefix(shown[s], shown'[s])

(* A sequence begins with what it begins with.                              *)
LEMMA PrefixByElements ==
  ASSUME NEW S, NEW u \in Seq(S), NEW v \in Seq(S), Len(u) <= Len(v),
         \A i \in 1..Len(u) : u[i] = v[i]
  PROVE  IsPrefix(u, v)
<1> DEFINE n == Len(u)
           l == SubSeq(u, 1, n)
           r == SubSeq(v, 1, n)
<1>1. n \in Nat /\ Len(v) \in Nat /\ n <= Len(v)
  BY LenProperties
<1>2. /\ \A i \in 1..n : u[i] \in S
      /\ \A i \in 1..n : v[i] \in S
  <2>1. \A i \in 1..Len(v) : v[i] \in S
    BY ElementOfSeq
  <2>2. \A i \in 1..n : u[i] \in S
    BY ElementOfSeq
  <2> HIDE DEF n
  <2>3. QED
    BY <1>1, <2>1, <2>2
<1> HIDE DEF n
<1>3. CASE n = 0
  <2>1. l = <<>> /\ r = <<>>
    BY <1>3
  <2>2. QED
    BY <1>1, <2>1 DEF IsPrefix, n
<1>4. CASE n # 0
  <2>1. n \in Int /\ 1 <= n
    BY <1>1, <1>4
  <2>2. l \in Seq(S) /\ Len(l) = n /\ \A i \in 1..n : l[i] = u[i]
    BY <1>2, <2>1, SubSeqProperties
  <2>3. r \in Seq(S) /\ Len(r) = n /\ \A i \in 1..n : r[i] = v[i]
    BY <1>2, <2>1, SubSeqProperties
  <2> HIDE DEF l, r
  <2>4. \A i \in 1..n : l[i] = r[i]
    BY <2>2, <2>3 DEF n
  <2>5. l = r
    BY <2>2, <2>3, <2>4, SeqEqual
  <2>6. QED
    BY <1>1, <2>5 DEF IsPrefix, l, r, n
<1>5. QED
  BY <1>3, <1>4

(* Only document.list shows documents.                                      *)
LEMMA OnlyListsShow ==
  [Next]_vars => UNCHANGED shown \/ \E t \in Tasks : ListDocuments(t)
<1> USE DEF Goto, Fail
<1>1. \A s, a, pages : ComposeDocument(s, a, pages) => UNCHANGED shown
  BY DEF ComposeDocument
<1>2. \A d : InsertDocument(d) => UNCHANGED shown
  BY DEF InsertDocument
<1>3. \A a : RegisterAsset(a) => UNCHANGED shown
  BY DEF RegisterAsset
<1>4. \A i : RegisterCanvases(i) => UNCHANGED shown
  BY DEF RegisterCanvases
<1>5. ASSUME NEW t \in Tasks, TaskStep(t)
      PROVE  UNCHANGED shown \/ ListDocuments(t)
  <2>1. \A code : Refuse(t, code) \/ AuthorizeFails(t, code) => UNCHANGED shown
    BY DEF Refuse, AuthorizeFails
  <2>2. \A s : ExecuteList(t, s) \/ ExecuteGet(t, s) => UNCHANGED shown
    BY DEF ExecuteList, ExecuteGet
  <2>3. Drop(t) \/ Authorize(t) \/ PortFails(t) => UNCHANGED shown
    BY DEF Drop, Authorize, PortFails
  <2>4. ResolveDocument(t) \/ ReadDocument(t) => UNCHANGED shown
    BY DEF ResolveDocument, ReadDocument
  <2>5. \A answer : ReadAsset(t, answer) \/ ReadCanvas(t, answer) => UNCHANGED shown
    BY DEF ReadAsset, ReadCanvas
  <2>6. QED
    BY <1>5, <2>1, <2>2, <2>3, <2>4, <2>5 DEF TaskStep
<1>6. UNCHANGED vars => UNCHANGED shown
  BY DEF vars
<1>7. QED
  BY <1>1, <1>2, <1>3, <1>4, <1>5, <1>6 DEF Next, TaskStep

(* What was shown stays a beginning of the order.                           *)
LEMMA ShownStays ==
  ASSUME CatalogInv, CatalogInv', Grows, ShownInv, UNCHANGED shown
  PROVE  ShownInv' /\ Continues
<1>1. ASSUME NEW s \in Sessions
      PROVE  /\ Len(shown[s]) <= Len(sessionOrder'[s])
             /\ \A i \in 1..Len(shown[s]) :
                  shown[s][i] = Summary(documents'[sessionOrder'[s][i]])
  <2> DEFINE n == Len(shown[s])
             o == Len(sessionOrder[s])
             p == Len(sessionOrder'[s])
  <2>1. n \in Nat /\ o \in Nat /\ p \in Nat
    BY LenProperties DEF ShownInv, CatalogInv, OrderInv
  <2>2. n <= o /\ o <= p
    BY DEF ShownInv, Grows
  <2> HIDE DEF n, o, p
  <2>3. n <= p /\ \A i \in 1..n : i \in 1..o
    BY <2>1, <2>2
  <2>4. ASSUME NEW i \in 1..n
        PROVE  shown[s][i] = Summary(documents'[sessionOrder'[s][i]])
    <3> DEFINE id == sessionOrder[s][i]
    <3>1. i \in 1..o
      BY <2>3
    <3>2. sessionOrder'[s][i] = id
      BY <3>1 DEF Grows, o
    <3>3. id \in DocumentIds /\ documents[id] # None
      BY <3>1, ElementOfSeq DEF CatalogInv, OrderInv, o
    <3>4. documents'[id] = documents[id]
      BY <3>3 DEF Grows
    <3>5. shown[s][i] = Summary(documents[id])
      BY DEF ShownInv, n
    <3>6. QED
      BY <3>2, <3>4, <3>5
  <2>5. QED
    BY <2>3, <2>4 DEF n, p
<1>2. ShownInv'
  BY <1>1 DEF ShownInv, Summary
<1>3. ASSUME NEW s \in Sessions
      PROVE  IsPrefix(shown[s], shown[s])
  <2>1. shown[s] \in Seq(Summaries) /\ Len(shown[s]) \in Nat
    BY LenProperties DEF ShownInv
  <2>2. QED
    BY <2>1, PrefixByElements
<1>4. QED
  BY <1>2, <1>3 DEF Continues

(* Answering a list.                                                        *)
LEMMA ListKeeps ==
  ASSUME CatalogInv, ShownInv, NEW t \in Tasks, QueryInv(task[t]), ListDocuments(t)
  PROVE  /\ \E q : QueryInv(q) /\ task' = [task EXCEPT ![t] = q]
         /\ ShownInv' /\ Continues
<1> DEFINE p == task[t]
           s == p.target
           ids == sessionOrder[s]
           n == Len(ids)
           summaries == [i \in DOMAIN ids |-> Summary(documents[ids[i]])]
           counted == \A i \in DOMAIN ids : /\ documents[ids[i]] # None
                                            /\ Len(documents[ids[i]].pages) <= MaxU32
<1>1. QueryInv(p) /\ p.pc = "list" /\ p.kind = "list" /\ s \in Sessions
  BY DEF ListDocuments, At, QueryInv, Staged
<1>2. s \in p.granted /\ ~p.known /\ ~p.ready /\ DOMAIN p = Fields
  BY <1>1 DEF QueryInv, Reading, Remembered, Staged
<1>3. UNCHANGED allCatalogs
  BY DEF ListDocuments, Become, Fail, Goto, allCatalogs
<1>4. CatalogInv' /\ Grows
  BY <1>3, CatalogsStay
<1>5. CASE counted
  <2>1. /\ task' = [task EXCEPT ![t] = Done(p, "Success", ListAnswer(summaries))]
        /\ shown' = [shown EXCEPT ![s] = summaries]
    BY <1>5 DEF ListDocuments, Become
  <2>2. /\ ids \in Seq(DocumentIds) /\ n \in Nat /\ DOMAIN ids = 1..n
        /\ \A i \in 1..n : ids[i] \in DocumentIds
    BY <1>1, LenProperties, ElementOfSeq DEF CatalogInv, OrderInv
  <2>3. \A i \in 1..n : /\ documents[ids[i]] # None
                        /\ documents[ids[i]].session = s
                        /\ documents[ids[i]].id = ids[i]
                        /\ documents[ids[i]] \in Documents
    BY <1>1, <2>2 DEF CatalogInv, OrderInv, StoredInv
  <2>4. \A i \in 1..n : Len(documents[ids[i]].pages) \in Nat
    BY <2>3, LenProperties DEF Documents
  <2>5. /\ summaries \in [1..n -> Summaries]
        /\ \A i \in 1..n : summaries[i] = Summary(documents[ids[i]])
        /\ DOMAIN summaries = 1..n
    BY <2>2, <2>3, <2>4 DEF Summary, Summaries, Documents
  <2>6. summaries \in Seq(Summaries) /\ Len(summaries) = n
    <3> HIDE DEF n, summaries
    <3>1. summaries \in Seq(Summaries)
      BY <2>2, <2>5, IsASeq
    <3>2. QED
      BY <2>2, <2>5, <3>1, LenProperties
  <2>7. \A i \in 1..n : summaries[i].id = ids[i]
    BY <2>3, <2>5 DEF Summary
  <2> HIDE DEF summaries
  <2>8. \E q : QueryInv(q) /\ task' = [task EXCEPT ![t] = q]
    <3> DEFINE e == Done(p, "Success", ListAnswer(summaries))
    <3>1. /\ DOMAIN e = Fields /\ e.pc = "done" /\ e.result = "Success"
          /\ e.answer = ListAnswer(summaries) /\ e.kind = "list" /\ e.target = s
          /\ e.granted = p.granted /\ ~e.known /\ ~e.ready
      BY <1>1, <1>2, DoneFields
    <3>2. e.answer.documents = summaries
      BY <3>1 DEF ListAnswer
    <3> HIDE DEF e
    <3>3. Staged(e) /\ Reading(e) /\ Remembered(e)
      BY <1>1, <3>1 DEF Staged, Reading, Remembered
    <3>4. Answered(e)
      BY <1>2, <2>2, <2>3, <2>5, <2>7, <3>1, <3>2, SMTT(30) DEF Answered
    <3>5. QED
      BY <2>1, <3>3, <3>4 DEF QueryInv, e
  <2>9. /\ shown'[s] = summaries /\ shown' \in [Sessions -> Seq(Summaries)]
        /\ \A o \in Sessions : o # s => shown'[o] = shown[o]
    BY <1>1, <2>1, <2>6 DEF ShownInv
  <2>10. ShownInv'
    <3>1. ASSUME NEW o \in Sessions
          PROVE  /\ Len(shown'[o]) <= Len(sessionOrder[o])
                 /\ \A i \in 1..Len(shown'[o]) :
                      shown'[o][i] = Summary(documents[sessionOrder[o][i]])
      <4>1. CASE o = s
        BY <2>2, <2>5, <2>6, <2>9, <4>1
      <4>2. CASE o # s
        BY <2>9, <4>2 DEF ShownInv
      <4>3. QED
        BY <4>1, <4>2
    <3>2. QED
      BY <1>3, <2>9, <3>1 DEF ShownInv, allCatalogs, Summary
  <2>11. ASSUME NEW o \in Sessions
         PROVE  IsPrefix(shown[o], shown'[o])
    <3>1. shown[o] \in Seq(Summaries) /\ Len(shown[o]) \in Nat
      BY LenProperties DEF ShownInv
    <3>2. CASE o = s
      <4> DEFINE u == shown[o]
      <4>1. Len(u) <= n
        BY <3>2 DEF ShownInv
      <4>2. \A i \in 1..Len(u) : i \in 1..n
        BY <2>2, <3>1, <4>1
      <4>3. \A i \in 1..Len(u) : u[i] = summaries[i]
        BY <2>5, <3>2, <4>2 DEF ShownInv
      <4> HIDE DEF u, n
      <4>4. IsPrefix(u, summaries)
        <5>1. u \in Seq(Summaries)
          BY <3>1 DEF u
        <5>2. QED
          BY <2>6, <4>1, <4>3, <5>1, PrefixByElements
      <4>5. QED
        BY <2>9, <3>2, <4>4 DEF u
    <3>3. CASE o # s
      <4>1. IsPrefix(shown[o], shown[o])
        BY <3>1, PrefixByElements
      <4>2. QED
        BY <2>9, <3>3, <4>1
    <3>4. QED
      BY <3>2, <3>3
  <2>12. QED
    BY <2>8, <2>10, <2>11 DEF Continues
<1>6. CASE ~counted
  <2>1. task' = [task EXCEPT ![t] = Done(p, "Unavailable", None)] /\ UNCHANGED shown
    BY <1>6 DEF ListDocuments, Fail, Goto, Become
  <2> HIDE DEF p
  <2>2. QueryInv(Done(p, "Unavailable", None))
    BY <1>1, <1>2, FailureKeeps
  <2>3. QED
    BY <1>4, <2>1, <2>2, ShownStays
<1>7. QED
  BY <1>5, <1>6

---------------------------------------------------------------------------
(* The invariant.                                                           *)

(* A step of a query leaves it with what it relies on.                      *)
LEMMA TaskStepKeeps ==
  ASSUME CatalogInv, ShownInv, NEW t \in Tasks, QueryInv(task[t]), TaskStep(t)
  PROVE  \E q : QueryInv(q) /\ task' = [task EXCEPT ![t] = q]
<1>1. CASE \/ \E code \in {"UnsupportedQuery", "InvalidQuery"} : Refuse(t, code)
           \/ \E s \in Sessions : ExecuteList(t, s)
           \/ \E id \in DocumentIds : ExecuteGet(t, id)
           \/ Drop(t)
  BY <1>1, BeginKeeps
<1>2. CASE \/ Authorize(t)
           \/ \E code \in {"Unauthorized", "Unavailable", "Internal"} :
                AuthorizeFails(t, code)
  BY <1>2, AuthorizeKeeps
<1>3. CASE ListDocuments(t)
  BY <1>3, ListKeeps
<1>4. CASE ResolveDocument(t) \/ ReadDocument(t)
  BY <1>4, ResolveKeeps
<1>5. CASE \E answer \in Assets \cup {None} : ReadAsset(t, answer)
  BY <1>5, AssetKeeps
<1>6. CASE \E answer \in CanvasAnswers \cup {None} : ReadCanvas(t, answer)
  BY <1>6, CanvasKeeps
<1>7. CASE PortFails(t)
  BY <1>7, PortFailureKeeps
<1>8. QED
  BY <1>1, <1>2, <1>3, <1>4, <1>5, <1>6, <1>7 DEF TaskStep

(* Steps that do not touch the queries, and those that do.                  *)
LEMMA StepOfOneQuery ==
  [Next]_vars => UNCHANGED task \/ \E t \in Tasks : TaskStep(t)
<1>1. \A s, a, pages : ComposeDocument(s, a, pages) => UNCHANGED task
  BY DEF ComposeDocument
<1>2. \A d : InsertDocument(d) => UNCHANGED task
  BY DEF InsertDocument
<1>3. \A a : RegisterAsset(a) => UNCHANGED task
  BY DEF RegisterAsset
<1>4. \A i : RegisterCanvases(i) => UNCHANGED task
  BY DEF RegisterCanvases
<1>5. UNCHANGED vars => UNCHANGED task
  BY DEF vars
<1>6. QED
  BY <1>1, <1>2, <1>3, <1>4, <1>5 DEF Next, TaskStep

(* What every query relies on is kept by every step.                        *)
LEMMA TaskInvStep ==
  CatalogInv /\ ShownInv /\ TaskInv /\ [Next]_vars => TaskInv'
<1> SUFFICES ASSUME CatalogInv, ShownInv, TaskInv, [Next]_vars
             PROVE  TaskInv'
  OBVIOUS
<1>1. CatalogInv' /\ Grows
  BY CatalogStep
<1>2. \A q : QueryInv(q) => QueryInv(q)'
  BY <1>1, QueryStays
<1>3. ASSUME NEW o \in Tasks, NEW q, QueryInv(q), task'[o] = q
      PROVE  QueryInv(task[o])'
  <2>1. QueryInv(q)'
    BY <1>2, <1>3
  <2>2. QED
    BY <1>3, <2>1, SMTT(30)
    DEF QueryInv, Staged, Reading, Answered, Remembered, Drawn, Complete, CanvasFor
<1>4. CASE UNCHANGED task
  BY <1>3, <1>4 DEF TaskInv
<1>5. ASSUME NEW t \in Tasks, TaskStep(t)
      PROVE  TaskInv'
  <2>1. PICK q : QueryInv(q) /\ task' = [task EXCEPT ![t] = q]
    BY <1>5, TaskStepKeeps DEF TaskInv
  <2>2. DOMAIN task' = Tasks /\ \A o \in Tasks : task'[o] = IF o = t THEN q ELSE task[o]
    BY <2>1 DEF TaskInv
  <2>3. ASSUME NEW o \in Tasks
        PROVE  QueryInv(task[o])'
    <3>1. CASE o = t
      BY <1>3, <2>1, <2>2, <3>1
    <3>2. CASE o # t
      <4>1. QueryInv(task[o]) /\ task'[o] = task[o]
        BY <2>2, <3>2 DEF TaskInv
      <4>2. QED
        BY <1>3, <4>1
    <3>3. QED
      BY <3>1, <3>2
  <2>4. QED
    BY <2>2, <2>3 DEF TaskInv
<1>6. QED
  BY <1>4, <1>5, StepOfOneQuery

(* Lists continue one another.                                              *)
LEMMA ShownStep ==
  CatalogInv /\ ShownInv /\ TaskInv /\ [Next]_vars => ShownInv' /\ Continues
<1> SUFFICES ASSUME CatalogInv, ShownInv, TaskInv, [Next]_vars
             PROVE  ShownInv' /\ Continues
  OBVIOUS
<1>1. CatalogInv' /\ Grows
  BY CatalogStep
<1>2. CASE UNCHANGED shown
  BY <1>1, <1>2, ShownStays
<1>3. CASE \E t \in Tasks : ListDocuments(t)
  BY <1>3, ListKeeps DEF TaskInv
<1>4. QED
  BY <1>2, <1>3, OnlyListsShow

(* In the beginning there is nothing.                                       *)
LEMMA InvInit == Init => Inv
<1> SUFFICES ASSUME Init PROVE Inv
  OBVIOUS
<1>1. ComposedInv
  BY DocumentAssumption DEF Init, ComposedInv
<1>2. StoredInv
  BY DEF Init, StoredInv
<1>3. OrderInv
  BY DEF Init, OrderInv
<1>4. ShownInv
  BY DEF Init, ShownInv
<1>5. Staged(Idle) /\ Reading(Idle) /\ Answered(Idle) /\ Remembered(Idle)
  BY IdleFields, DocumentAssumption DEF Staged, Reading, Answered, Remembered
<1>6. DOMAIN task = Tasks /\ \A t \in Tasks : task[t] = Idle
  BY DEF Init
<1>7. TaskInv
  BY <1>5, <1>6 DEF TaskInv, QueryInv
<1>8. QED
  BY <1>1, <1>2, <1>3, <1>4, <1>7 DEF Inv, CatalogInv

(* The catalogs, the lists and the queries agree, always.                   *)
LEMMA InvAlways == Spec => []Inv
<1>1. Inv /\ [Next]_vars => Inv'
  BY CatalogStep, ShownStep, TaskInvStep DEF Inv
<1>2. QED
  BY <1>1, InvInit, PTL DEF Spec

---------------------------------------------------------------------------
(* Theorems.                                                                *)

(* No query is answered with a document of a session that the authorizer    *)
(* did not allow in it, although document.get reads the document again      *)
(* after it was authorized.                                                 *)
THEOREM AnswersAreAuthorized == Spec => []AnswersAuthorized
<1>1. ASSUME Inv PROVE AnswersAuthorized
  <2> SUFFICES ASSUME NEW t \in Tasks
               PROVE  /\ Succeeded(t, "get") =>
                           task[t].answer.document.session \in task[t].granted
                      /\ Succeeded(t, "list") =>
                           \A i \in DOMAIN task[t].answer.documents :
                             LET d == documents[task[t].answer.documents[i].id]
                             IN  d # None => d.session \in task[t].granted
    BY DEF AnswersAuthorized
  <2>1. Answered(task[t])
    BY <1>1 DEF Inv, TaskInv, QueryInv
  <2>2. QED
    BY <2>1 DEF Answered, Succeeded
<1>2. QED
  BY <1>1, InvAlways, PTL

(* A view is never partial: it has its asset and the canvas of every page.  *)
THEOREM ViewsAreWhole == Spec => []ViewIsWhole
<1>1. ASSUME Inv PROVE ViewIsWhole
  <2>1. ASSUME NEW t \in Tasks, Succeeded(t, "get")
        PROVE  LET d == task[t].answer.document
                   canvases == task[t].answer.canvases
               IN  /\ d.id = task[t].target
                   /\ task[t].answer.asset = d.asset
                   /\ Len(canvases) = Len(d.pages)
                   /\ \A i \in DOMAIN canvases :
                        /\ canvases[i].page = d.pages[i].page
                        /\ canvases[i].canvas =
                             CanvasFor(d.id, i, d.session, d.pages[i].geometry)
    <3>1. Answered(task[t]) /\ Staged(task[t])
      BY <1>1 DEF Inv, TaskInv, QueryInv
    <3> DEFINE d == task[t].answer.document
               canvases == task[t].answer.canvases
    <3>2. /\ task[t].target \in DocumentIds
          /\ documents[task[t].target] # None /\ d = documents[task[t].target]
          /\ task[t].answer.asset = d.asset /\ Len(canvases) = Len(d.pages)
          /\ Drawn(canvases, d)
      BY <2>1, <3>1 DEF Answered, Staged, Succeeded
    <3>3. d.id = task[t].target
      BY <1>1, <3>2, StoredDocument DEF Inv, Sound
    <3>4. DOMAIN canvases = 1..Len(canvases)
      BY <3>2, LenProperties DEF Drawn
    <3>5. QED
      BY <3>2, <3>3, <3>4 DEF Drawn
  <2>2. QED
    BY <2>1 DEF ViewIsWhole
<1>2. QED
  BY <1>1, InvAlways, PTL

(* A view agrees with every list that has shown its document.               *)
THEOREM ViewsMatchLists == Spec => []ViewMatchesSummary
<1>1. ASSUME Inv PROVE ViewMatchesSummary
  <2>1. ASSUME NEW t \in Tasks, NEW s \in Sessions, Succeeded(t, "get"),
               NEW i \in DOMAIN shown[s], shown[s][i].id = task[t].target
        PROVE  /\ shown[s][i] = Summary(task[t].answer.document)
               /\ shown[s][i].pages = Len(task[t].answer.canvases)
               /\ s = task[t].answer.document.session
    <3>1. Answered(task[t]) /\ Staged(task[t])
      BY <1>1 DEF Inv, TaskInv, QueryInv
    <3> DEFINE view == task[t].answer
               id == sessionOrder[s][i]
    <3>2. /\ view.document = documents[task[t].target]
          /\ Len(view.canvases) = Len(view.document.pages)
      BY <2>1, <3>1 DEF Answered, Succeeded
    <3>3. i \in 1..Len(shown[s]) /\ Len(shown[s]) \in Nat
      BY <1>1, LenProperties DEF Inv, ShownInv
    <3>4. /\ sessionOrder[s] \in Seq(DocumentIds) /\ Len(sessionOrder[s]) \in Nat
          /\ Len(shown[s]) <= Len(sessionOrder[s])
      BY <1>1, LenProperties DEF Inv, CatalogInv, OrderInv, ShownInv
    <3>5. i \in 1..Len(sessionOrder[s])
      BY <3>3, <3>4
    <3>6. id \in DocumentIds /\ documents[id] # None /\ documents[id].session = s
      BY <1>1, <3>4, <3>5, ElementOfSeq DEF Inv, CatalogInv, OrderInv
    <3>7. documents[id].id = id
      BY <1>1, <3>6 DEF Inv, CatalogInv, StoredInv
    <3>8. shown[s][i] = Summary(documents[id])
      BY <1>1, <3>3 DEF Inv, ShownInv
    <3> HIDE DEF view, id
    <3>9. task[t].target = id
      BY <2>1, <3>7, <3>8 DEF Summary
    <3>10. QED
      BY <3>2, <3>6, <3>8, <3>9 DEF Summary, view
  <2>2. QED
    BY <2>1 DEF ViewMatchesSummary
<1>2. QED
  BY <1>1, InvAlways, PTL

(* Of two lists of a session the later one continues the earlier.           *)
THEOREM ListsAreStable == Spec => ListsOnlyGrow
<1>1. Inv /\ [Next]_vars => [\A s \in Sessions : IsPrefix(shown[s], shown'[s])]_vars
  BY ShownStep DEF Inv, Continues
<1>2. QED
  BY <1>1, InvAlways, PTL DEF Spec, ListsOnlyGrow

(* A document that was listed is found.                                     *)
THEOREM ListedDocumentsAreFound == Spec => []ListedIsFound
<1>1. Inv => ListedIsFound
  BY DEF Inv, TaskInv, QueryInv, Remembered, ListedIsFound
<1>2. QED
  BY <1>1, InvAlways, PTL

(* The read service accepts what the composer makes.                        *)
THEOREM CompositionsAreReadable == Spec => []ComposedIsReadable
<1>1. Inv => ComposedIsReadable
  BY DEF Inv, TaskInv, QueryInv, Remembered, ComposedIsReadable
<1>2. QED
  BY <1>1, InvAlways, PTL

(* The two maps of the catalog agree.                                       *)
THEOREM CatalogIsConsistent == Spec => []OrderMatchesDocuments
<1>1. ASSUME Inv PROVE OrderMatchesDocuments
  <2>1. ASSUME NEW s \in Sessions, NEW id \in DocumentIds
        PROVE  Cardinality({i \in DOMAIN sessionOrder[s] : sessionOrder[s][i] = id})
                 = IF documents[id] # None /\ documents[id].session = s THEN 1 ELSE 0
    <3> DEFINE I == {i \in DOMAIN sessionOrder[s] : sessionOrder[s][i] = id}
    <3>1. DOMAIN sessionOrder[s] = 1..Len(sessionOrder[s])
      BY <1>1, LenProperties DEF Inv, CatalogInv, OrderInv
    <3>2. CASE documents[id] # None /\ documents[id].session = s
      <4>1. PICK i \in 1..Len(sessionOrder[s]) : sessionOrder[s][i] = id
        BY <1>1, <3>2 DEF Inv, CatalogInv, OrderInv
      <4>2. I = {i}
        BY <1>1, <3>1, <4>1 DEF Inv, CatalogInv, OrderInv
      <4>3. QED
        BY <3>2, <4>2, FS_Singleton
    <3>3. CASE ~(documents[id] # None /\ documents[id].session = s)
      <4>1. I = {}
        BY <1>1, <3>1, <3>3 DEF Inv, CatalogInv, OrderInv
      <4>2. QED
        BY <3>3, <4>1, FS_EmptySet
    <3>4. QED
      BY <3>2, <3>3
  <2>2. QED
    BY <2>1 DEF OrderMatchesDocuments
<1>2. QED
  BY <1>1, InvAlways, PTL
=============================================================================
