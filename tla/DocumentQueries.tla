--------------------------- MODULE DocumentQueries ---------------------------
(***************************************************************************)
(* Documents from their composition to the answers of document.list and    *)
(* document.get: the composer and the memory catalog of                    *)
(* crates/orbitrelay-document-runtime, its read service and query          *)
(* handlers, and the executor of crates/orbitrelay-query.  Every await of  *)
(* a query is a step, and the application composes and registers between   *)
(* them.  The authorizer and the asset and canvas catalogs are ports: they *)
(* may refuse, fail, or answer with something else than what was asked     *)
(* for.  Titles, styles and the layers of a canvas are left out:           *)
(* CanvasDescriptor::new refuses a default layer outside the layers, so    *)
(* the later checks of it cannot fail.                                     *)
(***************************************************************************)
EXTENDS Integers, Sequences, FiniteSets, SequencesExt

CONSTANTS
  Sessions,
  Assets,
  Geometries,    (* sizes of pages and canvases                            *)
  PageLists,     (* the pages a document-format adapter may supply         *)
  Tasks,         (* callers of the query executor                          *)
  MaxDocuments,  (* bound on the documents composed                        *)
  MaxU32,        (* the largest page index                                 *)
  None           (* an Option that is None                                 *)

DocumentIds == 1..MaxDocuments

(* Pages and canvases get fresh identities when a document is composed,     *)
(* here the number of the document and of the page.                         *)
PageIds == DocumentIds \X (Nat \ {0})
DocumentPages ==
  [page : PageIds, index : Nat, geometry : Geometries, canvas : PageIds]
Documents ==
  [id : DocumentIds, session : Sessions, asset : Assets, pages : Seq(DocumentPages)]
Canvases == [id : PageIds, session : Sessions, space : Geometries]

ASSUME DocumentAssumption ==
  /\ MaxDocuments \in Nat \ {0}
  /\ MaxU32 \in Nat
  /\ None \notin Documents /\ None \notin Canvases
  /\ None \notin {"list", "get", "Success", "NotFound"}
  /\ PageLists \subseteq Seq([index : Nat, geometry : Geometries])

VARIABLES
  composed,      (* the DocumentCompositions made so far                   *)
  documents,     (* CatalogState::documents                                *)
  sessionOrder,  (* CatalogState::session_order                            *)
  published,     (* documents whose canvases the canvas catalog knows      *)
  assets,        (* assets the asset catalog knows                         *)
  task,          (* the query of each caller                               *)
  shown          (* the last list answered for each session (history)      *)

catalogVars == <<documents, sessionOrder>>
vars == <<composed, documents, sessionOrder, published, assets, task, shown>>

-----------------------------------------------------------------------------
(* Composition.                                                             *)

CompositionInput(pages) ==
  /\ pages # <<>>
  /\ \A i \in DOMAIN pages : i - 1 <= MaxU32 /\ pages[i].index = i - 1

CanvasFor(id, i, session, geometry) ==
  [id |-> <<id, i>>, session |-> session, space |-> geometry]

DocumentPage(id, i, page) ==
  [page |-> <<id, i>>, index |-> page.index, geometry |-> page.geometry,
   canvas |-> <<id, i>>]

Document(id, session, asset, pages) ==
  [id |-> id, session |-> session, asset |-> asset, pages |-> pages]

ValidDocument(d) ==
  /\ d.pages # <<>>
  /\ \A i, j \in DOMAIN d.pages :
       i # j => /\ d.pages[i].page # d.pages[j].page
                /\ d.pages[i].canvas # d.pages[j].canvas
  /\ \A i \in DOMAIN d.pages : i - 1 <= MaxU32 /\ d.pages[i].index = i - 1

ValidComposition(c) ==
  /\ c.document.asset = c.asset
  /\ Len(c.document.pages) = Len(c.canvases)
  /\ \A i \in DOMAIN c.canvases :
       LET page == c.document.pages[i]
           canvas == c.canvases[i].canvas
       IN  /\ page.page = c.canvases[i].page
           /\ page.canvas = canvas.id
           /\ canvas.session = c.document.session
           /\ canvas.space = page.geometry

Compose(id, session, asset, pages) ==
  [document |-> Document(id, session, asset,
                  [i \in DOMAIN pages |-> DocumentPage(id, i, pages[i])]),
   asset |-> asset,
   canvases |-> [i \in DOMAIN pages |->
                   [page |-> <<id, i>>,
                    canvas |-> CanvasFor(id, i, session, pages[i].geometry)]]]

-----------------------------------------------------------------------------
(* Queries.                                                                 *)

(* Mutated form: a summary with the last index for a count.                 *)
SummaryLastIndex(d) == [id |-> d.id, pages |-> Len(d.pages) - 1, asset |-> d.asset]

Summary(d) == [id |-> d.id, pages |-> Len(d.pages), asset |-> d.asset]

(* The payloads of successful answers carry every field of what was read.   *)
ListAnswer(summaries) == [documents |-> summaries]

ViewAnswer(d, asset, canvases) ==
  [document |-> d, asset |-> asset, canvases |-> canvases]

(* What the canvas catalog may answer: any canvas at all.                   *)
CanvasAnswers ==
  [id : {<<id, i>> : id \in DocumentIds, i \in 1..(MaxU32 + 1)},
   session : Sessions, space : Geometries]

Idle ==
  [pc |-> "idle", kind |-> None, target |-> None, resolved |-> None,
   document |-> None, asset |-> None, canvases |-> <<>>,
   result |-> None, answer |-> None,
   granted |-> {},      (* history: the sessions the authorizer allowed    *)
   known |-> FALSE,     (* history: the document had been listed before    *)
   ready |-> FALSE,     (* history: the document was complete at the start *)
   faulty |-> FALSE]    (* history: a port failed or answered wrongly      *)

Init ==
  /\ composed = <<>>
  /\ documents = [id \in DocumentIds |-> None]
  /\ sessionOrder = [s \in Sessions |-> <<>>]
  /\ published = {}
  /\ assets = {}
  /\ task = [t \in Tasks |-> Idle]
  /\ shown = [s \in Sessions |-> <<>>]

-----------------------------------------------------------------------------
(* The application composes documents and registers them.                   *)

ComposeDocument(session, asset, pages) ==
  /\ Len(composed) < MaxDocuments
  /\ CompositionInput(pages)
  /\ LET c == Compose(Len(composed) + 1, session, asset, pages)
     IN  /\ ValidDocument(c.document)
         /\ ValidComposition(c)
         /\ composed' = Append(composed, c)
  /\ UNCHANGED <<documents, sessionOrder, published, assets, task, shown>>

(* Descriptors the application may present: those of the compositions, and  *)
(* ones built by hand that give the same identity to another session.       *)
Presented == {[composed[i].document EXCEPT !.session = s] :
                i \in DOMAIN composed, s \in Sessions}

(* Mutated form: a conflicting descriptor replaces the stored one.          *)
InsertOverwriting(d) ==
  /\ documents' = [documents EXCEPT ![d.id] = d]
  /\ sessionOrder' = IF documents[d.id] = None
                     THEN [sessionOrder EXCEPT ![d.session] = Append(@, d.id)]
                     ELSE sessionOrder

(* Mutated form: the order is extended before the identity is looked up.    *)
InsertOrderFirst(d) ==
  /\ documents' = IF documents[d.id] = None
                  THEN [documents EXCEPT ![d.id] = d] ELSE documents
  /\ sessionOrder' = [sessionOrder EXCEPT ![d.session] = Append(@, d.id)]

(* Mutated form: the stored descriptor is taken out to be compared.         *)
InsertRemoving(d) ==
  /\ documents' = [documents EXCEPT ![d.id] = IF @ = None \/ @ = d THEN d ELSE None]
  /\ sessionOrder' = IF documents[d.id] = None
                     THEN [sessionOrder EXCEPT ![d.session] = Append(@, d.id)]
                     ELSE sessionOrder

(* Mutated form: the newest document comes first.                           *)
InsertNewestFirst(d) ==
  IF documents[d.id] = None
  THEN /\ documents' = [documents EXCEPT ![d.id] = d]
       /\ sessionOrder' = [sessionOrder EXCEPT ![d.session] = <<d.id>> \o @]
  ELSE UNCHANGED catalogVars

Insert(d) ==
  IF documents[d.id] = None
  THEN /\ documents' = [documents EXCEPT ![d.id] = d]
       /\ sessionOrder' = [sessionOrder EXCEPT ![d.session] = Append(@, d.id)]
  ELSE UNCHANGED catalogVars

InsertDocument(d) ==
  /\ d \in Presented
  /\ Insert(d)
  /\ UNCHANGED <<composed, published, assets, task, shown>>

(* The asset and canvas catalogs learn of a composition.                    *)
RegisterAsset(asset) ==
  /\ asset \notin assets
  /\ assets' = assets \cup {asset}
  /\ UNCHANGED <<composed, documents, sessionOrder, published, task, shown>>

RegisterCanvases(i) ==
  /\ i \in DOMAIN composed \ published
  /\ published' = published \cup {i}
  /\ UNCHANGED <<composed, documents, sessionOrder, assets, task, shown>>

-----------------------------------------------------------------------------
(* A query, from the executor's call to its answer.                         *)

Become(t, q) ==
  /\ task' = [task EXCEPT ![t] = q]
  /\ UNCHANGED <<composed, documents, sessionOrder, published, assets>>

Goto(t, q) == Become(t, q) /\ UNCHANGED shown

(* The locals of the handler end with it.                                   *)
Done(q, code, answer) ==
  [q EXCEPT !.pc = "done", !.result = code, !.answer = answer,
            !.resolved = None, !.document = None, !.asset = None, !.canvases = <<>>]

Fail(t, q, code) == Goto(t, Done(q, code, None))

At(t, pc) == task[t].pc = pc

Ready(t) == task[t].pc \in {"idle", "done"}

(* No handler has the query type, or the payload does not decode.           *)
Refuse(t, code) ==
  /\ Ready(t)
  /\ Fail(t, Idle, code)

ExecuteList(t, session) ==
  /\ Ready(t)
  /\ Goto(t, [Idle EXCEPT !.pc = "authorize", !.kind = "list", !.target = session])

(* Some list has shown the document.                                        *)
Listed(id) ==
  \E s \in Sessions : \E i \in DOMAIN shown[s] : shown[s][i].id = id

(* The parts of the document are in the catalogs and are those of its       *)
(* composition.                                                             *)
Complete(id) ==
  /\ id \in published
  /\ documents[id] = composed[id].document
  /\ composed[id].asset \in assets

ExecuteGet(t, id) ==
  /\ Ready(t)
  /\ Goto(t, [Idle EXCEPT !.pc = "resolve", !.kind = "get", !.target = id,
                          !.known = Listed(id), !.ready = Complete(id)])

(* The caller drops the query.                                              *)
Drop(t) ==
  /\ ~Ready(t)
  /\ Goto(t, Idle)

Authorize(t) ==
  /\ At(t, "authorize")
  /\ LET q == task[t]
         session == IF q.kind = "list" THEN q.target ELSE q.resolved.session
     IN  Goto(t, [q EXCEPT !.granted = @ \cup {session},
                    !.pc = IF q.kind = "list" THEN "list" ELSE "document"])

AuthorizeFails(t, code) ==
  /\ At(t, "authorize")
  /\ Fail(t, task[t], code)

(* One document whose pages cannot be counted fails the whole list.         *)
ListDocuments(t) ==
  /\ At(t, "list")
  /\ LET ids == sessionOrder[task[t].target]
     IN  IF \A i \in DOMAIN ids : /\ documents[ids[i]] # None
                                  /\ Len(documents[ids[i]].pages) <= MaxU32
         THEN LET summaries == [i \in DOMAIN ids |-> Summary(documents[ids[i]])]
              IN  /\ Become(t, Done(task[t], "Success", ListAnswer(summaries)))
                  /\ shown' = [shown EXCEPT ![task[t].target] = summaries]
         ELSE Fail(t, task[t], "Unavailable")

(* document.get first finds out whose document it is.                       *)
ResolveDocument(t) ==
  /\ At(t, "resolve")
  /\ LET d == documents[task[t].target]
     IN  IF d = None
         THEN Fail(t, task[t], "NotFound")
         ELSE Goto(t, [task[t] EXCEPT !.pc = "authorize", !.resolved = d])

(* get_document_view reads it again.                                        *)
ReadDocument(t) ==
  /\ At(t, "document")
  /\ LET d == documents[task[t].target]
     IN  IF d = None
         THEN Fail(t, task[t], "NotFound")
         ELSE Goto(t, [task[t] EXCEPT !.pc = "asset", !.document = d])

ReadAsset(t, answer) ==
  /\ At(t, "asset")
  /\ LET wanted == task[t].document.asset
         true == IF wanted \in assets THEN wanted ELSE None
         q == [task[t] EXCEPT !.faulty = @ \/ answer # true]
     IN  IF answer # wanted
         THEN Fail(t, q, "Internal")
         ELSE Goto(t, [q EXCEPT !.pc = "page", !.asset = answer])

(* Mutated form: every canvas is compared with the first page.              *)
ValidPageCanvasFirst(d, page, canvas) ==
  /\ page.canvas = canvas.id
  /\ canvas.session = d.session
  /\ canvas.space = d.pages[1].geometry

(* Mutated form: the session of the canvas is not compared.                 *)
ValidPageCanvasAnySession(d, page, canvas) ==
  /\ page.canvas = canvas.id
  /\ canvas.space = page.geometry

ValidPageCanvas(d, page, canvas) ==
  /\ page.canvas = canvas.id
  /\ canvas.session = d.session
  /\ canvas.space = page.geometry

(* The canvas the catalog has for a page.                                   *)
TrueCanvas(page) ==
  LET id == page.canvas[1]
  IN  IF id \in published THEN composed[id].canvases[page.canvas[2]].canvas
                          ELSE None

(* One turn of the loop over the pages, and the end of it.                  *)
ReadCanvas(t, answer) ==
  /\ At(t, "page")
  /\ LET d == task[t].document
         page == d.pages[Len(task[t].canvases) + 1]
         q == [task[t] EXCEPT !.faulty = @ \/ answer # TrueCanvas(page)]
         more == [q EXCEPT !.canvases =
                    Append(@, [page |-> page.page, canvas |-> answer])]
     IN  IF answer = None \/ ~ValidPageCanvas(d, page, answer)
         THEN Fail(t, q, "Internal")
         ELSE IF Len(more.canvases) < Len(d.pages)
              THEN Goto(t, more)
              ELSE Goto(t, Done(more, "Success",
                                 ViewAnswer(d, more.asset, more.canvases)))

(* The catalog that a step reads is unavailable.                            *)
PortFails(t) ==
  /\ task[t].pc \in {"list", "resolve", "document", "asset", "page"}
  /\ Fail(t, [task[t] EXCEPT !.faulty = TRUE], "Unavailable")

Next ==
  \/ \E s \in Sessions, a \in Assets, pages \in PageLists :
       ComposeDocument(s, a, pages)
  \/ \E d \in Presented : InsertDocument(d)
  \/ \E a \in Assets : RegisterAsset(a)
  \/ \E i \in DocumentIds : RegisterCanvases(i)
  \/ \E t \in Tasks :
       \/ \E code \in {"UnsupportedQuery", "InvalidQuery"} : Refuse(t, code)
       \/ \E s \in Sessions : ExecuteList(t, s)
       \/ \E id \in DocumentIds : ExecuteGet(t, id)
       \/ Drop(t)
       \/ Authorize(t)
       \/ \E code \in {"Unauthorized", "Unavailable", "Internal"} :
            AuthorizeFails(t, code)
       \/ ListDocuments(t)
       \/ ResolveDocument(t)
       \/ ReadDocument(t)
       \/ \E answer \in Assets \cup {None} : ReadAsset(t, answer)
       \/ \E answer \in CanvasAnswers \cup {None} : ReadCanvas(t, answer)
       \/ PortFails(t)

Spec == Init /\ [][Next]_vars

-----------------------------------------------------------------------------
(* Properties.                                                              *)

Succeeded(t, kind) == task[t].kind = kind /\ task[t].result = "Success"

(* Whatever is answered belongs to a session that the authorizer allowed in *)
(* the same query, although document.get authorizes the document it         *)
(* resolved and then reads it again (query.rs), while descriptors that give *)
(* the document to another session may be presented to the catalog.         *)
AnswersAuthorized ==
  \A t \in Tasks :
    /\ Succeeded(t, "get") =>
         task[t].answer.document.session \in task[t].granted
    /\ Succeeded(t, "list") =>
         \A i \in DOMAIN task[t].answer.documents :
           LET d == documents[task[t].answer.documents[i].id]
           IN  d # None => d.session \in task[t].granted

(* get_document_view "fails without returning partial data": a view has its *)
(* asset and one canvas for each page, in page order, of the document's     *)
(* session and of the page's size, whatever the other catalogs answer.      *)
ViewIsWhole ==
  \A t \in Tasks :
    Succeeded(t, "get") =>
      LET d == task[t].answer.document
          canvases == task[t].answer.canvases
      IN  /\ d.id = task[t].target
          /\ task[t].answer.asset = d.asset
          /\ Len(canvases) = Len(d.pages)
          /\ \A i \in DOMAIN canvases :
               /\ canvases[i].page = d.pages[i].page
               /\ canvases[i].canvas =
                    CanvasFor(d.id, i, d.session, d.pages[i].geometry)

(* A view agrees with the summary that an earlier list has shown of the     *)
(* document (from_document, get_document_view).                             *)
ViewMatchesSummary ==
  \A t \in Tasks, s \in Sessions :
    Succeeded(t, "get") =>
      \A i \in DOMAIN shown[s] :
        LET view == task[t].answer
        IN  shown[s][i].id = task[t].target =>
              /\ shown[s][i] = Summary(view.document)
              /\ shown[s][i].pages = Len(view.canvases)
              /\ s = view.document.session

(* Lists have a "stable insertion order" (catalog.rs): of two successive    *)
(* lists of a session the later one continues the earlier.                  *)
ListsOnlyGrow ==
  [][\A s \in Sessions : IsPrefix(shown[s], shown'[s])]_vars

(* A document that some list has shown is not answered NotFound to a later  *)
(* document.get.                                                            *)
ListedIsFound ==
  \A t \in Tasks : task[t].known => task[t].result # "NotFound"

(* What the composer makes, the read service accepts: a document whose      *)
(* parts were all registered before the query is answered Internal only if  *)
(* a port failed or lied, or the authorizer failed.                         *)
ComposedIsReadable ==
  \A t \in Tasks :
    (task[t].ready /\ ~task[t].faulty /\ task[t].granted # {}) =>
      task[t].result \in {None, "Success"}

(* The two maps of the catalog agree: each document is in the order of its  *)
(* own session, once, and nothing else is in it, so that list_documents     *)
(* never finds that "session ordering references a missing Document".       *)
OrderMatchesDocuments ==
  \A s \in Sessions, id \in DocumentIds :
    Cardinality({i \in DOMAIN sessionOrder[s] : sessionOrder[s][i] = id})
      = IF documents[id] # None /\ documents[id].session = s THEN 1 ELSE 0
=============================================================================
