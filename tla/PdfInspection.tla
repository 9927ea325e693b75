----------------------------- MODULE PdfInspection -----------------------------
(***************************************************************************)
(* PdfInspector::inspect of crates/orbitrelay-pdf: the composition of      *)
(* AssetReads and PageTree.  An inspection looks the descriptor up and     *)
(* compares its length with the limit, reads the asset, which looks the    *)
(* descriptor up again, and parses what it has read.  The parser works on  *)
(* a buffer of its own in one step.                                        *)
(***************************************************************************)
EXTENDS AssetReads, PageTree, FiniteSets, SequencesExt

CONSTANT
  Inspections    (* the inspections a scenario may make                     *)

VARIABLES
  document,      (* what lopdf makes of the bytes                           *)
  inspections    (* [at, result] of the inspection that makes each read     *)

vars == <<assetVars, document, inspections>>

(* map_read_error.                                                          *)
MapReadError(error) ==
  CASE error = "NotFound" -> "AssetNotFound"
    [] error = "AssetTooLarge" -> "AssetTooLarge"
    [] error = "CatalogUnavailable" -> "AssetUnavailable"
    [] error \in {"Reader", "LengthOverflow", "InvalidChunk"} -> "ReadFailed"

Conclude(r, result) ==
  inspections' = [inspections EXCEPT ![r] = [at |-> "done", result |-> result]]

(* The lookup of inspect, up to the call of read_asset_fully.               *)
InspectLookup(r) ==
  /\ inspections[r].at = "idle"
  /\ \E answer \in CatalogAnswers(reads[r].port, reads[r].asset) :
       LET refused == IF answer.status # "found" THEN MapReadError(answer.status)
                      ELSE IF answer.descriptor.byte_length > MaxBytes
                      THEN "AssetTooLarge" ELSE "none"
       IN  \/ /\ refused # "none"
              /\ Conclude(r, Refusal(refused))
              /\ UNCHANGED assetVars
           \/ /\ refused = "none"
              /\ BeginRead(r)
              /\ inspections' = [inspections EXCEPT ![r].at = "reading"]
  /\ UNCHANGED document

InspectRead(r) == ReadStep(r) /\ UNCHANGED <<document, inspections>>

(* The bytes are parsed, or the error of the read is mapped.                *)
InspectParse(r) ==
  /\ inspections[r].at = "reading"
  /\ reads[r].at = "done"
  /\ Conclude(r, IF reads[r].result = "Ok" THEN InspectBytes(document)
                       ELSE Refusal(MapReadError(reads[r].result)))
  /\ UNCHANGED <<assetVars, document>>

Inspect(r) == InspectLookup(r) \/ InspectRead(r) \/ InspectParse(r)

Ingest(i) == Insert(i) /\ UNCHANGED <<document, inspections>>

Init ==
  \E scenario \in Scenarios :
    /\ StartFrom(scenario)
    /\ document \in scenario.documents
    /\ inspections = [r \in DOMAIN scenario.reads |->
                        [at |-> "idle", result |-> Refusal("none")]]

Next == (\E i \in Inserters : Ingest(i)) \/ (\E r \in Readers : Inspect(r))

(* The ports answer, and the executor polls the task of an inspection.      *)
Spec ==
  /\ Init /\ [][Next]_vars
  /\ \A r \in Inspections : WF_vars(r \in Readers /\ Inspect(r))

---------------------------------------------------------------------------
(* Properties.                                                              *)

(* The places of a document, as far as a tree on its nodes can have some,   *)
(* and those that show a page.                                              *)
Places(doc) == PlacesUpTo(doc, Cardinality(DOMAIN doc.nodes))

IsPage(doc, p) ==
  NodeAt(doc, p) \in DOMAIN doc.nodes /\ doc.nodes[NodeAt(doc, p)].type = "Page"

PagePlaces(doc) == {p \in Places(doc) : IsPage(doc, p)}

(* Every place holds a node of its own, not too deep, that is a page or has *)
(* kids.                                                                    *)
IsPageTree(doc) ==
  LET places == Places(doc)
  IN  /\ doc.root # NoNode
      /\ \A p \in places :
           /\ Len(p) <= DepthLimit
           /\ IsPage(doc, p) \/ Kids(doc, NodeAt(doc, p)) # <<>>
           /\ \A q \in places : NodeAt(doc, p) = NodeAt(doc, q) => p = q

(* The attribute of a page: that of the lowest node above it that has one.  *)
Nearest(doc, path, key) ==
  LET Own(n) == doc.nodes[NodeAt(doc, SubSeq(path, 1, n))].attributes[key]
      having == {n \in 0..Len(path) : Own(n) # Absent}
      value == Own(CHOOSE n \in having : \A m \in having : m <= n)
  IN  IF having = {} \/ value = Dangling THEN Absent ELSE value

VisibleBox(doc, path) ==
  IF IsBox(Nearest(doc, path, "crop_box")) THEN Nearest(doc, path, "crop_box")
                                           ELSE Nearest(doc, path, "media_box")

(* The quarter turns of a page, for a rotation that is a whole number of    *)
(* them.                                                                    *)
QuarterTurns(doc, path) ==
  LET rotate == Nearest(doc, path, "rotate")
  IN  {q \in 0..3 : \/ rotate = Absent /\ q = 0
                    \/ /\ rotate.type = "integer"
                       /\ \E full \in -2..2 : rotate.value = 360 * full + 90 * q}

Displayable(doc, path) ==
  IsBox(Nearest(doc, path, "media_box")) /\ QuarterTurns(doc, path) # {}

Shows(geometry, doc, path) ==
  LET sides == VisibleBox(doc, path).value
      across == IF geometry.rotation \in {90, 270} THEN 2 ELSE 1
  IN  /\ geometry.rotation \div 90 \in QuarterTurns(doc, path)
      /\ geometry.width \in {sides[across] - sides[across + 2],
                             sides[across + 2] - sides[across]} \ {0}
      /\ geometry.height \in {sides[3 - across] - sides[5 - across],
                              sides[5 - across] - sides[3 - across]} \ {0}
      /\ geometry.width > 0 /\ geometry.height > 0

(* What a file is refused for as encrypted: its text names /Encrypt, or     *)
(* lopdf asks for a password or finds it encrypted.                         *)
Encrypted(doc) ==
  \/ NamesEncrypt(doc.bytes)
  \/ doc.load = "password"
  \/ doc.load = "ok" /\ doc.encrypted

Readable(doc) ==
  /\ ~Encrypted(doc)
  /\ doc.load = "ok"
  /\ IsPageTree(doc)
  /\ Cardinality(PagePlaces(doc)) \in 1..MaxPages
  /\ \A p \in PagePlaces(doc) : Displayable(doc, p)

(* An inspection that parsed its asset returns metadata exactly for the     *)
(* documents whose objects form a tree of displayable pages within the      *)
(* limits, and then shows the pages in document order, each with the boxes  *)
(* and the rotation of its nearest ancestor; shared nodes, cycles, dangling *)
(* references and chains that are too deep are refused.  A file is refused  *)
(* as encrypted exactly when its plain text names /Encrypt or lopdf finds   *)
(* it encrypted, and for its number of pages only when it has more than the *)
(* limit.                                                                   *)
InspectionIsFaithful ==
  \A r \in Readers :
    inspections[r].at = "done" /\ reads[r].result = "Ok" =>
      LET result == inspections[r].result
          pages == PagePlaces(document)
          places == SetToSortSeq(pages, Before)
      IN  /\ result.error = "none" <=> Readable(document)
          /\ result.error = "EncryptedUnsupported" <=> Encrypted(document)
          /\ result.error = "PageLimitExceeded" => Cardinality(pages) > MaxPages
          /\ result.error = "none" =>
               /\ Len(result.pages) = Len(places)
               /\ \A i \in DOMAIN places : Shows(result.pages[i], document, places[i])

(* An inspection that has started ends, whatever the ports answer: every    *)
(* range read shortens what is left or ends the read.                       *)
InspectionsEnd ==
  \A r \in Inspections :
    (r \in Readers /\ inspections[r].at = "reading")
      ~> (r \in Readers /\ inspections[r].at = "done")
=============================================================================
