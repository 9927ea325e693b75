------------------------------- MODULE PageTree -------------------------------
(***************************************************************************)
(* The page tree walk of crates/orbitrelay-pdf/src/parser.rs: from the     *)
(* objects of a PDF file, as lopdf has parsed them, to the displayed       *)
(* geometry of its pages.  The objects are any graph: nodes may be shared, *)
(* form cycles, dangle or be of the wrong type.  Visit is the recursive    *)
(* function of the source, with the walker it changes passed through it.   *)
(***************************************************************************)
EXTENDS Integers, Sequences, EncryptScan

CONSTANTS
  NoNode,       (* a catalog without a reference to its pages               *)
  MaxPages,     (* limits.max_pages                                         *)
  DepthLimit    (* PAGE_TREE_DEPTH_LIMIT                                    *)

ASSUME PageTreeAssumption == {MaxPages, DepthLimit} \subseteq Nat

---------------------------------------------------------------------------
(* Objects.  An attribute is absent, a reference that leads nowhere, a      *)
(* number, an array of numbers or something else.                           *)

Absent == [type |-> "absent"]
Dangling == [type |-> "dangling"]
Other == [type |-> "other"]
Integer(n) == [type |-> "integer", value |-> n]
Array(numbers) == [type |-> "array", value |-> numbers]

NoAttributes == [media_box |-> Absent, crop_box |-> Absent, rotate |-> Absent]

(* The entry of a dictionary, even one that cannot be used, takes the place *)
(* of the inherited one.                                                    *)
Inherit(inherited, own) ==
  [key \in DOMAIN inherited |->
     IF own[key] = Absent THEN inherited[key] ELSE own[key]]

ResolveAttributes(attributes) ==
  [key \in DOMAIN attributes |->
     IF attributes[key] = Dangling THEN Absent ELSE attributes[key]]

---------------------------------------------------------------------------
(* The walk.  doc.nodes maps the object numbers that exist to dictionaries  *)
(* [type, kids, attributes]; kids that are no array of references are       *)
(* written Other.                                                           *)

Walker == [pages |-> <<>>, active |-> {}, seen |-> {}, error |-> "none"]

Failed(w, error) == [w EXCEPT !.error = error]

(* Mutated form: one page more than the limit.                              *)
AddPageOver(w, attributes) ==
  IF Len(w.pages) > MaxPages THEN Failed(w, "PageLimitExceeded")
  ELSE [w EXCEPT !.pages = Append(@, ResolveAttributes(attributes))]

AddPage(w, attributes) ==
  IF Len(w.pages) >= MaxPages THEN Failed(w, "PageLimitExceeded")
  ELSE [w EXCEPT !.pages = Append(@, ResolveAttributes(attributes))]

RECURSIVE Visit(_, _, _, _, _)
RECURSIVE VisitKids(_, _, _, _, _)

Visit(doc, w, node, inherited, depth) ==
  IF depth > DepthLimit \/ node \in w.active \/ node \in w.seen
     \/ node \notin DOMAIN doc.nodes
  THEN Failed(w, "InvalidPageTree")
  ELSE LET dictionary == doc.nodes[node]
           effective == Inherit(inherited, dictionary.attributes)
           entered == [w EXCEPT !.active = @ \cup {node}, !.seen = @ \cup {node}]
           left == IF dictionary.type = "Page" THEN AddPage(entered, effective)
                   ELSE IF dictionary.type = "Pages" /\ dictionary.kids \notin {Other, Array(<<>>)}
                   THEN VisitKids(doc, entered, dictionary.kids.value, effective, depth)
                   ELSE Failed(entered, "InvalidPageTree")
       IN  [left EXCEPT !.active = @ \ {node}]

(* The first kid that fails ends the walk.                                  *)
VisitKids(doc, w, kids, effective, depth) ==
  IF kids = <<>> \/ w.error # "none" THEN w
  ELSE VisitKids(doc, Visit(doc, w, Head(kids), effective, depth + 1),
                 Tail(kids), effective, depth)

CollectPages(doc) ==
  IF doc.root = NoNode THEN Failed(Walker, "InvalidPageTree")
  ELSE Visit(doc, Walker, doc.root, NoAttributes, 0)

---------------------------------------------------------------------------
(* Geometry.                                                                *)

Distance(a, b) == IF a < b THEN b - a ELSE a - b

(* parse_box: an array of four numbers that span an area.                   *)
IsBox(object) ==
  /\ object.type = "array"
  /\ Len(object.value) = 4
  /\ object.value[1] # object.value[3]
  /\ object.value[2] # object.value[4]

BoxWidth(box) == Distance(box.value[1], box.value[3])
BoxHeight(box) == Distance(box.value[2], box.value[4])

(* parse_rotation: rem_euclid(360), then a quarter turn or an error.        *)
ParseRotation(object) ==
  IF object = Absent THEN 0
  ELSE IF object.type # "integer" \/ (object.value % 360) % 90 # 0 THEN -1
  ELSE object.value % 360

PageDisplayGeometry(width, height, rotation) ==
  [width |-> width, height |-> height, rotation |-> rotation, error |-> "none"]

NoGeometry(error) == [width |-> 0, height |-> 0, rotation |-> 0, error |-> error]

PageGeometry(attributes) ==
  LET media == attributes.media_box
      visible == IF IsBox(attributes.crop_box) THEN attributes.crop_box ELSE media
      rotation == ParseRotation(attributes.rotate)
  IN  IF media = Absent THEN NoGeometry("MissingMediaBox")
      ELSE IF ~IsBox(media) THEN NoGeometry("InvalidPageGeometry")
      ELSE IF rotation = -1 THEN NoGeometry("InvalidRotation")
      ELSE IF rotation \in {90, 270}
           THEN PageDisplayGeometry(BoxHeight(visible), BoxWidth(visible), rotation)
           ELSE PageDisplayGeometry(BoxWidth(visible), BoxHeight(visible), rotation)

---------------------------------------------------------------------------
(* inspect_bytes.  doc.bytes is the text that is scanned, doc.load what     *)
(* lopdf made of it.                                                        *)

MapParserError(load) ==
  CASE load = "memory_limit" -> "ParserResourceLimitExceeded"
    [] load = "password" -> "EncryptedUnsupported"
    [] load = "syntax" -> "InvalidPdf"

ExtractTitle(doc) == IF doc.title \in {"absent", "blank"} THEN "none" ELSE doc.title

Metadata(title, pages) == [error |-> "none", title |-> title, pages |-> pages]

Refusal(error) == [error |-> error, title |-> "none", pages |-> <<>>]

InspectBytes(doc) ==
  LET walk == CollectPages(doc)
      geometries == [i \in DOMAIN walk.pages |-> PageGeometry(walk.pages[i])]
      bad == {i \in DOMAIN geometries : geometries[i].error # "none"}
  IN  IF ContainsEncryptMarker(doc.bytes) THEN Refusal("EncryptedUnsupported")
      ELSE IF doc.load # "ok" THEN Refusal(MapParserError(doc.load))
      ELSE IF doc.encrypted THEN Refusal("EncryptedUnsupported")
      ELSE IF walk.error # "none" THEN Refusal(walk.error)
      ELSE IF walk.pages = <<>> THEN Refusal("InvalidPageTree")
      ELSE IF bad # {}
           THEN Refusal(geometries[CHOOSE i \in bad : \A j \in bad : i <= j].error)
      ELSE Metadata(ExtractTitle(doc), geometries)

---------------------------------------------------------------------------
(* The reference: what a page tree is, without a walk.                      *)

Kids(doc, node) ==
  IF /\ node \in DOMAIN doc.nodes
     /\ doc.nodes[node].type = "Pages"
     /\ doc.nodes[node].kids.type = "array"
  THEN doc.nodes[node].kids.value ELSE <<>>

(* A place of a document is the list of kid numbers that leads to it.       *)
NodeAt(doc, path) ==
  LET at[n \in 0..Len(path)] ==
        IF n = 0 THEN doc.root ELSE Kids(doc, at[n - 1])[path[n]]
  IN  at[Len(path)]

(* All places of at most a length.                                          *)
PlacesUpTo(doc, length) ==
  LET level[n \in 0..length] ==
        IF n = 0 THEN (IF doc.root = NoNode THEN {} ELSE {<<>>})
        ELSE UNION {{Append(p, k) : k \in DOMAIN Kids(doc, NodeAt(doc, p))} :
                      p \in level[n - 1]}
  IN  UNION {level[n] : n \in 0..length}

(* One path before another in the order of the pages.                       *)
Before(p, q) ==
  \E n \in 1..Len(p) :
    /\ n <= Len(q)
    /\ p[n] < q[n]
    /\ \A m \in 1..(n - 1) : p[m] = q[m]
=============================================================================
