---------------------------- MODULE MCPdfInspection ----------------------------
(***************************************************************************)
(* An instance of PdfInspection for TLC.  The scenarios with few documents *)
(* let calls race and ports misbehave; those with many let one inspection  *)
(* of a stored asset parse every small document.                           *)
(***************************************************************************)
EXTENDS PdfInspection

SmallContents == {<<>>, <<0>>, <<0, 1>>, <<0, 0, 1>>, <<1, 1, 1>>}

Asked(d, bytes) == [descriptor |-> d, bytes |-> bytes]

Described(bytes) == Descriptor("a", "pdf", Len(bytes), Digest(bytes), "file")

Accepted == Asked(Described(<<0, 0, 1>>), <<0, 0, 1>>)

(* The same asset again, another content under its name, and descriptors    *)
(* that do not fit.                                                         *)
Rivals ==
  {Accepted, Asked(Described(<<1, 1, 1>>), <<1, 1, 1>>),
   Asked([Described(<<0, 0, 1>>) EXCEPT !.original_filename = "absent"], <<0, 0, 1>>),
   Asked(Described(<<0>>), <<0, 1>>), Asked(Described(<<1, 1, 1>>), <<0, 0, 1>>),
   Asked([Described(<<0>>) EXCEPT !.media_type = "blank"], <<0>>),
   Asked([Described(<<0>>) EXCEPT !.original_filename = "blank"], <<0>>)}

Reading(asset, port) == [asset |-> asset, port |-> port]

(* Documents.                                                               *)

Node(type, kids, attributes) ==
  [type |-> type, kids |-> kids, attributes |-> attributes]

Doc(nodes) ==
  [bytes |-> <<>>, load |-> "ok", encrypted |-> FALSE, title |-> "text",
   root |-> "n1", nodes |-> nodes]

Box(x, y) == Array(<<0, y, x, 0>>)

Attributes(media, crop, rotate) ==
  [media_box |-> media, crop_box |-> crop, rotate |-> rotate]

(* Every node has its own boxes, so that what is inherited can be seen.     *)
OwnAttributes ==
  [n1 |-> Attributes(Box(10, 20), Absent, Integer(90)),
   n2 |-> Attributes(Absent, Box(3, 4), Absent),
   n3 |-> Attributes(Box(5, 6), Absent, Integer(-180)),
   n4 |-> NoAttributes,
   n5 |-> Attributes(Box(7, 8), Absent, Absent)]

(* The sequences over a set of at least and at most a length.               *)
SeqsOf(S, least, most) == UNION {[1..n -> S] : n \in least..most}

KidLists == {Other} \cup {Array(k) : k \in SeqsOf({"n1", "n2", "n3", "n4"}, 0, 2)}

Shapes ==
  {Node("Page", Other, NoAttributes), Node("Font", Other, NoAttributes)}
    \cup {Node("Pages", kids, NoAttributes) : kids \in KidLists \cup {Array(<<"n9", "n4">>)}}

(* Every graph on three nodes and a page.                                   *)
ShapedDocuments ==
  {Doc([n \in {"n1", "n2", "n3", "n4"} |->
          [(IF n = "n4" THEN Node("Page", Other, NoAttributes) ELSE shape[n])
             EXCEPT !.attributes = OwnAttributes[n]]]) :
     shape \in [{"n1", "n2", "n3"} -> Shapes]}

(* Trees and graphs of up to four pages, below a root of three kids.        *)
WideDocuments ==
  {Doc([n \in DOMAIN OwnAttributes |->
          CASE n = "n1" -> Node("Pages", Array(kids), OwnAttributes[n])
            [] n = "n2" -> [second EXCEPT !.attributes = OwnAttributes[n]]
            [] OTHER -> Node("Page", Other, OwnAttributes[n])]) :
     kids \in SeqsOf({"n2", "n3", "n4", "n5"}, 1, 3),
     second \in {Node("Page", Other, NoAttributes)} \cup
                {Node("Pages", Array(k), NoAttributes) :
                   k \in SeqsOf({"n3", "n4", "n5"}, 1, 2)}}

Boxes == {Absent, Dangling, Other, Box(7, 8), Array(<<0, 0, 0, 9>>), Array(<<0, 9>>)}
Rotations == {Absent, Dangling, Other} \cup {Integer(n) : n \in {0, 90, -90, 450, 45}}

(* Every way to inherit the attributes of one page from its parent.         *)
AttributeDocuments ==
  {Doc([n1 |-> Node("Pages", Array(<<"n2">>), above),
        n2 |-> Node("Page", Other, own)]) :
     above \in {Attributes(m, c, r) : m \in {Absent, Box(10, 20)},
                                      c \in {Absent, Box(3, 4)},
                                      r \in {Absent, Integer(90)}},
     own \in {Attributes(m, c, r) : m \in Boxes, c \in Boxes, r \in Rotations}}

GoodDocument ==
  Doc([n1 |-> Node("Page", Other, Attributes(Box(10, 20), Absent, Absent))])

(* The name /Encrypt after every short text, at its end, cut off and as the *)
(* start of a longer name.                                                  *)
Marker == <<"/", "Encrypt">>
TextBytes == {"%", "(", ")", "\\", "<", ">", "eol", "a"}

Texts ==
  {text \o Marker : text \in SeqsOf(TextBytes, 0, 4)}
    \cup {text \o Marker \o <<last>> : text \in SeqsOf(TextBytes, 0, 2),
                                      last \in {"a", "\\"} \cup Delimiters}
    \cup {text \o <<"/">> \o Marker \o Marker : text \in SeqsOf(TextBytes, 0, 2)}

TextDocuments == {[GoodDocument EXCEPT !.bytes = text] : text \in Texts}

(* The second bracket of a dictionary opens a hex string for the scan, which*)
(* therefore misses the entry of an ordinary trailer.                       *)
ASSUME TrailerEntryIsMissed ==
  ~ContainsEncryptMarker(<<"<", "<">> \o Marker \o <<" ", "a", ">", ">">>)

(* Files that lopdf refuses or finds encrypted, with the name where the     *)
(* scan sees it and where it does not.                                      *)
OddDocuments ==
  {[doc EXCEPT !.bytes = text] :
     text \in {<<>>, Marker, <<"%">> \o Marker},
     doc \in {[GoodDocument EXCEPT !.encrypted = TRUE],
             [GoodDocument EXCEPT !.title = "blank"],
             [GoodDocument EXCEPT !.root = NoNode]}
              \cup {[GoodDocument EXCEPT !.load = l] :
                      l \in {"memory_limit", "password", "syntax"}}}

(* Scenarios.                                                               *)

NoRecords == [a \in {} |-> Accepted]

RacingScenarios ==
  {[records |-> NoRecords, inserts |-> [i1 |-> Accepted, i2 |-> rival],
    reads |-> [r1 |-> Reading("a", "memory"), r2 |-> Reading("a", "memory")],
    documents |-> {GoodDocument}] : rival \in Rivals}

ForeignScenarios ==
  {[records |-> NoRecords, inserts |-> [i1 |-> Accepted],
    reads |-> [r1 |-> Reading("a", "other")], documents |-> {GoodDocument}]}

ParsingScenarios ==
  {[records |-> [a |-> Asked(Described(<<0>>), <<0>>)],
    inserts |-> [i \in {} |-> Accepted], reads |-> [r1 |-> Reading("a", "memory")],
    documents |-> ShapedDocuments \cup WideDocuments \cup AttributeDocuments
                    \cup TextDocuments \cup OddDocuments]}

AllScenarios == RacingScenarios \cup ForeignScenarios \cup ParsingScenarios
=============================================================================
