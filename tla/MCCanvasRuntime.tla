---------------------------- MODULE MCCanvasRuntime ----------------------------
(***************************************************************************)
(* Instances of CanvasRuntime for TLC.  Two canvases of two sessions, so   *)
(* that one Stroke identifier names two Strokes under one execution scope; *)
(* point lists of 1, 2, 0 and 257 points, one of them outside the space.   *)
(***************************************************************************)
EXTENDS CanvasRuntime, TLC

CONSTANTS t1, t2

GoodPoints == {"dot", "line"}
AllPoints == GoodPoints \cup {"far", "none", "many"}
CountOf == ("dot" :> 1) @@ ("line" :> 256) @@ ("far" :> 2)
           @@ ("none" :> 0) @@ ("many" :> 257)
GoodCounts == [points \in GoodPoints |-> CountOf[points]]
AllCounts == [points \in AllPoints |-> CountOf[points]]

Descriptor(session) ==
  [session |-> session, layers |-> {"ink"}, space |-> GoodPoints]

OneCanvas == "c1" :> Descriptor("s1")
TwoCanvases == ("c1" :> Descriptor("s1")) @@ ("c2" :> Descriptor("s2"))

Request(command, actor, canvas, layer, style, index, points) ==
  [session |-> TwoCanvases[canvas].session, command |-> command,
   actor |-> actor,
   payload |-> [points |-> points, canvas |-> canvas, layer |-> layer,
                style |-> style, index |-> index, stroke |-> "k"]]

On1(command, index, points) ==
  Request(command, "alice", "c1", "ink", "pen", index, points)

(* The whole life of a Stroke, with retries and conflicting requests.       *)
LifeRequests ==
  {On1("begin", 0, "dot"),
   Request("begin", "bob", "c1", "ink", "pen", 0, "dot"),
   On1("append", 1, "dot"), On1("append", 1, "line"), On1("append", 2, "line"),
   On1("end", 1, "dot"), On1("cancel", 1, "dot"), On1("remove", 0, "dot")}

(* Requests that fail on the way, and a second canvas.                      *)
FaultyRequests ==
  {On1("begin", 0, "dot"), On1("begin", 0, "far"), On1("begin", 0, "none"),
   On1("append", 1, "many"), On1("append", 1, "far"), On1("append", 1, "line"),
   Request("begin", "alice", "c1", "chalk", "pen", 0, "dot"),
   Request("begin", "alice", "c2", "ink", "pen", 0, "dot"),
   [On1("remove", 0, "dot") EXCEPT !.session = "s2"]}

TwoTasks == {t1, t2}
TwoTaskSymmetry == Permutations(TwoTasks)
=============================================================================
