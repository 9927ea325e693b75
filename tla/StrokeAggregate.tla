---------------------------- MODULE StrokeAggregate ----------------------------
(***************************************************************************)
(* What the canvas command path promises, without tasks, leases, retries   *)
(* or failures: commands take effect one at a time, each decided and       *)
(* applied in a single step against the current state of its Stroke, and   *)
(* nothing else ever changes a Stroke.                                     *)
(***************************************************************************)
EXTENDS CanvasCommands

VARIABLE strokes   (* the persisted state of every Stroke                   *)

Init == strokes = [k \in StrokeKeys |-> NoStroke]

Perform(a) ==
  LET k == StrokeKey(a)
  IN  /\ Decodes(a)
      /\ CanvasAdmits(a)
      /\ Drafts(a, strokes[k])
      /\ strokes' = [strokes EXCEPT ![k] = Applied(strokes[k], EventOf(a))]

Next == \E a \in Actions : Perform(a)

Spec == Init /\ [][Next]_strokes
=============================================================================
