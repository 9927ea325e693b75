------------------------------ MODULE Selection ------------------------------
(***************************************************************************)
(* Filtering a sequence by the positions that are kept: what               *)
(* iter().filter() yields of a vector.  It is the recursive function of    *)
(* the position that SelectSeq is defined with, under a name of its own,   *)
(* because EventStoreProofs proves what it computes.                       *)
(***************************************************************************)
EXTENDS Integers, Sequences

(* The parts of s that are kept, up to each position.                       *)
Parts(s, K) ==
  LET part[i \in Nat] ==
        IF i = 0 THEN <<>>
        ELSE IF i \in K THEN Append(part[i - 1], s[i]) ELSE part[i - 1]
  IN  part

(* The elements of s at the positions in K up to n, in their order.         *)
Selected(s, K, n) == Parts(s, K)[n]
=============================================================================
