---------------------------- MODULE HeapPromise ------------------------------
(***************************************************************************)
(* What a heap promises its callers, without blocks, headers or locks: a   *)
(* region it gives out is aligned, lies in the heap and has no byte in     *)
(* common with a region that is still in use.  A region in use is never    *)
(* moved, resized or taken back.                                           *)
(***************************************************************************)
EXTENDS Integers

CONSTANTS
  Bottom, Limit, (* the first byte, and the one behind the last            *)
  Unit,          (* the alignment                                          *)
  Grants         (* the sizes given out                                    *)

VARIABLE live    (* the regions in use                                     *)

Region == {r \in [at : Bottom..Limit, size : Grants] :
             r.at % Unit = 0 /\ r.at + r.size <= Limit}

Apart(r, s) == r.at + r.size <= s.at \/ s.at + s.size <= r.at

Init == live = {}

Give == \E r \in live' \ live : /\ r \in Region
                                /\ \A s \in live : Apart(r, s)
                                /\ live' = live \cup {r}

TakeBack == \E r \in live : live' = live \ {r}

Next == Give \/ TakeBack

Spec == Init /\ [][Next]_live
=============================================================================
