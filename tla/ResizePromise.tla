--------------------------- MODULE ResizePromise -----------------------------
(***************************************************************************)
(* What a heap with rt_memheap_realloc promises: HeapPromise, and a region *)
(* in use may change its size where it stands, as long as it does not      *)
(* reach into another one.                                                 *)
(***************************************************************************)
EXTENDS HeapPromise

Resize ==
  \E r \in live, s \in Region :
    /\ s.at = r.at
    /\ \A x \in live \ {r} : Apart(s, x)
    /\ live' = (live \ {r}) \cup {s}

ResizeNext == Next \/ Resize

ResizeSpec == Init /\ [][ResizeNext]_live
=============================================================================
