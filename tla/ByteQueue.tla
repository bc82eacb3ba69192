------------------------------ MODULE ByteQueue ------------------------------
(***************************************************************************)
(* What the receive path of a serial device promises: bytes come out in    *)
(* the order they went in, each at most once; when Cap bytes are waiting,  *)
(* one more pushes out the oldest.                                         *)
(***************************************************************************)
EXTENDS Integers, Sequences

CONSTANTS Byte, Cap

VARIABLES
  waiting,   (* the bytes nobody has read, oldest first                    *)
  last       (* the byte read last                                         *)

Init == waiting = <<>> /\ last \in Byte

Put(b) ==
  /\ waiting' = Append(IF Len(waiting) = Cap THEN Tail(waiting) ELSE waiting, b)
  /\ UNCHANGED last

Get ==
  /\ waiting # <<>>
  /\ waiting' = Tail(waiting) /\ last' = Head(waiting)

Next == Get \/ \E b \in Byte : Put(b)

Spec == Init /\ [][Next]_<<waiting, last>>
=============================================================================
