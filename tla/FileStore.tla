----------------------------- MODULE FileStore -------------------------------
(***************************************************************************)
(* What a file system promises of its regular files: a file is a sequence  *)
(* of bytes under a name, a handle reads and writes at a place of its own, *)
(* and a write is made whole or not at all.  A handle knows how long its   *)
(* file is.  When another one makes the file longer or shorter, or it is   *)
(* removed, the handle may be lost: a call through it may still do         *)
(* anything to one file, or end all promises.                              *)
(***************************************************************************)
EXTENDS Integers, Sequences

CONSTANTS Name, Handle, Absent,
          Run, Count   (* the byte strings written, the counts read *)

VARIABLES content,   (* name -> its bytes, or Absent                       *)
          open,      (* handle -> the name it has open, or Absent          *)
          at,        (* handle -> where it reads and writes                *)
          got,       (* what the last call has read                        *)
          lost,      (* the handles that do not know their file any more   *)
          broken     (* a call through one of them has left the files      *)

fsVars == <<content, open, at, got, lost, broken>>

Init ==
  /\ content = [n \in Name |-> Absent]
  /\ open = [h \in Handle |-> Absent] /\ at = [h \in Handle |-> 0]
  /\ got = <<>> /\ lost = {} /\ broken = FALSE

Length(bytes) == IF bytes = Absent THEN -1 ELSE Len(bytes)

\* No call makes another handle lost than those that have a file open whose
\* length it changes.  A file may come to be again as the handle knows it.
LosesOnly ==
  \A h \in lost' \ lost :
    open[h] # Absent /\ Length(content[open[h]]) # Length(content'[open[h]])

\* A file is made, emptied or taken as it is, and read from either end.
Open(h, n) ==
  /\ open[h] = Absent
  /\ \/ content' = [content EXCEPT ![n] = <<>>]
     \/ content[n] # Absent /\ UNCHANGED content
  /\ open' = [open EXCEPT ![h] = n]
  /\ \E i \in {0, Len(content'[n])} : at' = [at EXCEPT ![h] = i]
  /\ h \notin lost'
  /\ got' = <<>>

Close(h) ==
  /\ open' = [open EXCEPT ![h] = Absent] /\ at' = [at EXCEPT ![h] = 0]
  /\ h \notin lost'
  /\ got' = <<>> /\ UNCHANGED content

\* It has a file open, and knows it.
Knows(h) == open[h] # Absent /\ h \notin lost

Write(h, b) ==
  LET n == open[h]
      old == content[n]
  IN
  /\ Knows(h)
  /\ content' = [content EXCEPT ![n] =
       SubSeq(old, 1, at[h]) \o b \o SubSeq(old, at[h] + Len(b) + 1, Len(old))]
  /\ at' = [at EXCEPT ![h] = @ + Len(b)]
  /\ h \notin lost'
  /\ got' = <<>> /\ UNCHANGED open

Read(h, k) ==
  /\ Knows(h)
  /\ LET rest == Len(content[open[h]]) - at[h]
     IN  got' = SubSeq(content[open[h]], at[h] + 1,
                       at[h] + IF k < rest THEN k ELSE rest)
  /\ at' = [at EXCEPT ![h] = @ + Len(got')]
  /\ UNCHANGED <<content, open>>

Seek(h, i) ==
  /\ Knows(h) /\ i \in 0..Len(content[open[h]])
  /\ at' = [at EXCEPT ![h] = i]
  /\ got' = <<>> /\ UNCHANGED <<content, open>>

Unlink(n) ==
  /\ content' = [content EXCEPT ![n] = Absent]
  /\ got' = <<>> /\ UNCHANGED <<open, at>>

\* A call through a lost handle changes one file at most, and no other handle.
LostCall(h) ==
  /\ h \in lost
  /\ \E n \in Name : content' = [content EXCEPT ![n] = content'[n]]
  /\ at' = [at EXCEPT ![h] = at'[h]]
  /\ UNCHANGED open

Call ==
  \/ \E h \in Handle :
       \/ Close(h) \/ LostCall(h)
       \/ \E n \in Name : Open(h, n)
       \/ \E b \in Run : Write(h, b)
       \/ \E k \in Count : Read(h, k)
       \/ Knows(h) /\ \E i \in 0..Len(content[open[h]]) : Seek(h, i)
  \/ \E n \in Name : Unlink(n)

Next ==
  \/ ~broken /\ UNCHANGED broken /\ LosesOnly /\ Call
  \/ (broken \/ lost # {}) /\ broken'

Spec == Init /\ [][Next]_fsVars
=============================================================================
