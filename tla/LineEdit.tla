------------------------------ MODULE LineEdit -------------------------------
(***************************************************************************)
(* What a user expects of a field to type in: the cells show the text, and *)
(* each key takes effect where the cursor is seen, whatever part of the    *)
(* text is in the field.                                                   *)
(***************************************************************************)
EXTENDS Integers, Sequences

CONSTANTS Letters,  (* what can be typed                    *)
          Inits,    (* the texts a field is opened with     *)
          Limit,    (* the length of a text at most         *)
          Width,    (* the cells of the field               *)
          Blank     (* what an empty cell shows             *)

VARIABLES open,     \* whether the field is on the display
          text,
          cells,    \* what is seen in each cell
          from,     \* how many letters are left of the field
          cursor    \* the cell with the cursor

\* How many letters are before the cursor, to a user who looks at the field.
Place == from + cursor
Before(n) == SubSeq(text, 1, n)
Behind == SubSeq(text, Place + 1, Len(text))

\* The cursor is in the field and in the text, and the cells show all they can.
Seen ==
  /\ from >= 0 /\ cursor \in 0..Width - 1 /\ Place <= Len(text)
  /\ \A i \in 0..Width - 1 : cells[i] = IF from + i < Len(text) THEN text[from + i + 1] ELSE Blank

Becomes(t, p) == open' /\ text' = t /\ Place' = p /\ Seen'

Init == ~open /\ text = <<>>

Open == ~open /\ \E t \in Inits : Becomes(t, Len(t))
\* There is no room for the field.
Refused == ~open /\ ~open' /\ text' \in Inits
Close == open /\ ~open' /\ text' = text

TypeIn(c) == open /\ Len(text) < Limit /\ Becomes(Before(Place) \o <<c>> \o Behind, Place + 1)
Erase == open /\ Place > 0 /\ Becomes(Before(Place - 1) \o Behind, Place - 1)
\* By one, or to the end when the field is drawn anew.
Move == open /\ \E p \in {Place - 1, Place + 1, Len(text)} \cap 0..Len(text) : Becomes(text, p)

Next == Open \/ Refused \/ Close \/ (\E c \in Letters : TypeIn(c)) \/ Erase \/ Move

Spec == Init /\ [][Next]_<<open, text, cells, from, cursor>>
=============================================================================
