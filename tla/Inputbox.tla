------------------------------ MODULE Inputbox -------------------------------
(***************************************************************************)
(* libs/lxdialog/inputbox.c: a line of text edited in a field that may be  *)
(* shorter than it.  show_x letters are left of the field and the cursor   *)
(* is in cell input_x of it, which is position pos of the text; the code   *)
(* keeps the three by hand, and draws only what it thinks has changed.     *)
(***************************************************************************)
EXTENDS Integers, Sequences

CONSTANTS Letters,    (* what can be typed                    *)
          Inits,      (* the texts a box is opened with       *)
          MAX_LEN,    (* the longest text                     *)
          box_width,  (* the cells of the field               *)
          BlankCell   (* what an empty cell shows             *)

ASSUME InputboxAssumption ==
  /\ MAX_LEN \in Nat /\ box_width \in Nat \ {0} /\ BlankCell \notin Letters
  /\ Inits \subseteq {t \in Seq(Letters) : Len(t) <= MAX_LEN}

VARIABLES instr,     \* dialog_input_result
          pos, show_x, input_x,
          pressed,   \* -1 for the field, 0 for Ok, 1 for Help
          shown,     \* the button that is drawn as the selected one
          field,     \* the letter in each cell
          result     \* what dialog_inputbox returned

fieldVars == <<instr, pos, show_x, input_x, pressed, shown, field, result>>

EscKey == 27
FieldTooSmall == -512
FieldOpen == -1
len == Len(instr)

-----------------------------------------------------------------------------
(* The field. *)

\* The loop that draws: the text from position s, and one blank behind its end.
Redrawn(f, t, s) ==
  [i \in 0..box_width - 1 |-> IF s + i < Len(t) THEN t[s + i + 1]
                              ELSE IF s + i = Len(t) THEN BlankCell ELSE f[i]]

\* Where the cursor starts: behind the text.
StartField(t) ==
  LET s == IF Len(t) >= box_width THEN Len(t) - box_width + 1 ELSE 0
  IN  /\ pos' = Len(t) /\ show_x' = s /\ input_x' = Len(t) - s
      /\ field' = Redrawn([i \in 0..box_width - 1 |-> BlankCell], t, s)

\* do_resize; the display may be too small now.
ShowField(t) ==
  \/ result' = FieldOpen /\ shown' = 0 /\ StartField(t)
  \/ result' = FieldTooSmall /\ UNCHANGED <<pos, show_x, input_x, field, shown>>

FieldInit ==
  /\ instr = <<>> /\ pos = 0 /\ show_x = 0 /\ input_x = 0 /\ pressed = -1 /\ shown = 0
  /\ field = [i \in 0..box_width - 1 |-> BlankCell] /\ result = EscKey

\* A call; the text is copied before the size of the display is looked at.
dialog_inputbox == result # FieldOpen /\ pressed' = -1 /\ \E t \in Inits : instr' = t /\ ShowField(t)

-----------------------------------------------------------------------------
(* Keys in the field. *)

InField == result = FieldOpen /\ pressed = -1 /\ UNCHANGED <<pressed, shown, result>>

\* Wrong on purpose: at the left edge of the field show_x stays.
ErasedAtEdge ==
  /\ InField /\ pos > 0
  /\ instr' = SubSeq(instr, 1, pos - 1) \o SubSeq(instr, pos + 1, len)
  /\ pos' = pos - 1 /\ show_x' = show_x
  /\ input_x' = (IF input_x = 0 THEN 0 ELSE input_x - 1)
  /\ field' = Redrawn(field, instr', show_x')

\* KEY_BACKSPACE.
Erase ==
  /\ InField /\ pos > 0
  /\ instr' = SubSeq(instr, 1, pos - 1) \o SubSeq(instr, pos + 1, len)
  /\ pos' = pos - 1
  /\ show_x' = (IF input_x = 0 THEN show_x - 1 ELSE show_x)
  /\ input_x' = (IF input_x = 0 THEN 0 ELSE input_x - 1)
  /\ field' = Redrawn(field, instr', show_x')

CursorLeft ==
  /\ InField /\ pos > 0 /\ pos' = pos - 1 /\ UNCHANGED instr
  /\ IF input_x > 0 THEN input_x' = input_x - 1 /\ UNCHANGED <<show_x, field>>
     ELSE show_x' = show_x - 1 /\ field' = Redrawn(field, instr, show_x - 1) /\ UNCHANGED input_x

CursorRight ==
  /\ InField /\ pos < len /\ pos' = pos + 1 /\ UNCHANGED instr
  /\ IF input_x < box_width - 1 THEN input_x' = input_x + 1 /\ UNCHANGED <<show_x, field>>
     ELSE show_x' = show_x + 1 /\ field' = Redrawn(field, instr, show_x + 1) /\ UNCHANGED input_x

\* A printable key; a text of MAX_LEN takes no more.
Typed(c) ==
  /\ InField /\ len < MAX_LEN
  /\ instr' = SubSeq(instr, 1, pos) \o <<c>> \o SubSeq(instr, pos + 1, len) /\ pos' = pos + 1
  /\ show_x' = (IF input_x = box_width - 1 THEN show_x + 1 ELSE show_x)
  /\ input_x' = (IF input_x = box_width - 1 THEN input_x ELSE input_x + 1)
  /\ field' = Redrawn(field, instr', show_x')

-----------------------------------------------------------------------------
(* Keys for the buttons. *)

Marked == IF pressed' = 1 THEN 1 ELSE 0

\* TAB, the arrows up and down, and at the buttons those to the side too.
FieldButton(b) ==
  /\ result = FieldOpen /\ b \in {-1, 0, 1} \ {pressed} /\ pressed' = b /\ shown' = Marked
  /\ UNCHANGED <<instr, pos, show_x, input_x, field, result>>

\* Enter, and at a button the space bar and the first letters.
LeaveField(r) ==
  /\ result = FieldOpen /\ result' = r
  /\ \/ r = (IF pressed = -1 THEN 0 ELSE pressed)
     \/ r \in {0, 1} /\ pressed # -1
     \/ r = EscKey
  /\ UNCHANGED <<instr, pos, show_x, input_x, pressed, shown, field>>

\* KEY_RESIZE: the text is kept, and the cursor goes behind it.
ResizeField == result = FieldOpen /\ ShowField(instr) /\ UNCHANGED <<instr, pressed>>

FieldNext ==
  \/ dialog_inputbox \/ Erase \/ CursorLeft \/ CursorRight \/ ResizeField
  \/ \E c \in Letters : Typed(c)
  \/ \E b \in {-1, 0, 1} : FieldButton(b)
  \/ \E r \in {0, 1, EscKey} : LeaveField(r)

FieldSpec == FieldInit /\ [][FieldNext]_fieldVars

-----------------------------------------------------------------------------
(* Properties. *)

FieldTypeOK ==
  /\ instr \in Seq(Letters) /\ len <= MAX_LEN /\ {pos, show_x, input_x} \subseteq Nat
  /\ pressed \in {-1, 0, 1} /\ shown \in {0, 1} /\ result \in {0, 1, EscKey, FieldOpen, FieldTooSmall}

\* The three counters agree: the cursor is in the field, in the text, and in the
\* cell of the letter that is typed over next.
CursorInField ==
  result = FieldOpen => pos = show_x + input_x /\ pos <= len /\ input_x < box_width

\* The cells show the text from show_x on and blanks behind it, although a key
\* draws only up to the first blank.
FieldShowsText ==
  result = FieldOpen =>
    \A i \in 0..box_width - 1 : field[i] = IF show_x + i < len THEN instr[show_x + i + 1] ELSE BlankCell

\* The box is a field as a user expects it, who sees neither pos nor what is
\* drawn anew: with show_x letters left of the field and the cursor in cell
\* input_x, a key puts in or takes out the letter at the cursor, moves the cursor
\* by one, and leaves in every cell what is in the text there (inputbox.c:119-230).
E == INSTANCE LineEdit WITH Limit <- MAX_LEN, Width <- box_width, Blank <- BlankCell,
       open <- result = FieldOpen, text <- instr, cells <- field, from <- show_x, cursor <- input_x
Edits == E!Spec
=============================================================================
