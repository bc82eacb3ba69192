------------------------------ MODULE Textbox --------------------------------
(***************************************************************************)
(* libs/lxdialog/textbox.c, the pager of menuconfig, and the loop of       *)
(* search_conf in mconf.c that opens it again after each jump to a result. *)
(* page is a place in the text, behind what is shown: the lines of a text  *)
(* are counted from 0, and place i is the start of line i, or the end of   *)
(* the text.  To show something else the code goes back by as many lines   *)
(* as it thinks to have printed, and two flags say whether the ends of the *)
(* text have been reached; end_reached also stands for the empty line that *)
(* was read behind the last newline.                                       *)
(***************************************************************************)
EXTENDS Integers, Sequences, FiniteSets

CONSTANTS Texts,     (* what is shown: of each text the number of newlines    *)
                     (*   lines, whether there is text behind the last one    *)
                     (*   rest, its kind, and the lines of search results     *)
                     (*   that can be jumped to                               *)
          PageHeights, (* the rows of a box that is as high as the display    *)
          JUMP_NB,   (* the keys for jumps                                    *)
          HScrollMax (* the columns that can be scrolled                      *)

Kinds == {"help", "note", "search"}
NoteHeight == 2      \* the rows of the largest of the short notes
NoLine == -1

End(t) == t.lines + (IF t.rest THEN 1 ELSE 0)

ASSUME TextboxAssumption ==
  /\ PageHeights \subseteq Nat \ {0} /\ JUMP_NB \in Nat \ {0} /\ HScrollMax \in Nat
  /\ \A t \in Texts :
       /\ t.lines \in Nat /\ t.rest \in BOOLEAN /\ t.kind \in Kinds /\ End(t) > 0
       /\ t.jumps \in Seq(0..t.lines - 1)
       /\ \A i, j \in DOMAIN t.jumps : i < j => t.jumps[i] < t.jumps[j]
       /\ t.jumps # <<>> => t.kind = "search"
       /\ t.kind = "search" => ~t.rest

VARIABLES text, boxh,
          page, begin_reached, end_reached, page_length, hscroll,
          page_screen,        \* the line in each row
          keys,               \* the keys offered, each with the line it stands at
          vscroll0, hscroll0, \* _vscroll and _hscroll, what a caller keeps
          page_ret            \* how the box was left

textVars == <<text, boxh, page, begin_reached, end_reached, page_length, hscroll,
              page_screen, keys, vscroll0, hscroll0, page_ret>>

Lower(a, b) == IF a < b THEN a ELSE b
Higher(a, b) == IF a > b THEN a ELSE b

-----------------------------------------------------------------------------
(* The place in the text, with its flags. *)

Place(p, b, e) == [page |-> p, begin |-> b, end |-> e]
Here == Place(page, begin_reached, end_reached)

\* get_line, n times.
GetLines(t, s, n) ==
  IF n = 0 THEN s
  ELSE Place(Lower(s.page + n, End(t)), s.begin, IF s.page + n > t.lines THEN 1 ELSE 0)

\* At the end of the text the line that told it counts as one.
back_lines(t, s, n) ==
  LET read == s.page = End(t) /\ s.end = 1 /\ n > 0
      m == IF read THEN n - 1 ELSE n
  IN  Place(Higher(s.page - m, 0), IF m > 0 /\ s.page - m <= 0 THEN 1 ELSE 0,
            IF read THEN 0 ELSE s.end)

KeyOf(i) == ((i - 1) % JUMP_NB) + 1

\* update_text of mconf.c: the first results of a page get the keys.
Offered(t, first, last) ==
  LET on == {i \in DOMAIN t.jumps : first <= t.jumps[i] /\ t.jumps[i] < last}
  IN  {[key |-> KeyOf(i), line |-> t.jumps[i]] :
         i \in {j \in on : Cardinality({k \in on : k < j}) < JUMP_NB}}

\* The rows are counted up to the one that told the end.  Search results are
\* gone through before, to put the keys in, which moves the last page up to
\* the end of the text.
print_page(t, s, h) ==
  LET ahead == GetLines(t, s, h)
      from == IF t.kind = "search" THEN back_lines(t, ahead, h) ELSE s
      to == GetLines(t, from, h)
  IN  /\ page' = to.page /\ begin_reached' = to.begin /\ end_reached' = to.end
      /\ page_length' = Higher(1, Lower(h, t.lines - from.page + 1))
      /\ page_screen' = [i \in 0..h - 1 |->
                           IF from.page + i < End(t) THEN from.page + i ELSE NoLine]
      /\ keys' = IF t.kind = "search" THEN Offered(t, from.page, ahead.page) ELSE {}

-----------------------------------------------------------------------------
(* Opening and leaving. *)

HeightOf(t, h) == IF t.kind = "note" THEN NoteHeight ELSE h

\* A box is shown from the first line, or from the line it was left at.
dialog_textbox(t, v) ==
  /\ text' = t
  /\ \E h \in PageHeights :
       /\ boxh' = HeightOf(t, h)
       /\ print_page(t, IF v = 0 THEN Place(0, 1, 0) ELSE GetLines(t, Place(0, 0, 0), v),
                     HeightOf(t, h))
  /\ page_ret' = "open"

TextInit ==
  /\ text \in Texts /\ boxh = 0 /\ page = 0 /\ begin_reached = 1 /\ end_reached = 0
  /\ page_length = 0 /\ hscroll = 0 /\ page_screen = <<>> /\ keys = {}
  /\ vscroll0 = 0 /\ hscroll0 = 0 /\ page_ret = "left"

TextOpen ==
  /\ page_ret \in {"left", "too small"} /\ vscroll0' = 0 /\ hscroll0' = 0 /\ hscroll' = 0
  /\ \E t \in Texts : dialog_textbox(t, 0)

\* Wrong on purpose: the line is counted that the page begins with.
SavedNext == vscroll0' = Lower(back_lines(text, Here, page_length).page, text.lines) + 1

\* The newlines before the page that was shown.
Saved == vscroll0' = Lower(back_lines(text, Here, page_length).page, text.lines)

LeaveText(r) ==
  /\ page_ret = "open" /\ page_ret' = r /\ Saved /\ hscroll0' = hscroll
  /\ LET s == back_lines(text, Here, page_length)
     IN  page' = s.page /\ begin_reached' = s.begin /\ end_reached' = s.end
  /\ UNCHANGED <<text, boxh, page_length, hscroll, page_screen, keys>>

TextExit == LeaveText("left")
TextJump == text.kind = "search" /\ keys # {} /\ LeaveText("jump")

\* search_conf: the results are made anew, and the box is where it was.
TextAgain ==
  /\ page_ret = "jump" /\ hscroll' = hscroll0 /\ UNCHANGED <<vscroll0, hscroll0>>
  /\ \E t \in Texts : t.kind = "search" /\ dialog_textbox(t, vscroll0)

-----------------------------------------------------------------------------
(* Keys. *)

TextShown == page_ret = "open" /\ UNCHANGED <<text, boxh, vscroll0, hscroll0, page_ret>>
From(s) == print_page(text, s, boxh)

\* A key that goes up is refused on the first line, one that goes down at the end.
Moves(s) == TextShown /\ UNCHANGED hscroll /\ From(s)
Upwards(s) == begin_reached = 0 /\ Moves(s)
Downwards(s) == end_reached = 0 /\ Moves(s)

Home == Upwards(Place(0, 1, end_reached))
EndKey == Moves(back_lines(text, Place(End(text), begin_reached, 1), boxh))
LineUp == Upwards(back_lines(text, Here, page_length + 1))
TextPageUp == Upwards(back_lines(text, Here, page_length + boxh))
LineDown == Downwards(back_lines(text, Here, page_length - 1))
TextPageDown == Downwards(Place(page, 0, end_reached))

\* 0, H and L.
Sideways ==
  /\ TextShown /\ hscroll' \in 0..HScrollMax
  /\ hscroll' \in {0, hscroll - 1, hscroll + 1} \ {hscroll}
  /\ From(back_lines(text, Here, page_length))

\* KEY_RESIZE goes back by the height of the box, which has four rows more
\* than are shown.
TextResize ==
  /\ page_ret = "open" /\ UNCHANGED <<text, hscroll, vscroll0, hscroll0>>
  /\ LET s == back_lines(text, Here, boxh + 4) IN
     \/ /\ \E h \in PageHeights : boxh' = HeightOf(text, h) /\ print_page(text, s, boxh')
        /\ UNCHANGED page_ret
     \/ /\ page_ret' = "too small"
        /\ page' = s.page /\ begin_reached' = s.begin /\ end_reached' = s.end
        /\ UNCHANGED <<boxh, page_length, page_screen, keys>>

TextNext ==
  \/ TextOpen \/ TextExit \/ TextJump \/ TextAgain
  \/ Home \/ EndKey \/ LineUp \/ TextPageUp \/ LineDown \/ TextPageDown
  \/ Sideways \/ TextResize

TextSpec == TextInit /\ [][TextNext]_textVars

-----------------------------------------------------------------------------
(* Properties.  top is the line of the first row, or the end of the text. *)

top == IF page_screen[0] = NoLine THEN End(text) ELSE page_screen[0]

TextTypeOK ==
  /\ text \in Texts /\ boxh \in PageHeights \cup {0, NoteHeight} /\ page \in 0..End(text)
  /\ {begin_reached, end_reached} \subseteq {0, 1} /\ page_length \in 0..boxh
  /\ hscroll \in 0..HScrollMax /\ hscroll0 \in 0..HScrollMax /\ vscroll0 \in Nat
  /\ \A k \in keys : k.key \in 1..JUMP_NB

\* The keys that go up are refused exactly if the first line is on top, and those
\* that go down only if nothing is below what is shown (begin_reached and
\* end_reached, which back_lines and get_line change on the way).
EndsTold ==
  page_ret = "open" =>
    /\ begin_reached = 1 <=> top = 0
    /\ end_reached = 1 => top + boxh >= End(text)

\* A text that ends in a newline moves by one line, by one page, and over no line
\* that was not shown; the last page of search results is moved up to end with
\* the text (back_lines(page_length +- ...)).
MovesByLines ==
  [][ ~text.rest =>
      /\ LineUp => top' = top - 1
      /\ LineDown => top' = top + 1
      /\ TextPageUp => top' = Higher(top - boxh, 0)
      /\ TextPageDown =>
           top' = (IF text.kind = "search"
                   THEN Lower(top + boxh, Higher(End(text) - boxh + 1, 0))
                   ELSE top + boxh) ]_textVars

\* Every key on the screen stands at one result there and at no other, and no
\* result is without one as long as there are keys ("Press the key in the (#)
\* prefix to jump directly to that location", search_help).
KeysMatch ==
  page_ret = "open" =>
    LET rows == {page_screen[i] : i \in DOMAIN page_screen}
        results == {text.jumps[i] : i \in DOMAIN text.jumps} \cap rows
    IN  /\ \A k \in keys : k.line \in results
        /\ \A k, l \in keys : k.key = l.key => k = l
        /\ Cardinality(keys) = Lower(Cardinality(results), JUMP_NB)

\* "You will be returned to the current search results after exiting this new
\* menu" (search_help): on the page that was left.
ReturnsToPage ==
  [][ TextAgain /\ text' = text /\ boxh' = boxh =>
        page_screen' = page_screen /\ hscroll' = hscroll ]_textVars

\* "Reprint current page to scroll horizontally" (textbox.c:223): so it is in a
\* text that ends in a newline.
SidewaysKeepsPage ==
  [][ Sideways /\ ~text.rest => page_screen' = page_screen ]_textVars

\* The pager moves by lines and pages over no line that was not shown, refuses
\* keys only at the ends, offers each key for one result, and comes back from a
\* jump to the page it was on (textbox.c, update_text and search_conf).
PageFollows ==
  /\ [](EndsTold /\ KeysMatch)
  /\ MovesByLines /\ ReturnsToPage /\ SidewaysKeepsPage
=============================================================================
