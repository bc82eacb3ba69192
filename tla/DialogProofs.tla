---------------------------- MODULE DialogProofs -----------------------------
(***************************************************************************)
(* The menu box for lists of every length and boxes of every height: the   *)
(* highlighted row stays in the window and the window in the list, and the *)
(* keys move the highlight as they should.  All of it is arithmetic of     *)
(* scroll, choice and the two sizes, of which Window says how they stand   *)
(* to each other.                                                          *)
(*                                                                         *)
(* The input box for texts and fields of every length: the counters of the *)
(* cursor agree, the field shows the text, and the box implements          *)
(* LineEdit.                                                               *)
(*                                                                         *)
(* The list of a choice for lists of every length: what it chooses is the  *)
(* value in the highlighted row.  The pager for texts of every length and  *)
(* boxes of every height: each state is a page of which all variables      *)
(* follow from its first line, and the keys take it to the page they name. *)
(***************************************************************************)
EXTENDS Menubox, Inputbox, Checklist, Textbox, WellFoundedInduction, SequenceTheorems,
        FiniteSetTheorems, TLAPS

-----------------------------------------------------------------------------
(* The menu box. *)

\* The window of m rows lies in a list of n items, and the row in the window.
Window(s, c, m, n) ==
  /\ s \in Nat /\ c \in Nat /\ s + m <= n
  /\ IF n = 0 THEN c = 0 ELSE c < m

Rowcount(h, n) == IF h < n THEN h ELSE n

\* What holds of the types, as far as the window depends on them.
BoxTypes ==
  /\ listed \in Lists /\ height \in Heights /\ s_scroll \in Nat /\ choice \in Nat /\ scroll \in Nat
  /\ boxRet \in 0..10 \cup {BoxOpen, KEY_ESC, BoxTooSmall} /\ button \in 0..4

\* A box that is shown has a row at least, and the highlight in its window.
BoxFrame == BoxTypes /\ (boxRet # BoxTooSmall => height > 0 /\ Window(scroll, choice, max_choice, item_count))

\* The rows from s on are drawn.
Drawing(scr, s, m) == DOMAIN scr = 0..m - 1 /\ \A i \in 0..m - 1 : scr[i] = s + i

RowsDrawn == boxRet = BoxOpen /\ ~resized => Drawing(screen, scroll, max_choice)

\* A box that was left for a command has put its position into s_scroll.
PositionLeft == boxRet \notin {BoxOpen, 1, KEY_ESC, BoxTooSmall} => s_scroll = scroll

\* The inductive invariant.
BoxIInv == BoxFrame /\ RowsDrawn /\ PositionLeft

USE MenuboxAssumption DEF KEY_ESC, BoxTooSmall, BoxOpen

\* A list is a sequence.
LEMMA ListLen == ASSUME NEW l \in Lists PROVE Len(l) \in Nat /\ DOMAIN l = 1..Len(l)
  <1>1. l \in Seq({l[i] : i \in DOMAIN l})  OBVIOUS
  <1>. QED  BY <1>1

\* Wherever the box stood and whatever position was saved, it is laid out with
\* the highlight in the window and the window in the list.
LEMMA LayoutWindow ==
  ASSUME NEW its \in Lists, NEW sel, NEW saved \in Nat, NEW h \in Nat, h > 0,
         NEW c0 \in Nat, NEW f0, IF Len(its) = 0 THEN c0 = 0 ELSE c0 < Len(its)
  PROVE  LET l == Layout(its, sel, saved, h, c0, f0)
         IN  Window(l.scroll, l.choice, Rowcount(h, Len(its)), Len(its))
  <1> DEFINE n == Len(its)
             m == IF h < n THEN h ELSE n
             c == IF \E i \in 1..n : its[i].d = sel THEN (CHOOSE i \in 1..n : its[i].d = sel) - 1 ELSE c0
             good == saved <= c /\ saved + m > c /\ saved >= 0 /\ saved + m <= n
             mid == IF c >= n - (m \div 2) THEN n - m ELSE c - (m \div 2)
             l == Layout(its, sel, saved, h, c0, f0)
  <1>n. n \in Nat  BY ListLen
  <1>c. c \in Nat /\ IF n = 0 THEN c = 0 ELSE c < n
    <2>1. CASE \E i \in 1..n : its[i].d = sel
      <3>1. (CHOOSE i \in 1..n : its[i].d = sel) \in 1..n  BY <2>1
      <3>. QED  BY <2>1, <3>1, <1>n
    <2>2. CASE ~\E i \in 1..n : its[i].d = sel  BY <2>2
    <2>. QED  BY <2>1, <2>2
  <1>m. m \in Nat /\ m <= n /\ (n > 0 => m > 0)  BY <1>n
  <1>l. l = IF good THEN [scroll |-> saved, first |-> saved, choice |-> c - saved]
            ELSE IF c >= m THEN [scroll |-> mid, first |-> mid, choice |-> c - mid]
            ELSE [scroll |-> 0, first |-> f0, choice |-> c]
    BY DEF Layout
  <1> HIDE DEF n, c, m, l
  <1>1. CASE good
    <2>1. l.scroll = saved /\ l.choice = c - saved  BY <1>1, <1>l
    <2>. QED  BY <1>1, <2>1, <1>n, <1>c, <1>m DEF Window, Rowcount, m, n, l
  <1>2. CASE ~good /\ c >= m
    <2>1. l.scroll = mid /\ l.choice = c - mid  BY <1>2, <1>l
    <2>2. Window(mid, c - mid, m, n)  BY <1>2, <1>n, <1>c, <1>m, SMTT(30) DEF Window
    <2>. QED  BY <2>1, <2>2 DEF Rowcount, m, n, l
  <1>3. CASE ~good /\ c < m
    <2>1. l.scroll = 0 /\ l.choice = c  BY <1>3, <1>l, <1>c, <1>m
    <2>2. Window(0, c, m, n)  BY <1>3, <1>n, <1>c, <1>m DEF Window
    <2>. QED  BY <2>1, <2>2 DEF Rowcount, m, n, l
  <1>. QED  BY <1>1, <1>2, <1>3, <1>c, <1>m

\* The same of a box that is shown.
LEMMA ShowWindow ==
  ASSUME NEW its \in Lists, NEW sel, NEW saved \in Nat, NEW h \in Heights,
         NEW c0 \in Nat, NEW f0, IF Len(its) = 0 THEN c0 = 0 ELSE c0 < Len(its),
         scroll \in Nat, choice \in Nat,
         Show(its, sel, saved, h, c0, f0)
  PROVE  /\ boxRet' \in {BoxOpen, BoxTooSmall} /\ scroll' \in Nat /\ choice' \in Nat
         /\ boxRet' # BoxTooSmall => h > 0 /\ Window(scroll', choice', Rowcount(h, Len(its)), Len(its))
  <1>1. CASE h = 0  BY <1>1 DEF Show
  <1>2. CASE h # 0
    <2>1. h \in Nat /\ h > 0  BY <1>2
    <2>2. LET l == Layout(its, sel, saved, h, c0, f0)
          IN  Window(l.scroll, l.choice, Rowcount(h, Len(its)), Len(its))
      BY <2>1, LayoutWindow
    <2>3. boxRet' = BoxOpen /\ LET l == Layout(its, sel, saved, h, c0, f0) IN scroll' = l.scroll /\ choice' = l.choice
      BY <1>2 DEF Show
    <2>. QED  BY <2>1, <2>2, <2>3 DEF Window
  <1>. QED  BY <1>1, <1>2

LEMMA BoxInitFrame == MenuInit => BoxFrame
  <1> SUFFICES ASSUME MenuInit PROVE BoxFrame  OBVIOUS
  <1>1. Len(listed) \in Nat /\ height \in Nat /\ height > 0  BY ListLen DEF MenuInit
  <1>. QED  BY <1>1 DEF MenuInit, BoxFrame, BoxTypes, Window, max_choice, item_count

\* What the keys need to know of the sizes.
LEMMA Sizes ==
  ASSUME BoxFrame, boxRet = BoxOpen
  PROVE  /\ item_count \in Nat /\ max_choice \in Nat /\ max_choice <= item_count
         /\ item_count # 0 => max_choice > 0
         /\ scroll \in Nat /\ choice \in Nat /\ scroll + max_choice <= item_count
         /\ IF item_count = 0 THEN choice = 0 ELSE choice < max_choice
  <1>a. listed \in Lists  BY DEF BoxFrame, BoxTypes
  <1>b. height \in Nat  BY DEF BoxFrame, BoxTypes
  <1>c. height > 0 /\ Window(scroll, choice, max_choice, item_count)  BY DEF BoxFrame
  <1>d. scroll \in Nat /\ choice \in Nat  BY DEF BoxFrame, BoxTypes
  <1>1. Len(listed) \in Nat  BY <1>a, ListLen
  <1>. QED  BY <1>b, <1>c, <1>d, <1>1 DEF Window, max_choice, item_count

\* Where the page keys go.
LEMMA PageUpMoves ==
  ASSUME BoxFrame, PageUp
  PROVE  /\ Window(scroll', choice', max_choice, item_count)
         /\ \/ scroll' + choice' = Highlighted - max_choice
            \/ scroll' + choice' = 0 /\ Highlighted <= max_choice
  <1> DEFINE n == IF scroll < max_choice THEN scroll ELSE max_choice
             up == max_choice - n
  <1>1. scroll' = scroll - n /\ choice' = (IF up < choice THEN choice - up ELSE 0) /\ item_count # 0 /\ boxRet = BoxOpen
    BY DEF PageUp, Key
  <1>2. n \in Nat /\ n <= scroll /\ n <= max_choice /\ (n = scroll \/ n = max_choice)  BY <1>1, Sizes
  <1>s. /\ item_count \in Nat /\ max_choice \in Nat /\ scroll \in Nat /\ choice \in Nat
        /\ scroll + max_choice <= item_count /\ choice < max_choice
    BY <1>1, Sizes
  <1> HIDE DEF n
  <1>3. scroll' \in Nat /\ choice' \in Nat /\ scroll' + max_choice <= item_count /\ choice' < max_choice
    BY <1>1, <1>2, <1>s
  <1>w. Window(scroll', choice', max_choice, item_count)  BY <1>1, <1>3 DEF Window
  <1>4. \/ scroll' + choice' = Highlighted - max_choice
        \/ scroll' + choice' = 0 /\ Highlighted <= max_choice
    BY <1>1, <1>2, <1>s DEF Highlighted
  <1>. QED  BY <1>w, <1>4

LEMMA PageDownMoves ==
  ASSUME BoxFrame, PageDown
  PROVE  /\ Window(scroll', choice', max_choice, item_count)
         /\ \/ scroll' + choice' = Highlighted + max_choice
            \/ scroll' + choice' = item_count - 1 /\ (scroll' + choice') - Highlighted <= max_choice
  <1> DEFINE rest == item_count - max_choice - scroll
             n == IF rest < max_choice THEN rest ELSE max_choice
             down == max_choice - n
  <1>1. /\ scroll' = scroll + n
        /\ choice' = (IF choice + down < max_choice THEN choice + down ELSE max_choice - 1)
        /\ item_count # 0 /\ boxRet = BoxOpen
    BY DEF PageDown, Key
  <1>2. n \in Nat /\ n <= rest /\ n <= max_choice /\ (n = rest \/ n = max_choice)  BY <1>1, Sizes
  <1>s. /\ item_count \in Nat /\ max_choice \in Nat /\ scroll \in Nat /\ choice \in Nat
        /\ scroll + max_choice <= item_count /\ choice < max_choice
    BY <1>1, Sizes
  <1> HIDE DEF n
  <1>3. scroll' \in Nat /\ choice' \in Nat /\ scroll' + max_choice <= item_count /\ choice' < max_choice
    BY <1>1, <1>2, <1>s
  <1>w. Window(scroll', choice', max_choice, item_count)  BY <1>1, <1>3 DEF Window
  <1>4. \/ scroll' + choice' = Highlighted + max_choice
        \/ scroll' + choice' = item_count - 1 /\ (scroll' + choice') - Highlighted <= max_choice
    BY <1>1, <1>2, <1>s DEF Highlighted
  <1>. QED  BY <1>w, <1>4

\* Of some natural numbers one is the least.
LEMMA LeastExists ==
  ASSUME NEW S, S \subseteq Nat, S # {}
  PROVE  \E i \in S : \A j \in S : i <= j
  <1>1. PICK i \in S : \A j \in S : ~(<<j, i>> \in OpToRel(<, Nat))
    BY NatLessThanWellFounded, WFMin
  <1>2. \A j \in S : ~(j < i)  BY <1>1 DEF OpToRel
  <1>. QED  BY <1>2

\* A row found by its letter is a row of the window.
LEMMA NextRowInWindow ==
  ASSUME BoxFrame, boxRet = BoxOpen, NEW l, IsHot(l)
  PROVE  NextRow(l) \in Rows(l) /\ Rows(l) \subseteq 0..max_choice - 1 /\ item_count # 0
  <1> DEFINE below == {i \in Rows(l) : i > choice}
             S == IF below # {} THEN below ELSE Rows(l)
  <1>1. Rows(l) \subseteq 0..max_choice - 1 /\ Rows(l) # {}  BY DEF Rows, IsHot
  <1>2. S \subseteq Rows(l) /\ S # {}  BY <1>1
  <1>3. S \subseteq Nat  BY <1>1, <1>2, Sizes
  <1>4. \E i \in S : \A j \in S : i <= j  BY <1>2, <1>3, LeastExists
  <1>5. NextRow(l) \in S  BY <1>4 DEF NextRow, FirstOf
  <1>6. item_count # 0  BY <1>1, Sizes
  <1>. QED  BY <1>1, <1>2, <1>5, <1>6

\* Every action keeps the window in place.
LEMMA BoxStepFrame == BoxFrame /\ [MenuNext]_menuVars => BoxFrame'
  <1> SUFFICES ASSUME BoxFrame, [MenuNext]_menuVars PROVE BoxFrame'  OBVIOUS
  <1>t. /\ listed \in Lists /\ height \in Nat /\ height \in Heights /\ s_scroll \in Nat
        /\ choice \in Nat /\ scroll \in Nat /\ button \in 0..4
    BY DEF BoxFrame, BoxTypes
  <1>k. ASSUME listed' = listed, height' = height, s_scroll' \in Nat, boxRet = BoxOpen, button' \in 0..4,
               boxRet' \in 0..10 \cup {BoxOpen, KEY_ESC},
               Window(scroll', choice', max_choice, item_count)
        PROVE  BoxFrame'
    <2>1. max_choice' = max_choice /\ item_count' = item_count  BY <1>k DEF max_choice, item_count
    <2>2. height > 0  BY <1>k DEF BoxFrame
    <2>. QED  BY <1>t, <1>k, <2>1, <2>2 DEF BoxFrame, BoxTypes, Window
  <1>w. boxRet = BoxOpen => Window(scroll, choice, max_choice, item_count)  BY DEF BoxFrame
  <1>1. CASE OpenMenu
    <2>1. PICK l \in Lists, h \in Heights :
            \E sel \in {NoEntry} \cup {l[i].d : i \in DOMAIN l}, saved \in 0..Len(l) :
              /\ listed' = l /\ height' = h /\ s_scroll' = saved
              /\ Show(l, sel, saved, h, 0, 0)
      BY <1>1 DEF OpenMenu
    <2>2. PICK sel \in {NoEntry} \cup {l[i].d : i \in DOMAIN l}, saved \in 0..Len(l) :
            listed' = l /\ height' = h /\ s_scroll' = saved /\ Show(l, sel, saved, h, 0, 0)
      BY <2>1
    <2>3. Len(l) \in Nat /\ saved \in Nat  BY ListLen
    <2>4. /\ boxRet' \in {BoxOpen, BoxTooSmall} /\ scroll' \in Nat /\ choice' \in Nat
          /\ boxRet' # BoxTooSmall => h > 0 /\ Window(scroll', choice', Rowcount(h, Len(l)), Len(l))
      BY <1>t, <2>2, <2>3, ShowWindow
    <2>5. button' = 0  BY <1>1 DEF OpenMenu
    <2>. QED  BY <2>1, <2>2, <2>3, <2>4, <2>5 DEF BoxFrame, BoxTypes, Rowcount, max_choice, item_count
  <1>2. CASE Redisplay
    <2> DEFINE sel == IF item_count = 0 THEN NoEntry ELSE listed[Highlighted + 1].d
    <2>1. PICK l \in Lists : listed' = l /\ Show(l, sel, s_scroll, height, 0, 0)  BY <1>2 DEF Redisplay
    <2> HIDE DEF sel
    <2>2. Len(l) \in Nat  BY ListLen
    <2>3. /\ boxRet' \in {BoxOpen, BoxTooSmall} /\ scroll' \in Nat /\ choice' \in Nat
          /\ boxRet' # BoxTooSmall => height > 0 /\ Window(scroll', choice', Rowcount(height, Len(l)), Len(l))
      BY <1>t, <2>1, <2>2, ShowWindow
    <2>4. button' = 0 /\ height' = height /\ s_scroll' = s_scroll  BY <1>2 DEF Redisplay
    <2>. QED  BY <1>t, <2>1, <2>3, <2>4 DEF BoxFrame, BoxTypes, Rowcount, max_choice, item_count
  <1>3. CASE Resize
    <2>1. PICK h \in Heights : height' = h /\ Show(listed, selected, s_scroll, h, choice, first_item)
      BY <1>3 DEF Resize
    <2>2. IF Len(listed) = 0 THEN choice = 0 ELSE choice < Len(listed)
      BY <1>3, Sizes DEF Resize, item_count
    <2>3. /\ boxRet' \in {BoxOpen, BoxTooSmall} /\ scroll' \in Nat /\ choice' \in Nat
          /\ boxRet' # BoxTooSmall => h > 0 /\ Window(scroll', choice', Rowcount(h, Len(listed)), Len(listed))
      BY <1>t, <2>1, <2>2, ShowWindow
    <2>4. listed' = listed /\ button' = button /\ s_scroll' = s_scroll  BY <1>3 DEF Resize
    <2>. QED  BY <1>t, <2>1, <2>3, <2>4 DEF BoxFrame, BoxTypes, Rowcount, max_choice, item_count
  <1>4. CASE Up
    <2>1. Window(scroll', choice', max_choice, item_count)  BY <1>4, Sizes DEF Up, Key, Window
    <2>. QED  BY <1>4, <1>k, <1>t, <2>1 DEF Up, Key, Stays
  <1>5. CASE Down
    <2>1. Window(scroll', choice', max_choice, item_count)  BY <1>5, Sizes DEF Down, Key, Window
    <2>. QED  BY <1>5, <1>k, <1>t, <2>1 DEF Down, Key, Stays
  <1>6. CASE PageUp
    <2>1. Window(scroll', choice', max_choice, item_count)  BY <1>6, PageUpMoves
    <2>. QED  BY <1>6, <1>k, <1>t, <2>1 DEF PageUp, Key, Stays
  <1>7. CASE PageDown
    <2>1. Window(scroll', choice', max_choice, item_count)  BY <1>7, PageDownMoves
    <2>. QED  BY <1>7, <1>k, <1>t, <2>1 DEF PageDown, Key, Stays
  <1>8. CASE Esc
    <2>1. boxRet = BoxOpen /\ boxRet' \in {boxRet, KEY_ESC} /\ UNCHANGED <<listed, s_scroll, height, scroll, choice, button>>
      BY <1>8 DEF Esc
    <2>. QED  BY <1>k, <1>t, <1>w, <2>1
  <1>9. ASSUME NEW k \in Keys, Hotkey(k)  PROVE BoxFrame'
    <2>1. boxRet = BoxOpen /\ IsHot(k) /\ choice' = NextRow(k) /\ scroll' = scroll  BY <1>9 DEF Hotkey, Key
    <2>2. choice' \in 0..max_choice - 1 /\ item_count # 0  BY <2>1, NextRowInWindow
    <2>3. Window(scroll', choice', max_choice, item_count)  BY <2>1, <2>2, Sizes DEF Window
    <2>. QED  BY <1>9, <1>k, <1>t, <2>1, <2>3 DEF Hotkey, Key, Stays
  <1>10. ASSUME NEW k \in Keys, Button(k)  PROVE BoxFrame'
    <2>1. button' \in 0..4  BY <1>10, <1>t DEF Button
    <2>. QED  BY <1>10, <1>k, <1>t, <1>w, <2>1 DEF Button, Key
  <1>11. ASSUME NEW k \in Keys, Command(k)  PROVE BoxFrame'
    <2>1. Returns(k) \in 0..10  BY <1>11, <1>t DEF Command, Commands, Returns
    <2>. QED  BY <1>11, <1>k, <1>t, <1>w, <2>1 DEF Command, Key
  <1>12. ASSUME NEW k \in Keys, Leave(k) \/ Ignored(k)  PROVE BoxFrame'
    BY <1>12, <1>k, <1>t, <1>w DEF Leave, Ignored, Key
  <1>13. CASE UNCHANGED menuVars  BY <1>13 DEF menuVars, BoxFrame, BoxTypes, Window, max_choice, item_count
  <1>. QED
    BY <1>1, <1>2, <1>3, <1>4, <1>5, <1>6, <1>7, <1>8, <1>9, <1>10, <1>11, <1>12, <1>13 DEF MenuNext

-----------------------------------------------------------------------------
(* What is drawn, and where a box is opened again. *)

\* A window that is not drawn where it was before begins at the item it selects.
LEMMA LayoutFirst ==
  ASSUME NEW its, NEW sel, NEW saved, NEW h, NEW c0
  PROVE  LET l == Layout(its, sel, saved, h, c0, 0) IN l.first = l.scroll
  BY DEF Layout

LEMMA ShowDraws ==
  ASSUME NEW its \in Lists, NEW sel, NEW saved \in Nat, NEW h \in Heights,
         Show(its, sel, saved, h, 0, 0), boxRet' = BoxOpen
  PROVE  Drawing(screen', scroll', Rowcount(h, Len(its)))
  <1> DEFINE l == Layout(its, sel, saved, h, 0, 0)
  <1>1. scroll' = l.scroll /\ screen' = [i \in 0..Rowcount(h, Len(its)) - 1 |-> l.first + i]
    BY DEF Show, Rowcount
  <1>2. l.first = l.scroll  BY LayoutFirst
  <1> HIDE DEF l
  <1>. QED  BY <1>1, <1>2 DEF Drawing

LEMMA BoxInitIInv == MenuInit => BoxIInv
  <1> SUFFICES ASSUME MenuInit PROVE BoxIInv  OBVIOUS
  <1>1. BoxFrame  BY BoxInitFrame
  <1>2. Len(listed) \in Nat /\ height \in Nat  BY ListLen DEF MenuInit
  <1>3. RowsDrawn  BY <1>2 DEF MenuInit, RowsDrawn, Drawing, max_choice, item_count
  <1>4. PositionLeft  BY DEF MenuInit, PositionLeft
  <1>. QED  BY <1>1, <1>3, <1>4 DEF BoxIInv

\* A step that keeps the list, the height and the drawn rows keeps the drawing.
LEMMA SameRows ==
  ASSUME RowsDrawn, boxRet = BoxOpen, UNCHANGED <<listed, height, scroll, screen, resized>>
  PROVE  RowsDrawn'
  BY DEF RowsDrawn, max_choice, item_count

\* After a key the rows are drawn as they are selected: those that were moved,
\* those that came into view, and the two that are drawn again.
LEMMA KeyDraws ==
  ASSUME BoxFrame, RowsDrawn, boxRet = BoxOpen, ~resized,
         Up \/ Down \/ PageUp \/ PageDown \/ \E k \in Keys : Hotkey(k)
  PROVE  Drawing(screen', scroll', max_choice)
  <1>s. /\ item_count \in Nat /\ max_choice \in Nat /\ max_choice <= item_count
        /\ scroll \in Nat /\ choice \in Nat /\ scroll + max_choice <= item_count
    BY Sizes
  <1>d. Drawing(screen, scroll, max_choice)  BY DEF RowsDrawn
  <1>b. Drawing(Before, scroll, max_choice)  BY <1>d, <1>s DEF Before, Drawing
  <1>h. ASSUME NEW scr, Highlight(scr), DOMAIN scr = 0..max_choice - 1,
               \A i \in 0..max_choice - 1 : scr[i] = scroll' + i \/ (i = choice' /\ scroll' = scroll)
        PROVE  Drawing(screen', scroll', max_choice)
    BY <1>h, <1>s DEF Highlight, Drawn, Drawing
  <1>1. CASE Up
    <2>1. CASE choice < 2 /\ scroll > 0
      <3>1. scroll' = scroll - 1 /\ Highlight(ScrolledUp)  BY <1>1, <2>1 DEF Up
      <3>2. Drawing(ScrolledUp, scroll - 1, max_choice)  BY <1>d, <1>s, SMTT(30) DEF ScrolledUp, Drawing
      <3>. QED  BY <3>1, <3>2, <1>h DEF Drawing
    <2>2. CASE ~(choice < 2 /\ scroll > 0)
      <3>1. scroll' = scroll /\ Highlight(Before)  BY <1>1, <2>2 DEF Up
      <3>. QED  BY <3>1, <1>b, <1>h DEF Drawing
    <2>. QED  BY <2>1, <2>2
  <1>2. CASE Down
    <2>1. CASE choice > max_choice - 3 /\ scroll + max_choice < item_count
      <3>1. scroll' = scroll + 1 /\ Highlight(ScrolledDown)  BY <1>2, <2>1 DEF Down
      <3>2. Drawing(ScrolledDown, scroll + 1, max_choice)  BY <1>d, <1>s, SMTT(30) DEF ScrolledDown, Drawing
      <3>. QED  BY <3>1, <3>2, <1>h DEF Drawing
    <2>2. CASE ~(choice > max_choice - 3 /\ scroll + max_choice < item_count)
      <3>1. scroll' = scroll /\ Highlight(Before)  BY <1>2, <2>2 DEF Down
      <3>. QED  BY <3>1, <1>b, <1>h DEF Drawing
    <2>. QED  BY <2>1, <2>2
  <1>3. CASE PageUp
    <2> DEFINE n == IF scroll < max_choice THEN scroll ELSE max_choice
               scr == [i \in DOMAIN screen |-> IF i < n THEN scroll - n + i ELSE Before[i - n]]
    <2>1. scroll' = scroll - n /\ Highlight(scr)  BY <1>3 DEF PageUp
    <2>2. n \in Nat /\ n <= max_choice /\ n <= scroll  BY <1>s
    <2> HIDE DEF n
    <2>3. Drawing(scr, scroll - n, max_choice)
      <3>1. DOMAIN scr = 0..max_choice - 1  BY <1>d DEF Drawing
      <3>2. ASSUME NEW i \in 0..max_choice - 1  PROVE scr[i] = scroll - n + i
        BY <1>b, <1>d, <1>s, <2>2 DEF Drawing
      <3>. QED  BY <3>1, <3>2 DEF Drawing
    <2> HIDE DEF scr
    <2>. QED  BY <2>1, <2>3, <1>h DEF Drawing
  <1>4. CASE PageDown
    <2> DEFINE rest == item_count - max_choice - scroll
               n == IF rest < max_choice THEN rest ELSE max_choice
               scr == [i \in DOMAIN screen |-> IF i + n < max_choice THEN Before[i + n] ELSE scroll + n + i]
    <2>1. scroll' = scroll + n /\ Highlight(scr)  BY <1>4 DEF PageDown
    <2>2. n \in Nat /\ n <= max_choice  BY <1>s
    <2> HIDE DEF n
    <2>3. Drawing(scr, scroll + n, max_choice)
      <3>1. DOMAIN scr = 0..max_choice - 1  BY <1>d DEF Drawing
      <3>2. ASSUME NEW i \in 0..max_choice - 1  PROVE scr[i] = scroll + n + i
        BY <1>b, <1>d, <1>s, <2>2 DEF Drawing
      <3>. QED  BY <3>1, <3>2 DEF Drawing
    <2> HIDE DEF scr
    <2>. QED  BY <2>1, <2>3, <1>h DEF Drawing
  <1>5. ASSUME NEW k \in Keys, Hotkey(k)  PROVE Drawing(screen', scroll', max_choice)
    <2>1. scroll' = scroll /\ Highlight(Before)  BY <1>5 DEF Hotkey
    <2>. QED  BY <2>1, <1>b, <1>h DEF Drawing
  <1>. QED  BY <1>1, <1>2, <1>3, <1>4, <1>5

\* Every action keeps the drawing and the position that was left.
LEMMA BoxStepIInv == BoxIInv /\ [MenuNext]_menuVars => BoxIInv'
  <1> SUFFICES ASSUME BoxIInv, [MenuNext]_menuVars PROVE BoxIInv'  OBVIOUS
  <1>f. BoxFrame /\ RowsDrawn /\ PositionLeft  BY DEF BoxIInv
  <1>g. BoxFrame'  BY <1>f, BoxStepFrame
  <1> SUFFICES RowsDrawn' /\ PositionLeft'  BY <1>g DEF BoxIInv
  <1>1. CASE OpenMenu
    <2>1. PICK l \in Lists, h \in Heights :
            \E sel \in {NoEntry} \cup {l[i].d : i \in DOMAIN l}, saved \in 0..Len(l) :
              listed' = l /\ height' = h /\ Show(l, sel, saved, h, 0, 0)
      BY <1>1 DEF OpenMenu
    <2>2. PICK sel \in {NoEntry} \cup {l[i].d : i \in DOMAIN l}, saved \in 0..Len(l) :
            listed' = l /\ height' = h /\ Show(l, sel, saved, h, 0, 0)
      BY <2>1
    <2>3. saved \in Nat  BY ListLen
    <2>4. boxRet' = BoxOpen => Drawing(screen', scroll', Rowcount(h, Len(l)))  BY <2>2, <2>3, ShowDraws
    <2>5. boxRet' \in {BoxOpen, BoxTooSmall}  BY <2>2 DEF Show
    <2>. QED  BY <2>2, <2>4, <2>5 DEF RowsDrawn, PositionLeft, Rowcount, max_choice, item_count
  <1>2. CASE Redisplay
    <2> DEFINE sel == IF item_count = 0 THEN NoEntry ELSE listed[Highlighted + 1].d
    <2>1. PICK l \in Lists : listed' = l /\ Show(l, sel, s_scroll, height, 0, 0)  BY <1>2 DEF Redisplay
    <2>2. s_scroll \in Nat /\ height \in Heights /\ height' = height  BY <1>2, <1>f DEF BoxFrame, BoxTypes, Redisplay
    <2> HIDE DEF sel
    <2>3. boxRet' = BoxOpen => Drawing(screen', scroll', Rowcount(height, Len(l)))  BY <2>1, <2>2, ShowDraws
    <2>4. boxRet' \in {BoxOpen, BoxTooSmall}  BY <2>1 DEF Show
    <2>. QED  BY <2>1, <2>2, <2>3, <2>4 DEF RowsDrawn, PositionLeft, Rowcount, max_choice, item_count
  <1>3. CASE Resize
    <2>1. boxRet' \in {BoxOpen, BoxTooSmall} /\ resized'  BY <1>3 DEF Resize, Show
    <2>. QED  BY <2>1 DEF RowsDrawn, PositionLeft
  <1>4. CASE Up \/ Down \/ PageUp \/ PageDown \/ \E k \in Keys : Hotkey(k)
    <2>1. boxRet = BoxOpen /\ boxRet' = BoxOpen /\ UNCHANGED <<listed, height, resized>>
      BY <1>4 DEF Up, Down, PageUp, PageDown, Hotkey, Key, Stays
    <2>2. ~resized => Drawing(screen', scroll', max_choice)  BY <1>4, <1>f, <2>1, KeyDraws
    <2>. QED  BY <2>1, <2>2 DEF RowsDrawn, PositionLeft, max_choice, item_count
  <1>5. CASE Esc
    <2>1. boxRet = BoxOpen /\ boxRet' \in {BoxOpen, KEY_ESC} /\ UNCHANGED <<listed, height, scroll, screen, resized>>
      BY <1>5 DEF Esc
    <2>. QED  BY <1>f, <2>1, SameRows DEF PositionLeft
  <1>6. ASSUME NEW k \in Keys, Button(k) \/ Leave(k) \/ Ignored(k)  PROVE RowsDrawn' /\ PositionLeft'
    <2>1. boxRet = BoxOpen /\ boxRet' \in {BoxOpen, KEY_ESC} /\ UNCHANGED <<listed, height, scroll, screen, resized>>
      BY <1>6 DEF Button, Leave, Ignored, Key
    <2>. QED  BY <1>f, <2>1, SameRows DEF PositionLeft
  <1>7. ASSUME NEW k \in Keys, Command(k)  PROVE RowsDrawn' /\ PositionLeft'
    <2>1. boxRet = BoxOpen /\ s_scroll' = scroll /\ UNCHANGED <<listed, height, scroll, screen, resized>>
      BY <1>7 DEF Command, Key
    <2>. QED  BY <1>f, <2>1, SameRows DEF PositionLeft
  <1>8. CASE UNCHANGED menuVars
    BY <1>8, <1>f DEF menuVars, RowsDrawn, PositionLeft, max_choice, item_count
  <1>. QED  BY <1>1, <1>2, <1>3, <1>4, <1>5, <1>6, <1>7, <1>8 DEF MenuNext

\* The inductive invariant holds always.
THEOREM BoxInvariance == MenuSpec => []BoxIInv
  BY BoxInitIInv, BoxStepIInv, PTL DEF MenuSpec

\* For every list and every box, however often the box is opened again, grows
\* or shrinks, the highlighted row is in the window and the window in the list.
THEOREM HighlightInWindow == MenuSpec => []InWindow
  <1>1. BoxIInv => InWindow  BY Sizes DEF BoxIInv, BoxFrame, InWindow, Window, BoxTypes, max_choice, item_count
  <1>. QED  BY <1>1, BoxInvariance, PTL

\* The arrows move the highlight by one item.
THEOREM ArrowsStep == MenuSpec => ArrowsMoveByOne
  <1>1. ASSUME BoxFrame, Up
        PROVE  scroll' + choice' = Highlighted - 1 \/ (scroll' + choice' = 0 /\ Highlighted = 0)
    BY <1>1, Sizes DEF Up, Key, Highlighted
  <1>2. ASSUME BoxFrame, Down
        PROVE  \/ scroll' + choice' = Highlighted + 1
               \/ scroll' + choice' = item_count - 1 /\ Highlighted = scroll' + choice'
    BY <1>2, Sizes DEF Down, Key, Highlighted
  <1>. QED  BY <1>1, <1>2, BoxInvariance, PTL DEF BoxIInv, ArrowsMoveByOne

\* The page keys move it by one window, or to an end of the list.
THEOREM PagesStep == MenuSpec => PagesMoveByWindow
  <1>1. ASSUME BoxFrame, PageUp
        PROVE  scroll' + choice' = Highlighted - max_choice \/ (scroll' + choice' = 0 /\ Highlighted <= max_choice)
    BY <1>1, PageUpMoves
  <1>2. ASSUME BoxFrame, PageDown
        PROVE  \/ scroll' + choice' = Highlighted + max_choice
               \/ scroll' + choice' = item_count - 1 /\ (scroll' + choice') - Highlighted <= max_choice
    BY <1>2, PageDownMoves
  <1>. QED  BY <1>1, <1>2, BoxInvariance, PTL DEF BoxIInv, PagesMoveByWindow

\* Laid out for one of its items, a box has the highlight on it, and stays where
\* it was if the item is in that window.
LEMMA LayoutOnItem ==
  ASSUME NEW its \in Lists, NEW k \in DOMAIN its, NEW saved \in Nat, NEW h \in Nat
  PROVE  LET l == Layout(its, its[k].d, saved, h, 0, 0)
             m == Rowcount(h, Len(its))
         IN  /\ l.choice = (k - 1) - l.scroll /\ l.scroll \in Int
             /\ saved <= k - 1 /\ saved + m > k - 1 /\ saved + m <= Len(its) => l.scroll = saved
  <1> DEFINE n == Len(its)
             m == IF h < n THEN h ELSE n
             sel == its[k].d
             c == IF \E i \in 1..n : its[i].d = sel THEN (CHOOSE i \in 1..n : its[i].d = sel) - 1 ELSE 0
             good == saved <= c /\ saved + m > c /\ saved >= 0 /\ saved + m <= n
             mid == IF c >= n - (m \div 2) THEN n - m ELSE c - (m \div 2)
             l == Layout(its, sel, saved, h, 0, 0)
  <1>n. n \in Nat /\ DOMAIN its = 1..n  BY ListLen
  <1>1. \A i, j \in 1..n : its[i].d = its[j].d => i = j  BY <1>n
  <1>k. k \in 1..n /\ its[k].d = sel  BY <1>n
  <1>2. (CHOOSE i \in 1..n : its[i].d = sel) = k
    <2> DEFINE x == CHOOSE i \in 1..n : its[i].d = sel
    <2>1. x \in 1..n /\ its[x].d = sel  BY <1>k
    <2>. QED  BY <1>1, <1>k, <2>1
  <1>c. c = k - 1 /\ c \in Nat
    <2>1. \E i \in 1..n : its[i].d = sel  BY <1>k
    <2>2. c = (CHOOSE i \in 1..n : its[i].d = sel) - 1  BY <2>1
    <2>3. c = k - 1  BY <1>2, <2>2
    <2> HIDE DEF c
    <2>. QED  BY <1>k, <1>n, <2>3
  <1>m. m \in Nat /\ m <= n  BY <1>n
  <1>l. l = IF good THEN [scroll |-> saved, first |-> saved, choice |-> c - saved]
            ELSE IF c >= m THEN [scroll |-> mid, first |-> mid, choice |-> c - mid]
            ELSE [scroll |-> 0, first |-> 0, choice |-> c]
    BY DEF Layout
  <1> HIDE DEF n, c, m, l, sel
  <1>3. l.choice = c - l.scroll /\ l.scroll \in Int
    <2>1. CASE good  BY <2>1, <1>l, <1>c
    <2>2. CASE ~good /\ c >= m
      <3>1. mid \in Int  BY <1>c, <1>m, <1>n
      <3>2. l.scroll = mid /\ l.choice = c - mid  BY <2>2, <1>l
      <3> HIDE DEF mid
      <3>. QED  BY <3>1, <3>2, <1>c
    <2>3. CASE ~good /\ c < m  BY <2>3, <1>l, <1>c, <1>m
    <2>. QED  BY <2>1, <2>2, <2>3, <1>c, <1>m
  <1>4. good => l.scroll = saved  BY <1>l
  <1>. QED  BY <1>3, <1>4, <1>c DEF n, m, l, sel, Rowcount

\* A box that is opened again after a key is at the item the key was about, and
\* in the same window if the list is the same.
LEMMA StaysStep ==
  ASSUME BoxIInv, Redisplay, boxRet' = BoxOpen, item_count > 0
  PROVE  /\ \A i \in DOMAIN listed' :
              listed'[i].d = listed[Highlighted + 1].d => scroll' + choice' = i - 1
         /\ listed' = listed => scroll' = scroll /\ choice' = choice
  <1> DEFINE sel == listed[Highlighted + 1].d
  <1>f. /\ listed \in Lists /\ height \in Nat /\ height \in Heights /\ s_scroll \in Nat
        /\ scroll \in Nat /\ choice \in Nat
    BY DEF BoxIInv, BoxFrame, BoxTypes
  <1>r. boxRet \notin {BoxOpen, 1, KEY_ESC, BoxTooSmall}  BY DEF Redisplay
  <1>s. s_scroll = scroll  BY <1>r DEF BoxIInv, PositionLeft
  <1>w. /\ height > 0 /\ max_choice \in Nat /\ item_count \in Nat
        /\ scroll + max_choice <= item_count /\ choice < max_choice
    BY <1>r, <1>f, ListLen DEF BoxIInv, BoxFrame, Window, max_choice, item_count
  <1>1. PICK l \in Lists : listed' = l /\ Show(l, sel, s_scroll, height, 0, 0)  BY <1>w DEF Redisplay
  <1> DEFINE at == Layout(l, sel, s_scroll, height, 0, 0)
  <1>2. scroll' = at.scroll /\ choice' = at.choice  BY <1>1, <1>w DEF Show
  <1>3. ASSUME NEW i \in DOMAIN l, l[i].d = sel
        PROVE  /\ choice' = (i - 1) - scroll' /\ scroll' \in Int
               /\ s_scroll <= i - 1 /\ s_scroll + Rowcount(height, Len(l)) > i - 1 /\ s_scroll + Rowcount(height, Len(l)) <= Len(l)
                    => scroll' = s_scroll
    BY <1>2, <1>3, <1>f, LayoutOnItem
  <1>4. ASSUME l = listed  PROVE scroll' = scroll /\ choice' = choice
    <2>1. Highlighted + 1 \in DOMAIN l  BY <1>4, <1>f, <1>w, ListLen DEF Highlighted, item_count
    <2>2. Rowcount(height, Len(l)) = max_choice /\ Len(l) = item_count
      BY <1>4 DEF Rowcount, max_choice, item_count
    <2>3. l[Highlighted + 1].d = sel  BY <1>4
    <2>4. /\ choice' = ((Highlighted + 1) - 1) - scroll'
          /\ s_scroll <= (Highlighted + 1) - 1 /\ s_scroll + max_choice > (Highlighted + 1) - 1
               /\ s_scroll + max_choice <= item_count
               => scroll' = s_scroll
      BY <1>3, <2>1, <2>2, <2>3
    <2>5. Highlighted = scroll + choice  BY DEF Highlighted
    <2>6. scroll' = scroll  BY <2>4, <2>5, <1>s, <1>f, <1>w
    <2>. QED  BY <2>4, <2>5, <2>6, <1>f
  <1>5. ASSUME NEW i \in DOMAIN listed', listed'[i].d = sel  PROVE scroll' + choice' = i - 1
    <2>1. i \in Int  BY <1>1, ListLen
    <2>. QED  BY <1>1, <1>3, <1>5, <2>1
  <1>. QED  BY <1>1, <1>4, <1>5

\* How far a row is below another one, going down and round.
LEMMA Below ==
  ASSUME NEW m \in Nat \ {0}, NEW c \in 0..m - 1, NEW i \in 0..m - 1
  PROVE  (i - c + m - 1) % m = IF i > c THEN i - c - 1 ELSE i - c + m - 1
  <1> DEFINE x == i - c + m - 1
  <1>1. CASE i > c
    <2>1. x = m + (i - c - 1) /\ i - c - 1 \in 0..m - 1  BY <1>1
    <2>. QED  BY <1>1, <2>1
  <1>2. CASE i <= c
    <2>1. x \in 0..m - 1  BY <1>2
    <2>. QED  BY <1>2, <2>1
  <1>. QED  BY <1>1, <1>2

\* A row d that is nearer than row i, going down and round.
LEMMA Nearest ==
  ASSUME NEW m \in Nat \ {0}, NEW c \in 0..m - 1, NEW d \in 0..m - 1,
         NEW i \in 0..m - 1, i > c => d > c /\ d <= i, d > c \/ d <= i
  PROVE  (d - c + m - 1) % m <= (i - c + m - 1) % m
  <1>1. (d - c + m - 1) % m = IF d > c THEN d - c - 1 ELSE d - c + m - 1  BY Below
  <1>2. (i - c + m - 1) % m = IF i > c THEN i - c - 1 ELSE i - c + m - 1  BY Below
  <1>3. CASE i > c
    <2>1. /\ (d - c + m - 1) % m = d - c - 1
          /\ (i - c + m - 1) % m = i - c - 1
      BY <1>1, <1>2, <1>3
    <2>2. d - c - 1 <= i - c - 1  BY <1>3
    <2>. QED  BY <2>1, <2>2, Zenon
  <1>4. CASE i <= c /\ d > c
    <2>1. /\ (d - c + m - 1) % m = d - c - 1
          /\ (i - c + m - 1) % m = i - c + m - 1
      BY <1>1, <1>2, <1>4
    <2>2. d - c - 1 <= i - c + m - 1  BY <1>4
    <2>. QED  BY <2>1, <2>2, Zenon
  <1>5. CASE i <= c /\ d <= c
    <2>1. /\ (d - c + m - 1) % m = d - c + m - 1
          /\ (i - c + m - 1) % m = i - c + m - 1
      BY <1>1, <1>2, <1>5
    <2>2. d - c + m - 1 <= i - c + m - 1  BY <1>5
    <2>. QED  BY <2>1, <2>2, Zenon
  <1>. QED  BY <1>3, <1>4, <1>5

\* A hotkey goes to the next visible item that has it.
LEMMA HotkeyStep ==
  ASSUME BoxIInv, NEW l \in Keys, Hotkey(l), NEW i \in Rows(l)
  PROVE  (choice' - choice + max_choice - 1) % max_choice <= (i - choice + max_choice - 1) % max_choice
  <1> DEFINE below == {j \in Rows(l) : j > choice}
             S == IF below # {} THEN below ELSE Rows(l)
  <1>1. boxRet = BoxOpen /\ IsHot(l) /\ choice' = NextRow(l) /\ BoxFrame  BY DEF Hotkey, Key, BoxIInv
  <1>2. Rows(l) \subseteq 0..max_choice - 1 /\ item_count # 0  BY <1>1, NextRowInWindow
  <1>3. max_choice \in Nat \ {0} /\ choice \in 0..max_choice - 1  BY <1>1, <1>2, Sizes
  <1>4. S \subseteq Nat /\ S # {} /\ S \subseteq Rows(l)  BY <1>2, <1>3
  <1>5. \E j \in S : \A k \in S : j <= k  BY <1>4, LeastExists
  <1>6. choice' \in S /\ \A k \in S : choice' <= k  BY <1>1, <1>5 DEF NextRow, FirstOf
  <1>7. choice' \in 0..max_choice - 1 /\ i \in 0..max_choice - 1  BY <1>2, <1>4, <1>6
  <1>8. i > choice => choice' > choice /\ choice' <= i
    <2> SUFFICES ASSUME i > choice PROVE choice' > choice /\ choice' <= i
      OBVIOUS
    <2>1. i \in below /\ S = below  OBVIOUS
    <2>. QED  BY <1>6, <2>1
  <1>9. choice' > choice \/ choice' <= i
    <2>1. CASE below # {}  BY <1>6, <2>1
    <2>2. CASE below = {}  BY <1>6, <2>2
    <2>. QED  BY <2>1, <2>2
  <1>. HIDE DEF below, S
  <1>. QED  BY <1>3, <1>7, <1>8, <1>9, Nearest

\* The letters of the buttons leave a box none of whose visible items has them.
LEMMA LeaveStep ==
  ASSUME MenuNext, NEW l \in {"e", "x"}, boxRet = BoxOpen, last' = l
  PROVE  boxRet' = KEY_ESC <=> Rows(l) = {}
  <1>1. l \in Keys /\ (IsHot(l) <=> Rows(l) # {})  BY DEF Keys, IsHot
  <1>2. PICK k \in Keys : Hotkey(k) \/ Button(k) \/ Command(k) \/ Leave(k) \/ Ignored(k)
    BY DEF MenuNext, OpenMenu, Redisplay, Up, Down, PageUp, PageDown, Key, Esc, Resize
  <1>3. k = l  BY <1>2 DEF Hotkey, Button, Command, Leave, Ignored, Key
  <1>4. Hotkey(l) \/ Leave(l)  BY <1>2, <1>3 DEF Button, Command, Commands, Ignored
  <1>5. CASE Hotkey(l)  BY <1>1, <1>5 DEF Hotkey, Stays
  <1>6. CASE Leave(l)  BY <1>1, <1>6 DEF Leave
  <1>. QED  BY <1>4, <1>5, <1>6

\* What the run checks of the menu box, for every menu and every height: the
\* highlight is in the window, the rows show what they select, keys move it as
\* the help of mconf.c says, and a box that is opened again is where it was.
THEOREM HighlightIsFollowed == MenuSpec => HighlightFollows
  <1>1. BoxIInv => ShowsWindow  BY DEF BoxIInv, RowsDrawn, Drawing, ShowsWindow
  <1>2. MenuSpec => []ShowsWindow  BY <1>1, BoxInvariance, PTL
  <1>3. MenuSpec => StaysOnItem
    <2>1. BoxIInv /\ [MenuNext]_menuVars
            => [ (Redisplay /\ boxRet' = BoxOpen /\ item_count > 0) =>
                 /\ \A i \in DOMAIN listed' :
                      listed'[i].d = listed[Highlighted + 1].d => scroll' + choice' = i - 1
                 /\ listed' = listed => scroll' = scroll /\ choice' = choice ]_menuVars
      BY StaysStep
    <2>. QED  BY <2>1, BoxInvariance, PTL DEF MenuSpec, StaysOnItem
  <1>4. MenuSpec => HotkeySequences
    <2>1. BoxIInv /\ [MenuNext]_menuVars
            => [ \A l \in Keys : Hotkey(l) =>
                   LET Ahead(i) == (i - choice + max_choice - 1) % max_choice
                   IN  \A i \in Rows(l) : Ahead(choice') <= Ahead(i) ]_menuVars
      BY HotkeyStep
    <2>. QED  BY <2>1, BoxInvariance, PTL DEF MenuSpec, HotkeySequences
  <1>5. MenuSpec => LettersLeave
    <2>1. [MenuNext]_menuVars
            => [ \A l \in {"e", "x"} : (boxRet = BoxOpen /\ last' = l /\ unget \in {noKey, l}) =>
                   (boxRet' = KEY_ESC <=> Rows(l) = {}) ]_menuVars
      BY LeaveStep
    <2>. QED  BY <2>1, PTL DEF MenuSpec, LettersLeave
  <1>. QED  BY <1>2, <1>3, <1>4, <1>5, HighlightInWindow, ArrowsStep, PagesStep, PTL DEF HighlightFollows

-----------------------------------------------------------------------------
(* The input box. *)

HIDE MenuboxAssumption DEF KEY_ESC, BoxTooSmall, BoxOpen
USE InputboxAssumption DEF EscKey, FieldTooSmall, FieldOpen, len

Cells == 0..box_width - 1

\* TypeOK, and that the field has as many cells as it is wide.
FieldTypes == FieldTypeOK /\ field \in [Cells -> Letters \cup {BlankCell}]

\* What the field shows of a text from position s on.
FieldWindow(f, t, s) == \A i \in Cells : f[i] = IF s + i < Len(t) THEN t[s + i + 1] ELSE BlankCell

\* The three counters of an open box.
CountersAgree == pos = show_x + input_x /\ pos <= len /\ input_x < box_width

FieldIInv == FieldTypes /\ (result = FieldOpen => CountersAgree /\ FieldWindow(field, instr, show_x))

LEMMA SumNat == \A i, j \in Nat : i + j \in Nat  OBVIOUS

\* Both parts of a text that is cut in two.
LEMMA Parts ==
  ASSUME NEW t \in Seq(Letters), NEW a \in Nat, NEW b \in Nat, a <= Len(t), b <= Len(t)
  PROVE  /\ SubSeq(t, 1, a) \in Seq(Letters) /\ Len(SubSeq(t, 1, a)) = a
         /\ SubSeq(t, b + 1, Len(t)) \in Seq(Letters) /\ Len(SubSeq(t, b + 1, Len(t))) = Len(t) - b
  <1>1. \A i \in 1..a : t[i] \in Letters  OBVIOUS
  <1>2. \A i \in b + 1..Len(t) : t[i] \in Letters  OBVIOUS
  <1>3. SubSeq(t, 1, a) \in Seq(Letters) /\ Len(SubSeq(t, 1, a)) = a  BY <1>1, SubSeqProperties
  <1>4. SubSeq(t, b + 1, Len(t)) \in Seq(Letters)  BY <1>2, SubSeqProperties
  <1>5. Len(SubSeq(t, b + 1, Len(t))) = Len(t) - b  BY SubSeqProperties
  <1>. QED  BY <1>3, <1>4, <1>5

\* A text with a letter put in, and one with a letter taken out.
LEMMA PutIn ==
  ASSUME NEW t \in Seq(Letters), NEW p \in Nat, p <= Len(t), NEW c \in Letters
  PROVE  LET u == SubSeq(t, 1, p) \o <<c>> \o SubSeq(t, p + 1, Len(t))
         IN  u \in Seq(Letters) /\ Len(u) = Len(t) + 1
  <1> DEFINE a == SubSeq(t, 1, p)
             b == SubSeq(t, p + 1, Len(t))
             ac == a \o <<c>>
  <1>1. a \in Seq(Letters) /\ Len(a) = p /\ b \in Seq(Letters) /\ Len(b) = Len(t) - p  BY Parts
  <1>2. <<c>> \in Seq(Letters) /\ Len(<<c>>) = 1  OBVIOUS
  <1> HIDE DEF a, b
  <1>3. ac \in Seq(Letters) /\ Len(ac) = p + 1  BY <1>1, <1>2, ConcatProperties
  <1> HIDE DEF ac
  <1>s. ac \in Seq(Letters) /\ b \in Seq(Letters)  BY <1>1, <1>3
  <1>4. ac \o b \in Seq(Letters) /\ Len(ac \o b) = Len(ac) + Len(b)  BY <1>s, ConcatProperties
  <1>5. Len(ac \o b) = Len(t) + 1  BY <1>1, <1>3, <1>4
  <1>. QED  BY <1>4, <1>5 DEF a, b, ac

LEMMA TakenOut ==
  ASSUME NEW t \in Seq(Letters), NEW p \in Nat, p <= Len(t), p > 0
  PROVE  LET u == SubSeq(t, 1, p - 1) \o SubSeq(t, p + 1, Len(t))
         IN  u \in Seq(Letters) /\ Len(u) = Len(t) - 1
  <1> DEFINE a == SubSeq(t, 1, p - 1)
             b == SubSeq(t, p + 1, Len(t))
  <1>1. p - 1 \in Nat /\ p - 1 <= Len(t)  OBVIOUS
  <1>2. a \in Seq(Letters) /\ Len(a) = p - 1 /\ b \in Seq(Letters) /\ Len(b) = Len(t) - p  BY <1>1, Parts
  <1> HIDE DEF a, b
  <1>3. a \o b \in Seq(Letters) /\ Len(a \o b) = Len(a) + Len(b)  BY <1>2, ConcatProperties
  <1>4. Len(a \o b) = Len(t) - 1  BY <1>2, <1>3
  <1>. QED  BY <1>3, <1>4 DEF a, b

\* A field that is drawn shows the text, if the text before reached no further
\* than one cell behind this one: that cell is the one that is blanked.
LEMMA FieldDrawn ==
  ASSUME NEW f \in [Cells -> Letters \cup {BlankCell}], NEW t \in Seq(Letters), NEW s \in Nat,
         \A i \in Cells : s + i > Len(t) => f[i] = BlankCell
  PROVE  FieldWindow(Redrawn(f, t, s), t, s) /\ Redrawn(f, t, s) \in [Cells -> Letters \cup {BlankCell}]
  <1>1. \A i \in Cells : Redrawn(f, t, s)[i] = IF s + i < Len(t) THEN t[s + i + 1] ELSE IF s + i = Len(t) THEN BlankCell ELSE f[i]
    BY DEF Redrawn, Cells
  <1>2. \A i \in Cells : s + i < Len(t) => t[s + i + 1] \in Letters  BY DEF Cells
  <1>3. Redrawn(f, t, s) \in [Cells -> Letters \cup {BlankCell}]
    <2>1. \A i \in Cells : (IF s + i < Len(t) THEN t[s + i + 1] ELSE IF s + i = Len(t) THEN BlankCell ELSE f[i]) \in Letters \cup {BlankCell}
      BY <1>2
    <2>. QED  BY <2>1 DEF Redrawn, Cells
  <1>4. \A i \in Cells : Redrawn(f, t, s)[i] = IF s + i < Len(t) THEN t[s + i + 1] ELSE BlankCell
    BY <1>1 DEF Cells
  <1>. QED  BY <1>3, <1>4 DEF FieldWindow

\* Opening leaves the cursor behind the text.
LEMMA Started ==
  ASSUME NEW t \in Seq(Letters), Len(t) <= MAX_LEN, StartField(t), instr' = t
  PROVE  /\ {pos', show_x', input_x'} \subseteq Nat /\ CountersAgree'
         /\ field' \in [Cells -> Letters \cup {BlankCell}] /\ FieldWindow(field', instr', show_x')
  <1> DEFINE s == IF Len(t) >= box_width THEN Len(t) - box_width + 1 ELSE 0
             f == [i \in 0..box_width - 1 |-> BlankCell]
  <1>1. pos' = Len(t) /\ show_x' = s /\ input_x' = Len(t) - s /\ field' = Redrawn(f, t, s)  BY DEF StartField
  <1>2. s \in Nat /\ Len(t) \in Nat /\ s <= Len(t) /\ Len(t) - s < box_width  OBVIOUS
  <1>3. f \in [Cells -> Letters \cup {BlankCell}] /\ \A i \in Cells : f[i] = BlankCell  BY DEF Cells
  <1> HIDE DEF s, f
  <1>4. FieldWindow(Redrawn(f, t, s), t, s) /\ Redrawn(f, t, s) \in [Cells -> Letters \cup {BlankCell}]
    BY <1>2, <1>3, FieldDrawn
  <1>5. {pos', show_x', input_x'} \subseteq Nat /\ CountersAgree'  BY <1>1, <1>2 DEF CountersAgree
  <1>. QED  BY <1>1, <1>4, <1>5

LEMMA FieldInitIInv == FieldInit => FieldIInv
  <1> SUFFICES ASSUME FieldInit PROVE FieldIInv  OBVIOUS
  <1>1. instr \in Seq(Letters) /\ Len(instr) = 0  BY DEF FieldInit
  <1>2. field \in [Cells -> Letters \cup {BlankCell}]  BY DEF FieldInit, Cells
  <1>. QED  BY <1>1, <1>2 DEF FieldInit, FieldIInv, FieldTypes, FieldTypeOK

\* Every step of the box keeps the three counters and the field in order, and is
\* a step of LineEdit.
LEMMA FieldStepIInv ==
  FieldIInv /\ [FieldNext]_fieldVars
    => FieldIInv' /\ [E!Next]_<<result = FieldOpen, instr, field, show_x, input_x>>
  <1> DEFINE seen == <<result = FieldOpen, instr, field, show_x, input_x>>
  <1> SUFFICES ASSUME FieldIInv, [FieldNext]_fieldVars PROVE FieldIInv' /\ [E!Next]_seen  OBVIOUS
  <1>t. /\ instr \in Seq(Letters) /\ Len(instr) \in Nat /\ Len(instr) <= MAX_LEN
        /\ pos \in Nat /\ show_x \in Nat /\ input_x \in Nat /\ pressed \in {-1, 0, 1} /\ shown \in {0, 1}
        /\ result \in {0, 1, EscKey, FieldOpen, FieldTooSmall} /\ field \in [Cells -> Letters \cup {BlankCell}]
    BY DEF FieldIInv, FieldTypes, FieldTypeOK
  <1>c. result = FieldOpen => pos = show_x + input_x /\ pos <= Len(instr) /\ input_x < box_width
    BY DEF FieldIInv, CountersAgree
  <1>w. result = FieldOpen => FieldWindow(field, instr, show_x)  BY DEF FieldIInv
  \* What is to be shown of a step that ends with the box open, and what follows
  \* for a user who looks at it.
  <1>o. ASSUME instr' \in Seq(Letters), Len(instr') <= MAX_LEN, {pos', show_x', input_x'} \subseteq Nat,
               CountersAgree', pressed' \in {-1, 0, 1}, shown' \in {0, 1}, result' = FieldOpen,
               field' \in [Cells -> Letters \cup {BlankCell}], FieldWindow(field', instr', show_x')
        PROVE  FieldIInv' /\ E!Becomes(instr', pos')
    <2>1. FieldIInv'  BY <1>o DEF FieldIInv, FieldTypes, FieldTypeOK
    <2>2. E!Seen'  BY <1>o DEF E!Seen, E!Place, CountersAgree, FieldWindow, Cells
    <2>3. (result = FieldOpen)' /\ E!Place' = pos'  BY <1>o DEF E!Place, CountersAgree
    <2>. QED  BY <2>1, <2>2, <2>3 DEF E!Becomes
  \* And of one that ends with it closed.
  <1>x. ASSUME instr' \in Seq(Letters), Len(instr') <= MAX_LEN, {pos', show_x', input_x'} \subseteq Nat,
               pressed' \in {-1, 0, 1}, shown' \in {0, 1}, result' \in {0, 1, EscKey, FieldTooSmall},
               field' \in [Cells -> Letters \cup {BlankCell}]
        PROVE  FieldIInv' /\ (result' # FieldOpen)
    BY <1>x DEF FieldIInv, FieldTypes, FieldTypeOK
  <1>p. result = FieldOpen => E!Place = pos  BY <1>c DEF E!Place
  <1>1. CASE dialog_inputbox
    <2>1. PICK t \in Inits : instr' = t /\ ShowField(t) /\ result # FieldOpen /\ pressed' = -1
      BY <1>1 DEF dialog_inputbox
    <2>2. t \in Seq(Letters) /\ Len(t) <= MAX_LEN  OBVIOUS
    <2>3. CASE result' = FieldOpen /\ shown' = 0 /\ StartField(t)
      <3>1. FieldIInv' /\ E!Becomes(instr', pos')  BY <2>1, <2>2, <2>3, Started, <1>o
      <3>2. pos' = Len(t)  BY <2>3 DEF StartField
      <3>3. E!Open  BY <2>1, <3>1, <3>2 DEF E!Open
      <3>. QED  BY <3>1, <3>3 DEF E!Next
    <2>4. CASE result' = FieldTooSmall /\ UNCHANGED <<pos, show_x, input_x, field, shown>>
      <3>1. FieldIInv' /\ result' # FieldOpen  BY <1>t, <2>1, <2>2, <2>4, <1>x
      <3>2. E!Refused  BY <2>1, <3>1 DEF E!Refused
      <3>. QED  BY <3>1, <3>2 DEF E!Next
    <2>. QED  BY <2>1, <2>3, <2>4 DEF ShowField
  <1>2. CASE ResizeField
    <2>0. instr' = instr /\ pressed' = pressed /\ result = FieldOpen  BY <1>2 DEF ResizeField
    <2>1. CASE result' = FieldOpen /\ shown' = 0 /\ StartField(instr)
      <3>1. FieldIInv' /\ E!Becomes(instr', pos')  BY <2>1, <2>0, <1>t, Started, <1>o
      <3>2. pos' = Len(instr)  BY <2>1 DEF StartField
      <3>3. E!Move  BY <2>0, <3>1, <3>2, <1>t DEF E!Move
      <3>. QED  BY <3>1, <3>3 DEF E!Next
    <2>2. CASE result' = FieldTooSmall /\ UNCHANGED <<pos, show_x, input_x, field, shown>>
      <3>1. FieldIInv' /\ result' # FieldOpen  BY <1>t, <2>0, <2>2, <1>x
      <3>2. E!Close  BY <2>0, <3>1 DEF E!Close
      <3>. QED  BY <3>1, <3>2 DEF E!Next
    <2>. QED  BY <1>2, <2>1, <2>2 DEF ResizeField, ShowField
  <1>3. CASE Erase
    <2>1. /\ instr' = SubSeq(instr, 1, pos - 1) \o SubSeq(instr, pos + 1, len) /\ pos > 0 /\ pos' = pos - 1
          /\ show_x' = (IF input_x = 0 THEN show_x - 1 ELSE show_x)
          /\ input_x' = (IF input_x = 0 THEN 0 ELSE input_x - 1)
          /\ field' = Redrawn(field, instr', show_x')
          /\ UNCHANGED <<pressed, shown, result>> /\ result = FieldOpen
      BY <1>3 DEF Erase, InField
    <2>e. pos = show_x + input_x /\ pos <= Len(instr) /\ input_x < box_width  BY <1>c, <2>1
    <2>2. instr' \in Seq(Letters) /\ Len(instr') = Len(instr) - 1  BY <1>t, <1>c, <2>1, TakenOut
    <2>3. show_x' \in Nat /\ input_x' \in Nat /\ show_x' <= show_x /\ pos' = show_x' + input_x'
          /\ pos' <= Len(instr') /\ input_x' < box_width /\ show_x - 1 <= show_x'
      <3>1. pos > 0 /\ pos' = pos - 1 /\ Len(instr') = Len(instr) - 1  BY <2>1, <2>2
      <3>2. CASE input_x = 0
        <4>1. show_x' = show_x - 1 /\ input_x' = 0  BY <2>1, <3>2
        <4>. QED  BY <1>t, <2>e, <3>1, <3>2, <4>1
      <3>3. CASE input_x # 0
        <4>1. show_x' = show_x /\ input_x' = input_x - 1  BY <2>1, <3>3
        <4>. QED  BY <1>t, <2>e, <3>1, <3>3, <4>1
      <3>. QED  BY <3>2, <3>3
    <2>4. \A i \in Cells : show_x' + i > Len(instr') => field[i] = BlankCell
      <3>1. FieldWindow(field, instr, show_x)  BY <1>w, <2>1
      <3>2. ASSUME NEW i \in Cells, show_x' + i > Len(instr')  PROVE ~(show_x + i < Len(instr))
        <4>1. i \in Int /\ show_x \in Int /\ Len(instr) \in Int  BY <1>t DEF Cells
        <4>2. show_x' \in Int /\ Len(instr') = Len(instr) - 1 /\ show_x' <= show_x  BY <2>2, <2>3
        <4>. QED  BY <3>2, <4>1, <4>2
      <3>. QED  BY <3>1, <3>2 DEF FieldWindow
    <2>5. FieldWindow(field', instr', show_x') /\ field' \in [Cells -> Letters \cup {BlankCell}]
      <3>1. instr' \in Seq(Letters) /\ show_x' \in Nat  BY <2>2, <2>3
      <3>2. field \in [Cells -> Letters \cup {BlankCell}] /\ field' = Redrawn(field, instr', show_x')
        BY <1>t, <2>1
      <3>. QED  BY ONLY <2>4, <3>1, <3>2, FieldDrawn
    <2>c. CountersAgree' /\ {pos', show_x', input_x'} \subseteq Nat
      <3>1. show_x' \in Nat /\ input_x' \in Nat /\ pos' = show_x' + input_x'  BY <2>3
      <3>2. pos' \in Nat  BY <3>1, SumNat
      <3>3. pos' <= Len(instr') /\ input_x' < box_width  BY <2>3
      <3>4. CountersAgree'  BY <3>1, <3>3 DEF CountersAgree
      <3>. QED  BY <3>1, <3>2, <3>4
    <2>l. Len(instr') <= MAX_LEN  BY <1>t, <2>2
    <2>b. UNCHANGED <<pressed, shown, result>> /\ result = FieldOpen  BY <2>1
    <2>6. FieldIInv' /\ E!Becomes(instr', pos')  BY <1>t, <2>2, <2>5, <2>c, <2>l, <2>b, <1>o
    <2>7. E!Erase  BY <2>1, <2>6, <1>p DEF E!Erase, E!Before, E!Behind
    <2>. QED  BY <2>6, <2>7 DEF E!Next
  <1>4. CASE CursorLeft
    <2>1. pos > 0 /\ pos' = pos - 1 /\ UNCHANGED <<instr, pressed, shown, result>> /\ result = FieldOpen
      BY <1>4 DEF CursorLeft, InField
    <2>2. ASSUME input_x > 0  PROVE FieldIInv' /\ E!Becomes(instr', pos')
      <3>1. input_x' = input_x - 1 /\ UNCHANGED <<show_x, field>>  BY <1>4, <2>2 DEF CursorLeft
      <3>2. CountersAgree' /\ {pos', show_x', input_x'} \subseteq Nat
        BY <1>t, <1>c, <2>1, <2>2, <3>1 DEF CountersAgree
      <3>3. field' \in [Cells -> Letters \cup {BlankCell}] /\ FieldWindow(field', instr', show_x')
        BY <1>t, <1>w, <2>1, <3>1
      <3>. QED  BY <1>t, <2>1, <3>2, <3>3, <1>o
    <2>3. ASSUME ~(input_x > 0)  PROVE FieldIInv' /\ E!Becomes(instr', pos')
      <3>1. show_x' = show_x - 1 /\ field' = Redrawn(field, instr, show_x - 1) /\ UNCHANGED input_x
        BY <1>4, <2>3 DEF CursorLeft
      <3>2. CountersAgree' /\ {pos', show_x', input_x'} \subseteq Nat
        BY <1>t, <1>c, <2>1, <2>3, <3>1 DEF CountersAgree
      <3>3. \A i \in Cells : (show_x - 1) + i > Len(instr) => field[i] = BlankCell
        BY <1>t, <1>w, <2>1 DEF FieldWindow, Cells
      <3>4. FieldWindow(field', instr, show_x - 1) /\ field' \in [Cells -> Letters \cup {BlankCell}]
        BY <1>t, <3>1, <3>2, <3>3, FieldDrawn
      <3>. QED  BY <1>t, <2>1, <3>1, <3>2, <3>4, <1>o
    <2>4. FieldIInv' /\ E!Becomes(instr, pos')  BY <2>1, <2>2, <2>3
    <2>5. pos' \in {E!Place - 1, E!Place + 1, Len(instr)} \cap 0..Len(instr)  BY <2>1, <1>t, <1>c, <1>p
    <2>6. E!Move  BY <2>1, <2>4, <2>5 DEF E!Move
    <2>. QED  BY <2>4, <2>6 DEF E!Next
  <1>5. CASE CursorRight
    <2>1. pos < Len(instr) /\ pos' = pos + 1 /\ UNCHANGED <<instr, pressed, shown, result>> /\ result = FieldOpen
      BY <1>5 DEF CursorRight, InField
    <2>2. ASSUME input_x < box_width - 1  PROVE FieldIInv' /\ E!Becomes(instr', pos')
      <3>1. input_x' = input_x + 1 /\ UNCHANGED <<show_x, field>>  BY <1>5, <2>2 DEF CursorRight
      <3>2. CountersAgree' /\ {pos', show_x', input_x'} \subseteq Nat
        BY <1>t, <1>c, <2>1, <2>2, <3>1 DEF CountersAgree
      <3>3. field' \in [Cells -> Letters \cup {BlankCell}] /\ FieldWindow(field', instr', show_x')
        BY <1>t, <1>w, <2>1, <3>1
      <3>. QED  BY <1>t, <2>1, <3>2, <3>3, <1>o
    <2>3. ASSUME ~(input_x < box_width - 1)  PROVE FieldIInv' /\ E!Becomes(instr', pos')
      <3>1. show_x' = show_x + 1 /\ field' = Redrawn(field, instr, show_x + 1) /\ UNCHANGED input_x
        BY <1>5, <2>3 DEF CursorRight
      <3>2. CountersAgree' /\ {pos', show_x', input_x'} \subseteq Nat
        BY <1>t, <1>c, <2>1, <2>3, <3>1 DEF CountersAgree
      <3>3. \A i \in Cells : (show_x + 1) + i > Len(instr) => field[i] = BlankCell
        BY <1>t, <1>w, <2>1 DEF FieldWindow, Cells
      <3>4. FieldWindow(field', instr, show_x + 1) /\ field' \in [Cells -> Letters \cup {BlankCell}]
        BY <1>t, <3>1, <3>2, <3>3, FieldDrawn
      <3>. QED  BY <1>t, <2>1, <3>1, <3>2, <3>4, <1>o
    <2>4. FieldIInv' /\ E!Becomes(instr, pos')  BY <2>1, <2>2, <2>3
    <2>5. pos' \in {E!Place - 1, E!Place + 1, Len(instr)} \cap 0..Len(instr)  BY <2>1, <1>t, <1>c, <1>p
    <2>6. E!Move  BY <2>1, <2>4, <2>5 DEF E!Move
    <2>. QED  BY <2>4, <2>6 DEF E!Next
  <1>6. ASSUME NEW c \in Letters, Typed(c)  PROVE FieldIInv' /\ E!TypeIn(c)
    <2>1. /\ len < MAX_LEN /\ pos' = pos + 1
          /\ instr' = SubSeq(instr, 1, pos) \o <<c>> \o SubSeq(instr, pos + 1, len)
          /\ show_x' = (IF input_x = box_width - 1 THEN show_x + 1 ELSE show_x)
          /\ input_x' = (IF input_x = box_width - 1 THEN input_x ELSE input_x + 1)
          /\ field' = Redrawn(field, instr', show_x')
          /\ UNCHANGED <<pressed, shown, result>> /\ result = FieldOpen
      BY <1>6 DEF Typed, InField
    <2>e. pos = show_x + input_x /\ pos <= Len(instr) /\ input_x < box_width  BY <1>c, <2>1
    <2>2. instr' \in Seq(Letters) /\ Len(instr') = Len(instr) + 1  BY <1>t, <1>c, <2>1, PutIn
    <2>3. show_x' \in Nat /\ input_x' \in Nat /\ pos' = show_x' + input_x'
          /\ pos' <= Len(instr') /\ input_x' < box_width /\ show_x' <= show_x + 1
      <3>1. pos' = pos + 1 /\ Len(instr') = Len(instr) + 1  BY <2>1, <2>2
      <3>2. CASE input_x = box_width - 1
        <4>1. show_x' = show_x + 1 /\ input_x' = input_x  BY <2>1, <3>2
        <4>. QED  BY <1>t, <2>e, <3>1, <3>2, <4>1
      <3>3. CASE input_x # box_width - 1
        <4>1. show_x' = show_x /\ input_x' = input_x + 1  BY <2>1, <3>3
        <4>. QED  BY <1>t, <2>e, <3>1, <3>3, <4>1
      <3>. QED  BY <3>2, <3>3
    <2>4. \A i \in Cells : show_x' + i > Len(instr') => field[i] = BlankCell
      <3>1. FieldWindow(field, instr, show_x)  BY <1>w, <2>1
      <3>2. ASSUME NEW i \in Cells, show_x' + i > Len(instr')  PROVE ~(show_x + i < Len(instr))
        <4>1. i \in Int /\ show_x \in Int /\ Len(instr) \in Int  BY <1>t DEF Cells
        <4>2. show_x' \in Int /\ Len(instr') = Len(instr) + 1 /\ show_x' <= show_x + 1  BY <2>2, <2>3
        <4>. QED  BY <3>2, <4>1, <4>2
      <3>. QED  BY <3>1, <3>2 DEF FieldWindow
    <2>5. FieldWindow(field', instr', show_x') /\ field' \in [Cells -> Letters \cup {BlankCell}]
      <3>1. instr' \in Seq(Letters) /\ show_x' \in Nat  BY <2>2, <2>3
      <3>2. field \in [Cells -> Letters \cup {BlankCell}] /\ field' = Redrawn(field, instr', show_x')
        BY <1>t, <2>1
      <3>. QED  BY ONLY <2>4, <3>1, <3>2, FieldDrawn
    <2>c. CountersAgree' /\ {pos', show_x', input_x'} \subseteq Nat
      <3>1. show_x' \in Nat /\ input_x' \in Nat /\ pos' = show_x' + input_x'  BY <2>3
      <3>2. pos' \in Nat  BY <3>1, SumNat
      <3>3. pos' <= Len(instr') /\ input_x' < box_width  BY <2>3
      <3>4. CountersAgree'  BY <3>1, <3>3 DEF CountersAgree
      <3>. QED  BY <3>1, <3>2, <3>4
    <2>l. Len(instr') <= MAX_LEN
      <3>1. Len(instr) < MAX_LEN  BY <2>1
      <3>. QED  BY <1>t, <2>2, <3>1
    <2>b. UNCHANGED <<pressed, shown, result>> /\ result = FieldOpen  BY <2>1
    <2>6. FieldIInv' /\ E!Becomes(instr', pos')  BY <1>t, <2>2, <2>5, <2>c, <2>l, <2>b, <1>o
    <2>7. E!TypeIn(c)  BY <2>1, <2>6, <1>p DEF E!TypeIn, E!Before, E!Behind
    <2>. QED  BY <2>6, <2>7
  <1>7. ASSUME NEW b \in {-1, 0, 1}, FieldButton(b)  PROVE FieldIInv' /\ UNCHANGED seen
    <2>1. pressed' \in {-1, 0, 1} /\ shown' \in {0, 1} /\ result = FieldOpen
          /\ UNCHANGED <<instr, pos, show_x, input_x, field, result>>
      BY <1>7 DEF FieldButton, Marked
    <2>. QED  BY <1>t, <1>c, <1>w, <2>1, <1>o DEF CountersAgree, FieldWindow
  <1>8. ASSUME NEW r \in {0, 1, EscKey}, LeaveField(r)  PROVE FieldIInv' /\ E!Close
    <2>1. result = FieldOpen /\ result' = r /\ UNCHANGED <<instr, pos, show_x, input_x, pressed, shown, field>>
      BY <1>8 DEF LeaveField
    <2>. QED  BY <1>t, <2>1, <1>x DEF E!Close
  <1>9. CASE UNCHANGED fieldVars
    BY <1>9 DEF fieldVars, FieldIInv, FieldTypes, FieldTypeOK, CountersAgree, FieldWindow
  <1>. QED  BY <1>1, <1>2, <1>3, <1>4, <1>5, <1>6, <1>7, <1>8, <1>9 DEF FieldNext, E!Next

\* The inductive invariant holds always.
THEOREM FieldInvariance == FieldSpec => []FieldIInv
  BY FieldInitIInv, FieldStepIInv, PTL DEF FieldSpec

\* For texts and fields of every length: every counter has its type, the cursor
\* is in the field and in the text, and the cells show the text.
THEOREM BoxCorrect == FieldSpec => [](FieldTypeOK /\ CursorInField /\ FieldShowsText)
  <1>1. FieldIInv => FieldTypeOK /\ CursorInField /\ FieldShowsText
    BY DEF FieldIInv, FieldTypes, CountersAgree, CursorInField, FieldShowsText, FieldWindow, Cells
  <1>. QED  BY <1>1, FieldInvariance, PTL

\* The box implements LineEdit: for texts and fields of every length a key takes
\* effect at the cursor that is seen in the field, and leaves every cell right.
THEOREM BoxEdits == FieldSpec => Edits
  <1>1. FieldInit => E!Init  BY DEF FieldInit, E!Init
  <1>. QED  BY <1>1, FieldStepIInv, FieldInvariance, PTL DEF FieldSpec, Edits, E!Spec

-----------------------------------------------------------------------------
(* The list of the members of a choice.                                    *)

\* The window lies in the list, and the highlighted row in the window.
InList(m, c, s) ==
  /\ c < Rowcount(list_height, Len(m)) /\ s + Rowcount(list_height, Len(m)) <= Len(m)

\* Behind a key that picks, only the highlighted item is picked.
PickedOne == list_ret \in {0, 1} => picked = {i \in DOMAIN members : i = ListHighlighted + 1}

\* The inductive invariant.
ListIInv ==
  /\ members \in Menus \cup {<<>>} /\ list_choice \in Nat /\ list_scroll \in Nat /\ list_button \in {0, 1}
  /\ Len(members) > 0 => InList(members, list_choice, list_scroll) /\ Drawing(list_screen, list_scroll, Rowcount(list_height, Len(members)))
  /\ PickedOne

LEMMA MenuLen ==
  ASSUME NEW m \in Menus \cup {<<>>}
  PROVE  Len(m) \in Nat /\ DOMAIN m = 1..Len(m)
  <1>1. CASE m \in Menus
    <2>1. m \in Seq({m[i] : i \in DOMAIN m})  BY <1>1, ChecklistAssumption
    <2>. QED  BY <2>1
  <1>2. CASE m = <<>>  BY <1>2
  <1>. QED  BY <1>1, <1>2

\* Where a list is opened is an item of it.
LEMMA StartItemOK ==
  ASSUME NEW m \in Menus \cup {<<>>}, NEW a, NEW v
  PROVE  StartItem(m, a, v) \in Nat /\ (Len(m) > 0 => StartItem(m, a, v) < Len(m))
  <1> DEFINE flagged == {i \in DOMAIN m : m[i].s = a}
             marked == {i \in DOMAIN m : m[i].s = v}
  <1>1. Len(m) \in Nat /\ DOMAIN m = 1..Len(m)  BY MenuLen
  <1>2. CASE flagged # {}
    <2>1. flagged \in SUBSET Nat /\ flagged # {}  BY <1>1, <1>2
    <2>2. \E i \in flagged : \A j \in flagged : i <= j  BY <2>1, LeastExists
    <2>3. (CHOOSE i \in flagged : \A j \in flagged : i <= j) \in 1..Len(m)  BY <1>1, <2>2
    <2>4. StartItem(m, a, v) = (CHOOSE i \in flagged : \A j \in flagged : i <= j) - 1
      BY <1>2 DEF StartItem
    <2> HIDE DEF flagged
    <2>. QED  BY <1>1, <2>3, <2>4
  <1>3. CASE flagged = {} /\ marked # {}
    <2> DEFINE back == {Len(m) - i : i \in marked}
    <2>1. back \in SUBSET Nat /\ back # {}  BY <1>1, <1>3
    <2>2. PICK b \in back : \A j \in back : b <= j  BY <2>1, LeastExists
    <2>3. \E i \in marked : \A j \in marked : j <= i
      <3>1. PICK i \in marked : b = Len(m) - i  OBVIOUS
      <3>2. ASSUME NEW j \in marked  PROVE j <= i
        <4>1. Len(m) - i <= Len(m) - j  BY <2>2, <3>1
        <4>. QED  BY <1>1, <4>1
      <3>. QED  BY <3>2
    <2>4. (CHOOSE i \in marked : \A j \in marked : j <= i) \in 1..Len(m)  BY <1>1, <2>3
    <2>5. StartItem(m, a, v) = (CHOOSE i \in marked : \A j \in marked : j <= i) - 1
      BY <1>3 DEF StartItem
    <2> HIDE DEF marked
    <2>. QED  BY <1>1, <2>4, <2>5
  <1>4. CASE flagged = {} /\ marked = {}  BY <1>1, <1>4 DEF StartItem
  <1>. QED  BY <1>2, <1>3, <1>4

\* However a list is shown, it is drawn from where it is scrolled to.
LEMMA ShowsOK ==
  ASSUME NEW m \in Menus \cup {<<>>}, NEW c \in Nat, NEW s \in Nat,
         Len(m) > 0 => c < Len(m) /\ s + Rowcount(list_height, Len(m)) <= Len(m),
         ShowList(m, c, s)
  PROVE  /\ list_choice' \in Nat /\ list_scroll' \in Nat
         /\ Len(m) > 0 => InList(m, list_choice', list_scroll') /\ Drawing(list_screen', list_scroll', Rowcount(list_height, Len(m)))
         /\ s = 0 => list_scroll' + list_choice' = c
  <1>1. Len(m) \in Nat /\ list_height \in Nat \ {0}  BY MenuLen, ChecklistAssumption
  <1>2. /\ list_scroll' = (IF c >= list_height THEN c - list_height + 1 ELSE s)
        /\ list_choice' = (IF c >= list_height THEN list_height - 1 ELSE c)
        /\ list_screen' = [i \in 0..Rowcount(list_height, Len(m)) - 1 |-> list_scroll' + i]
    BY DEF ShowList, Scrolled, Row, Rowcount
  <1>3. list_choice' \in Nat /\ list_scroll' \in Nat /\ (s = 0 => list_scroll' + list_choice' = c)  BY <1>1, <1>2
  <1>4. ASSUME Len(m) > 0  PROVE InList(m, list_choice', list_scroll')
    <2>1. c < Len(m) /\ s + Rowcount(list_height, Len(m)) <= Len(m)  BY <1>4
    <2>2. CASE c >= list_height  BY <1>1, <1>2, <2>1, <2>2 DEF InList, Rowcount
    <2>3. CASE c < list_height  BY <1>1, <1>2, <2>1, <2>3 DEF InList, Rowcount
    <2>. QED  BY <1>1, <2>2, <2>3
  <1>5. Drawing(list_screen', list_scroll', Rowcount(list_height, Len(m)))  BY <1>2 DEF Drawing
  <1>. QED  BY <1>3, <1>4, <1>5

\* A list that is opened.
LEMMA BuildOK ==
  ASSUME NEW m \in Menus \cup {<<>>}, NEW a, NEW v, members' = m, Build(m, a, v)
  PROVE  ListIInv' /\ list_scroll' + list_choice' = StartItem(m, a, v)
  <1>1. StartItem(m, a, v) \in Nat /\ (Len(m) > 0 => StartItem(m, a, v) < Len(m))
    BY StartItemOK
  <1>2. Len(m) \in Nat /\ list_height \in Nat \ {0}  BY MenuLen, ChecklistAssumption
  <1>3. 0 + Rowcount(list_height, Len(m)) <= Len(m)  BY <1>2 DEF Rowcount
  <1>4. ShowList(m, StartItem(m, a, v), 0) /\ list_button' = 0 /\ list_ret' = -1
    BY DEF Build, ListOpen
  <1>5. /\ list_choice' \in Nat /\ list_scroll' \in Nat
        /\ Len(m) > 0 => InList(m, list_choice', list_scroll') /\ Drawing(list_screen', list_scroll', Rowcount(list_height, Len(m)))
        /\ 0 = 0 => list_scroll' + list_choice' = StartItem(m, a, v)
    BY <1>1, <1>3, <1>4, ShowsOK
  <1>6. PickedOne'  BY <1>4 DEF PickedOne
  <1>. QED  BY <1>4, <1>5, <1>6 DEF ListIInv

\* A key that moves the highlight inside the box.
LEMMA MoveOK ==
  ASSUME ListIInv, ListStays, list_ret = ListOpen,
         list_choice' \in Nat, list_scroll' \in Nat,
         Len(members) > 0 => /\ list_choice' < Rowcount(list_height, Len(members))
                          /\ list_scroll' + Rowcount(list_height, Len(members)) <= Len(members)
                          /\ DOMAIN list_screen' = DOMAIN list_screen
                          /\ \A i \in 0..Rowcount(list_height, Len(members)) - 1 : list_screen'[i] = list_scroll' + i
  PROVE  ListIInv'
  <1>1. UNCHANGED <<members, picked, list_button, list_ret>> /\ list_ret = -1  BY DEF ListStays, ListOpen
  <1>2. PickedOne'  BY <1>1 DEF PickedOne
  <1>. QED  BY <1>1, <1>2 DEF ListIInv, InList, Drawing

\* A letter goes to a row of the window.
LEMMA RowsOK ==
  ASSUME ListIInv, NEW k, ListRows(k) # {}
  PROVE  LET c == CHOOSE i \in ListRows(k) : \A j \in ListRows(k) : i <= j
         IN  c \in 0..Rowcount(list_height, Len(members)) - 1
  <1>1. Len(members) \in Nat /\ list_height \in Nat \ {0}  BY MenuLen, ChecklistAssumption DEF ListIInv
  <1>2. ListRows(k) \subseteq 0..Rowcount(list_height, Len(members)) - 1
    BY DEF ListRows, list_rows, list_count, Rowcount
  <1>3. \E i \in ListRows(k) : \A j \in ListRows(k) : i <= j
    <2>1. ListRows(k) \subseteq Nat  BY <1>2
    <2>. QED  BY <2>1, LeastExists
  <1>4. (CHOOSE i \in ListRows(k) : \A j \in ListRows(k) : i <= j) \in ListRows(k)  BY <1>3
  <1>. QED  BY <1>2, <1>4

\* Every action keeps the highlight on an item that is drawn in its row.
LEMMA ListStepIInv ==
  ASSUME ListIInv, [ListNext]_listVars
  PROVE  ListIInv'
  <1>l. Len(members) \in Nat /\ DOMAIN members = 1..Len(members)  BY MenuLen DEF ListIInv
  <1>h. list_height \in Nat \ {0}  BY ChecklistAssumption
  <1>t. members \in Menus \cup {<<>>} /\ list_choice \in Nat /\ list_scroll \in Nat /\ list_button \in {0, 1}  BY DEF ListIInv
  <1>m. list_rows = Rowcount(list_height, Len(members)) /\ list_count = Len(members)
    BY DEF list_rows, list_count, Rowcount
  <1>n. Len(members) > 0 => /\ list_choice < Rowcount(list_height, Len(members))
                         /\ list_scroll + Rowcount(list_height, Len(members)) <= Len(members)
                         /\ DOMAIN list_screen = 0..Rowcount(list_height, Len(members)) - 1
                         /\ \A i \in 0..Rowcount(list_height, Len(members)) - 1 : list_screen[i] = list_scroll + i
    BY DEF ListIInv, InList, Drawing
  <1>r. Rowcount(list_height, Len(members)) \in Nat /\ (Len(members) > 0 => Rowcount(list_height, Len(members)) > 0)
    BY <1>l, <1>h DEF Rowcount
  <1>1. CASE conf_choice
    <2>1. PICK m \in Menus : \E v \in ChoiceValues(m) : members' = m /\ Build(m, v, v)
      BY <1>1 DEF conf_choice
    <2>2. PICK v \in ChoiceValues(m) : members' = m /\ Build(m, v, v)  BY <2>1
    <2>. QED  BY <2>2, BuildOK
  <1>2. CASE ListHelp
    <2>1. members' = members /\ Build(members, active', value)  BY <1>2 DEF ListHelp
    <2>2. ASSUME NEW a, NEW v, Build(members, a, v)  PROVE ListIInv'  BY <1>t, <2>1, <2>2, BuildOK
    <2>. QED  BY <2>1, <2>2
  <1>3. CASE Comment
    <2>1. members' = members /\ Build(members, active, value)  BY <1>3 DEF Comment
    <2>. QED  BY <1>t, <2>1, BuildOK
  <1>4. CASE Set \/ Escape \/ ListEsc
    <2>1. UNCHANGED <<members, list_choice, list_scroll, list_button, list_screen>> /\ list_ret' \in {-2, 27}
      <3>1. CASE Set  BY <3>1 DEF windowVars, Set, ListLeft
      <3>2. CASE Escape  BY <3>2 DEF windowVars, Escape, ListLeft
      <3>3. CASE ListEsc
        <4>1. list_ret' = ListEscKey /\ UNCHANGED <<members, value, active, picked, list_choice, list_scroll, list_button, list_screen>>
          BY <3>3, Zenon DEF windowVars, ListEsc
        <4>. QED  BY <4>1 DEF ListEscKey
      <3>. QED  BY <1>4, <3>1, <3>2, <3>3
    <2>2. PickedOne'  BY <2>1 DEF PickedOne
    <2>. QED  BY <2>1, <2>2 DEF ListIInv, InList, Drawing
  <1>5. CASE ListUp
    <2>1. list_ret = ListOpen /\ ListStays  BY <1>5 DEF windowVars, ListUp, ListKey
    <2>2. CASE list_choice > 0
      <3>1. list_choice' = list_choice - 1 /\ list_scroll' = list_scroll
            /\ list_screen' = [i \in DOMAIN list_screen |-> IF i \in {list_choice, list_choice - 1} THEN list_scroll + i ELSE list_screen[i]]
        BY <1>5, <2>2 DEF windowVars, ListUp, Redraw
      <3>2. list_choice' \in Nat /\ list_scroll' \in Nat  BY <1>t, <2>2, <3>1
      <3>3. Len(members) > 0 => list_choice' < Rowcount(list_height, Len(members))  BY <1>t, <1>n, <1>r, <3>1
      <3>4. DOMAIN list_screen' = DOMAIN list_screen /\ \A i \in DOMAIN list_screen : list_screen[i] = list_scroll + i => list_screen'[i] = list_scroll' + i
        BY <3>1
      <3>. QED  BY <1>n, <2>1, <3>1, <3>2, <3>3, <3>4, MoveOK
    <2>3. CASE ~(list_choice > 0) /\ list_scroll = 0
      <3>1. UNCHANGED <<list_choice, list_scroll, list_screen>>  BY <1>5, <2>3 DEF windowVars, ListUp
      <3>. QED  BY <1>t, <1>n, <2>1, <3>1, MoveOK
    <2>4. CASE ~(list_choice > 0) /\ list_scroll # 0
      <3>1. list_choice' = list_choice /\ list_scroll' = list_scroll - 1
            /\ list_screen' = [i \in DOMAIN list_screen |-> IF i = 0 THEN list_scroll - 1 ELSE list_screen[i - 1]]
        BY <1>5, <2>4 DEF windowVars, ListUp
      <3>2. list_choice' \in Nat /\ list_scroll' \in Nat  BY <1>t, <2>4, <3>1
      <3>3. ASSUME Len(members) > 0
            PROVE  /\ list_choice' < Rowcount(list_height, Len(members))
                   /\ list_scroll' + Rowcount(list_height, Len(members)) <= Len(members)
                   /\ DOMAIN list_screen' = DOMAIN list_screen
                   /\ \A i \in 0..Rowcount(list_height, Len(members)) - 1 : list_screen'[i] = list_scroll' + i
        <4>1. list_scroll' + Rowcount(list_height, Len(members)) <= Len(members)  BY <1>l, <1>t, <1>n, <1>r, <3>1, <3>3
        <4>2. ASSUME NEW i \in 0..Rowcount(list_height, Len(members)) - 1  PROVE list_screen'[i] = list_scroll' + i
          <5>1. CASE i = 0  BY <1>t, <1>n, <1>r, <3>1, <3>3, <5>1
          <5>2. CASE i # 0
            <6>1. i - 1 \in 0..Rowcount(list_height, Len(members)) - 1 /\ i \in Int  BY <1>r, <5>2
            <6>2. list_screen[i - 1] = list_scroll + (i - 1) /\ list_screen'[i] = list_screen[i - 1]  BY <1>n, <3>1, <3>3, <5>2, <6>1
            <6>. QED  BY <1>t, <3>1, <6>1, <6>2
          <5>. QED  BY <5>1, <5>2
        <4>. QED  BY <1>n, <3>1, <3>3, <4>1, <4>2
      <3>. QED  BY <2>1, <3>2, <3>3, MoveOK
    <2>. QED  BY <2>2, <2>3, <2>4
  <1>6. CASE ListDown
    <2>1. list_ret = ListOpen /\ ListStays  BY <1>6 DEF windowVars, ListDown, ListKey
    <2>2. CASE list_choice # list_rows - 1
      <3>1. list_choice' = list_choice + 1 /\ list_scroll' = list_scroll
            /\ list_screen' = [i \in DOMAIN list_screen |-> IF i \in {list_choice, list_choice + 1} THEN list_scroll + i ELSE list_screen[i]]
        BY <1>6, <2>2 DEF windowVars, ListDown, Redraw
      <3>2. list_choice' \in Nat /\ list_scroll' \in Nat  BY <1>t, <3>1
      <3>3. Len(members) > 0 => list_choice' < Rowcount(list_height, Len(members))
        <4> DEFINE R == Rowcount(list_height, Len(members))
        <4>1. R \in Nat /\ list_choice # R - 1 /\ (Len(members) > 0 => list_choice < R)  BY <1>m, <1>n, <1>r, <2>2
        <4> HIDE DEF R
        <4>2. Len(members) > 0 => list_choice' < R  BY <1>t, <3>1, <4>1
        <4>. QED  BY <4>2 DEF R
      <3>4. DOMAIN list_screen' = DOMAIN list_screen /\ \A i \in DOMAIN list_screen : list_screen[i] = list_scroll + i => list_screen'[i] = list_scroll' + i
        BY <3>1
      <3>. QED  BY <1>n, <2>1, <3>1, <3>2, <3>3, <3>4, MoveOK
    <2>3. CASE list_choice = list_rows - 1 /\ ListHighlighted >= list_count - 1
      <3>1. UNCHANGED <<list_choice, list_scroll, list_screen>>  BY <1>6, <2>3 DEF windowVars, ListDown
      <3>. QED  BY <1>t, <1>n, <2>1, <3>1, MoveOK
    <2>4. CASE list_choice = list_rows - 1 /\ ~(ListHighlighted >= list_count - 1)
      <3>1. list_choice' = list_choice /\ list_scroll' = list_scroll + 1
            /\ list_screen' = [i \in DOMAIN list_screen |-> IF i = list_choice THEN list_scroll + 1 + i ELSE list_screen[i + 1]]
        BY <1>6, <2>4 DEF windowVars, ListDown
      <3>2. list_choice' \in Nat /\ list_scroll' \in Nat  BY <1>t, <3>1
      <3>3. ASSUME Len(members) > 0
            PROVE  /\ list_choice' < Rowcount(list_height, Len(members))
                   /\ list_scroll' + Rowcount(list_height, Len(members)) <= Len(members)
                   /\ DOMAIN list_screen' = DOMAIN list_screen
                   /\ \A i \in 0..Rowcount(list_height, Len(members)) - 1 : list_screen'[i] = list_scroll' + i
        <4>1. list_scroll' + Rowcount(list_height, Len(members)) <= Len(members)
          BY <1>l, <1>t, <1>m, <1>n, <1>r, <2>4, <3>1, <3>3 DEF ListHighlighted
        <4>2. ASSUME NEW i \in 0..Rowcount(list_height, Len(members)) - 1  PROVE list_screen'[i] = list_scroll' + i
          <5>1. CASE i = list_choice  BY <1>t, <1>n, <1>r, <3>1, <3>3, <5>1
          <5>2. CASE i # list_choice
            <6>1. i + 1 \in 0..Rowcount(list_height, Len(members)) - 1 /\ i \in Int  BY <1>m, <1>r, <1>t, <2>4, <5>2
            <6>2. list_screen[i + 1] = list_scroll + (i + 1) /\ list_screen'[i] = list_screen[i + 1]  BY <1>n, <3>1, <3>3, <5>2, <6>1
            <6>. QED  BY <1>t, <3>1, <6>1, <6>2
          <5>. QED  BY <5>1, <5>2
        <4>. QED  BY <1>n, <3>1, <3>3, <4>1, <4>2
      <3>. QED  BY <2>1, <3>2, <3>3, MoveOK
    <2>. QED  BY <2>2, <2>3, <2>4
  <1>7. CASE ListButton
    <2>1. list_button' = 1 - list_button /\ UNCHANGED <<members, picked, list_choice, list_scroll, list_screen, list_ret>> /\ list_ret = -1
      BY <1>7 DEF windowVars, ListButton, ListKey, ListOpen
    <2>2. list_button' \in {0, 1}  BY <1>t, <2>1
    <2>3. PickedOne'  BY <2>1 DEF PickedOne
    <2>. QED  BY <2>1, <2>2, <2>3 DEF ListIInv, InList, Drawing
  <1>8. CASE ListResize
    <2>1. list_ret = ListOpen /\ ListStays /\ ShowList(members, list_choice, list_scroll)
      BY <1>8 DEF ListResize, ListKey
    <2>2. Len(members) > 0 => list_choice < Len(members) /\ list_scroll + Rowcount(list_height, Len(members)) <= Len(members)
      BY <1>l, <1>t, <1>n, <1>h DEF Rowcount
    <2>3. /\ list_choice' \in Nat /\ list_scroll' \in Nat
          /\ Len(members) > 0 => InList(members, list_choice', list_scroll') /\ Drawing(list_screen', list_scroll', Rowcount(list_height, Len(members)))
      BY <1>t, <2>1, <2>2, ShowsOK
    <2>4. UNCHANGED <<members, picked, list_button, list_ret>> /\ list_ret = -1  BY <2>1 DEF ListStays, ListOpen
    <2>5. PickedOne'  BY <2>4 DEF PickedOne
    <2>. QED  BY <1>t, <2>3, <2>4, <2>5 DEF ListIInv
  <1>9. ASSUME NEW k \in ListKeys, ListHotkey(k)  PROVE ListIInv'
    <2>1. list_ret = ListOpen /\ ListStays /\ ListRows(k) # {} /\ list_scroll' = list_scroll
          /\ list_choice' = (CHOOSE i \in ListRows(k) : \A j \in ListRows(k) : i <= j)
          /\ list_screen' = [i \in DOMAIN list_screen |-> IF i \in {list_choice, list_choice'} THEN list_scroll + i ELSE list_screen[i]]
      BY <1>9 DEF ListHotkey, ListKey, Redraw
    <2>2. list_choice' \in 0..Rowcount(list_height, Len(members)) - 1  BY <2>1, RowsOK
    <2>3. list_choice' \in Nat /\ list_choice' < Rowcount(list_height, Len(members)) /\ list_scroll' \in Nat  BY <1>t, <1>r, <2>1, <2>2
    <2>4. DOMAIN list_screen' = DOMAIN list_screen /\ \A i \in DOMAIN list_screen : list_screen[i] = list_scroll + i => list_screen'[i] = list_scroll' + i
      BY <2>1
    <2>. QED  BY <1>n, <2>1, <2>3, <2>4, MoveOK
  <1>10. ASSUME NEW k \in ListKeys, Select(k)  PROVE ListIInv'
    <2>1. UNCHANGED <<members, list_choice, list_scroll, list_screen>> /\ list_button' \in {0, 1}
          /\ picked' = {i \in DOMAIN members : i = ListHighlighted + 1}
      BY <1>t, <1>10 DEF windowVars, Select
    <2>2. PickedOne'  BY <2>1 DEF PickedOne, ListHighlighted
    <2>. QED  BY <2>1, <2>2 DEF ListIInv, InList, Drawing
  <1>11. CASE UNCHANGED listVars
    BY <1>11 DEF listVars, windowVars, ListIInv, InList, Drawing, PickedOne, ListHighlighted
  <1>. QED  BY <1>1, <1>2, <1>3, <1>4, <1>5, <1>6, <1>7, <1>8, <1>9, <1>10, <1>11 DEF ListNext

LEMMA ListInitIInv == ListInit => ListIInv
  BY DEF ListInit, ListIInv, PickedOne, ListLeft

\* The inductive invariant holds always.
THEOREM ListInvariance == ListSpec => []ListIInv
  <1>2. ListIInv /\ [ListNext]_listVars => ListIInv'  BY ListStepIInv
  <1>. QED  BY <1>2, ListInitIInv, PTL DEF ListSpec

\* With lists of every length in windows of every height, the highlight is on an
\* item, and every row shows the item that is selected there.
THEOREM ListShown == ListSpec => []ShowsList
  <1>2. ASSUME ListIInv  PROVE ShowsList
    <2>1. Len(members) \in Nat  BY <1>2, MenuLen DEF ListIInv
    <2>. QED  BY <1>2, <2>1 DEF ListIInv, InList, Drawing, Rowcount, ShowsList, list_count, list_rows
  <1>. QED  BY <1>2, ListInvariance, PTL

\* An arrow moves the highlight by one item, the items moving under it at an edge.
THEOREM ListArrows == ListSpec => ArrowsMoveInList
  <1> DEFINE One == list_count > 0 =>
        LET to == list_scroll' + list_choice' IN
        /\ ListUp => to = ListHighlighted - 1 \/ (to = 0 /\ ListHighlighted = 0)
        /\ ListDown => to = ListHighlighted + 1 \/ (to = list_count - 1 /\ ListHighlighted = to)
  <1>2. ASSUME ListIInv  PROVE One
    <2>1. Len(members) \in Nat /\ list_height \in Nat \ {0}
      BY <1>2, MenuLen, ChecklistAssumption DEF ListIInv
    <2>2. list_choice \in Nat /\ list_scroll \in Nat  BY <1>2 DEF ListIInv
    <2>3. ASSUME list_count > 0, ListUp
          PROVE  list_scroll' + list_choice' = ListHighlighted - 1 \/ (list_scroll' + list_choice' = 0 /\ ListHighlighted = 0)
      BY <2>2, <2>3 DEF windowVars, ListUp, ListHighlighted
    <2>4. ASSUME list_count > 0, ListDown
          PROVE  \/ list_scroll' + list_choice' = ListHighlighted + 1
                 \/ list_scroll' + list_choice' = list_count - 1 /\ ListHighlighted = list_scroll' + list_choice'
      <3>1. list_choice < list_rows /\ list_scroll + list_rows <= list_count
        BY <1>2, <2>1, <2>4 DEF ListIInv, InList, Rowcount, list_rows, list_count
      <3>2. list_count \in Nat /\ list_rows \in Nat
        BY <2>1 DEF list_rows, list_count
      <3>3. CASE list_choice # list_rows - 1  BY <2>2, <2>4, <3>3 DEF windowVars, ListDown, ListHighlighted
      <3>4. CASE list_choice = list_rows - 1 /\ ListHighlighted >= list_count - 1
        <4>1. list_scroll' = list_scroll /\ list_choice' = list_choice  BY <2>4, <3>4 DEF windowVars, ListDown
        <4>. QED  BY <2>2, <3>1, <3>2, <3>4, <4>1 DEF ListHighlighted
      <3>5. CASE list_choice = list_rows - 1 /\ ~(ListHighlighted >= list_count - 1)
        BY <2>2, <2>4, <3>5 DEF windowVars, ListDown, ListHighlighted
      <3>. QED  BY <3>3, <3>4, <3>5
    <2>. QED  BY <2>3, <2>4
  <1>. QED  BY <1>2, ListInvariance, PTL DEF ArrowsMoveInList

\* What becomes the value of a choice is the member on the highlighted row.
THEOREM ListSets == ListSpec => SetsWhatIsShown
  <1> DEFINE Shown == (value' # value /\ list_last' # "open") =>
        list_count > 0 /\ list_last' = "set" /\ value' = members[list_screen[list_choice] + 1].s /\ value' # NoSymbol
  <1>2. ASSUME ListIInv, [ListNext]_listVars  PROVE Shown
    <2>1. SUFFICES ASSUME value' # value, list_last' # "open"
                   PROVE  list_count > 0 /\ list_last' = "set" /\ value' = members[list_screen[list_choice] + 1].s /\ value' # NoSymbol
      OBVIOUS
    <2>2. Set
      <3>1. ~UNCHANGED listVars /\ ~conf_choice  BY <2>1 DEF listVars, windowVars, conf_choice
      <3>2. ~ListHelp /\ ~Comment /\ ~Escape /\ ~ListButton
        BY <2>1 DEF ListHelp, Comment, Escape, ListButton
      <3>5. ListEsc => UNCHANGED value
        <4>1. ListEsc => UNCHANGED <<members, value, active, picked, windowVars, list_button>>
          BY Zenon DEF ListEsc
        <4>. QED  BY <4>1
      <3>3. ~ListUp /\ ~ListDown /\ ~ListResize
        BY <2>1 DEF ListUp, ListDown, ListResize, ListStays
      <3>4. ASSUME NEW k \in ListKeys  PROVE ~ListHotkey(k) /\ ~Select(k)
        BY <2>1 DEF ListHotkey, Select, ListStays
      <3>. QED  BY <1>2, <2>1, <3>1, <3>2, <3>3, <3>4, <3>5 DEF ListNext
    <2>3. list_ret = 0 /\ picked # {} /\ value' = members[Chosen].s /\ value' # NoSymbol /\ list_last' = "set"
      BY <2>1, <2>2 DEF Set
    <2>4. picked = {i \in DOMAIN members : i = ListHighlighted + 1}  BY <1>2, <2>3 DEF ListIInv, PickedOne
    <2>5. Len(members) \in Nat /\ DOMAIN members = 1..Len(members)  BY <1>2, MenuLen DEF ListIInv
    <2>6. ListHighlighted + 1 \in 1..Len(members) /\ picked = {ListHighlighted + 1}  BY <2>3, <2>4, <2>5
    <2>7. Chosen = ListHighlighted + 1
      <3>1. \A i \in picked : i = ListHighlighted + 1  BY <2>6
      <3>2. \E i \in picked : \A j \in picked : i <= j  BY <2>6
      <3>3. Chosen \in picked  BY <3>2 DEF Chosen
      <3>. QED  BY <3>1, <3>3
    <2>8. list_screen[list_choice] = list_scroll + list_choice
      <3>1. Len(members) > 0  BY <2>5, <2>6
      <3>2. list_choice \in 0..Rowcount(list_height, Len(members)) - 1
        BY <1>2, <2>5, <3>1, ChecklistAssumption DEF ListIInv, InList, Rowcount
      <3>. QED  BY <1>2, <3>1, <3>2 DEF ListIInv, Drawing
    <2>. QED  BY <2>3, <2>5, <2>6, <2>7, <2>8 DEF ListHighlighted, list_count
  <1>. QED  BY <1>2, ListInvariance, PTL DEF ListSpec, SetsWhatIsShown

\* Behind the help the highlight is on the member it was about.
THEOREM HelpKeeps == ListSpec => HelpKeepsPlace
  <1> DEFINE Kept == (ListHelp /\ list_count > 0 /\ members[ListHighlighted + 1].s # NoSymbol)
                       => list_scroll' + list_choice' = ListHighlighted
  <1>2. ASSUME ListIInv  PROVE Kept
    <2>1. SUFFICES ASSUME ListHelp, list_count > 0, members[ListHighlighted + 1].s # NoSymbol
                   PROVE  list_scroll' + list_choice' = ListHighlighted
      OBVIOUS
    <2>2. Len(members) \in Nat /\ DOMAIN members = 1..Len(members) /\ list_height \in Nat \ {0}
      BY <1>2, MenuLen, ChecklistAssumption DEF ListIInv
    <2>3. list_choice \in Nat /\ list_scroll \in Nat /\ Len(members) > 0  BY <1>2, <2>1 DEF ListIInv, list_count
    <2>4. ListHighlighted + 1 \in 1..Len(members)
      BY <1>2, <2>2, <2>3 DEF ListIInv, InList, Rowcount, ListHighlighted
    <2>5. picked = {ListHighlighted + 1}
      <3>1. list_ret = 1  BY <2>1 DEF ListHelp
      <3>. QED  BY <1>2, <2>2, <2>4, <3>1 DEF ListIInv, PickedOne
    <2>6. Chosen = ListHighlighted + 1
      <3>1. \A i \in picked : i = ListHighlighted + 1  BY <2>5
      <3>2. \E i \in picked : \A j \in picked : i <= j  BY <2>4, <2>5
      <3>3. Chosen \in picked  BY <3>2 DEF Chosen
      <3>. QED  BY <3>1, <3>3
    <2>7. active' = members[ListHighlighted + 1].s /\ members' = members /\ Build(members, active', value)
      BY <2>1, <2>5, <2>6 DEF ListHelp
    <2>8. members \in Menus
      <3>1. members # <<>>  BY <2>3
      <3>. QED  BY <1>2, <3>1 DEF ListIInv
    <2>9. {i \in DOMAIN members : members[i].s = active'} = {ListHighlighted + 1}
      <3>1. \A i, j \in DOMAIN members : members[i].s = members[j].s => i = j \/ members[i].s = NoSymbol
        BY <2>8, ChecklistAssumption
      <3>. QED  BY <2>1, <2>2, <2>4, <2>7, <3>1
    <2>10. StartItem(members, active', value) = ListHighlighted
      <3> DEFINE F == {i \in DOMAIN members : members[i].s = active'}
      <3>1. StartItem(members, active', value) = (CHOOSE i \in F : \A j \in F : i <= j) - 1
        BY <2>9 DEF StartItem
      <3>2. F = {ListHighlighted + 1}  BY <2>9
      <3> HIDE DEF F
      <3>3. \E i \in F : \A j \in F : i <= j  BY <2>4, <3>2
      <3>4. (CHOOSE i \in F : \A j \in F : i <= j) \in F  BY <3>3
      <3>. QED  BY <2>3, <3>1, <3>2, <3>4 DEF ListHighlighted
    <2>11. ASSUME NEW a, Build(members, a, value)
           PROVE  list_scroll' + list_choice' = StartItem(members, a, value)
      BY <2>7, <2>8, <2>11, BuildOK
    <2>. QED  BY <2>7, <2>10, <2>11
  <1>. QED  BY <1>2, ListInvariance, PTL DEF HelpKeepsPlace

\* Over scrolling, comments, help and a second opening, the member that becomes
\* the value is the one on the highlighted row.
THEOREM ChoosesShown == ListSpec => ChoosesWhatIsShown
  BY ListShown, ListArrows, ListSets, HelpKeeps, PTL DEF ChoosesWhatIsShown

-----------------------------------------------------------------------------
(* The pager.  A page is drawn from its first line f on; all the variables *)
(* follow from f.                                                          *)

\* Where the last page of search results starts.
LastPage(t, h) == Higher(t.lines - h + 1, 0)

PageAt(f) ==
  /\ f \in 0..End(text)
  /\ page = Lower(f + boxh, End(text))
  /\ begin_reached = (IF f = 0 THEN 1 ELSE 0)
  /\ end_reached = (IF f + boxh > text.lines THEN 1 ELSE 0)
  /\ page_length = Higher(1, Lower(boxh, text.lines - f + 1))
  /\ page_screen = [i \in 0..boxh - 1 |-> IF f + i < End(text) THEN f + i ELSE NoLine]
  /\ keys = IF text.kind = "search" THEN Offered(text, f, page) ELSE {}
  /\ text.kind = "search" => f + boxh <= text.lines \/ f = LastPage(text, boxh)

\* A page of search results that was left, with its first line saved.
PageLeft(f) ==
  /\ f \in 0..End(text) /\ vscroll0 = f /\ hscroll0 = hscroll /\ text.kind = "search"
  /\ page_screen = [i \in 0..boxh - 1 |-> IF f + i < End(text) THEN f + i ELSE NoLine]
  /\ f + boxh <= text.lines \/ f = LastPage(text, boxh)

\* The inductive invariant.
TextIInv ==
  /\ text \in Texts /\ vscroll0 \in Nat
  /\ page_ret = "open" => boxh \in Nat \ {0} /\ \E f \in Nat : PageAt(f)
  /\ page_ret = "jump" => boxh \in Nat \ {0} /\ \E f \in Nat : PageLeft(f)

LEMMA TextSizes ==
  ASSUME NEW t \in Texts
  PROVE  /\ t.lines \in Nat /\ t.rest \in BOOLEAN /\ End(t) \in Nat \ {0}
         /\ End(t) = t.lines \/ (End(t) = t.lines + 1 /\ t.rest /\ t.kind # "search")
         /\ ~t.rest => End(t) = t.lines
  <1>1. t.lines \in Nat /\ t.rest \in BOOLEAN /\ End(t) > 0 /\ (t.kind = "search" => ~t.rest)
    BY TextboxAssumption
  <1>2. CASE t.rest
    <2>1. End(t) = t.lines + 1  BY <1>2 DEF End
    <2>. QED  BY <1>1, <1>2, <2>1
  <1>3. CASE ~t.rest
    <2>1. End(t) = t.lines + 0  BY <1>3 DEF End
    <2>. QED  BY <1>1, <1>3, <2>1
  <1>. QED  BY <1>1, <1>2, <1>3

LEMMA HeightsOK ==
  ASSUME NEW t, NEW h \in PageHeights  PROVE HeightOf(t, h) \in Nat \ {0}
  BY TextboxAssumption DEF HeightOf, NoteHeight

\* The first line of the page that is printed from a place.
FirstLine(t, p, h) == IF t.kind = "search" /\ p + h > t.lines THEN LastPage(t, h) ELSE p

\* A place knows whether it is the start of the text.
Flag01(p) == IF p = 0 THEN 1 ELSE 0

\* Going back n lines: at the end of the text the line that told it is one.
BackTo(t, p, e, n) == Higher(p - (IF p = End(t) /\ e = 1 /\ n > 0 THEN n - 1 ELSE n), 0)

LEMMA BackOK ==
  ASSUME NEW t \in Texts, NEW p \in 1..End(t), NEW b, NEW e, NEW n \in Nat
  PROVE  /\ BackTo(t, p, e, n) \in 0..p
         /\ \E e2 : back_lines(t, Place(p, b, e), n) = Place(BackTo(t, p, e, n), Flag01(BackTo(t, p, e, n)), e2)
  <1> DEFINE read == p = End(t) /\ e = 1 /\ n > 0
             m == IF read THEN n - 1 ELSE n
             q == BackTo(t, p, e, n)
  <1>1. m \in Nat  OBVIOUS
  <1>2. q = Higher(p - m, 0)  BY DEF BackTo
  <1>3. p \in Nat /\ p > 0 /\ End(t) \in Nat  BY TextSizes
  <1>4. Place(p, b, e).page = p /\ Place(p, b, e).end = e  BY DEF Place
  <1>5. back_lines(t, Place(p, b, e), n) =
          Place(Higher(p - m, 0), IF m > 0 /\ p - m <= 0 THEN 1 ELSE 0, IF read THEN 0 ELSE e)
    BY <1>4 DEF back_lines
  <1> HIDE DEF m, q
  <1>6. q \in 0..p /\ Flag01(q) = IF m > 0 /\ p - m <= 0 THEN 1 ELSE 0
    BY <1>1, <1>2, <1>3 DEF Higher, Flag01
  <1>7. back_lines(t, Place(p, b, e), n) = Place(q, Flag01(q), IF read THEN 0 ELSE e)
    BY <1>2, <1>5, <1>6
  <1>. QED  BY <1>6, <1>7 DEF q

\* Whatever place a page is printed from, it is a page.
LEMMA PrintOK ==
  ASSUME NEW t \in Texts, NEW h \in Nat \ {0}, NEW p \in 0..End(t), NEW e,
         text' = t, boxh' = h, print_page(t, Place(p, Flag01(p), e), h)
  PROVE  \E f \in Nat : f = FirstLine(t, p, h) /\ PageAt(f)'
  <1> DEFINE s == Place(p, Flag01(p), e)
             ahead == GetLines(t, s, h)
             from == IF t.kind = "search" THEN back_lines(t, ahead, h) ELSE s
             to == GetLines(t, from, h)
             f == FirstLine(t, p, h)
  <1>1. t.lines \in Nat /\ End(t) \in Nat \ {0} /\ (t.kind = "search" => End(t) = t.lines)
        /\ (End(t) = t.lines \/ End(t) = t.lines + 1) /\ p \in Nat
    BY TextSizes
  <1>2. s.page = p /\ s.begin = Flag01(p)  BY DEF Place
  <1>3. ahead = Place(Lower(p + h, End(t)), Flag01(p), IF p + h > t.lines THEN 1 ELSE 0)
    BY <1>2 DEF GetLines
  <1>4. ahead.page = Lower(p + h, End(t))  BY <1>3 DEF Place
  <1>5. f \in 0..End(t) /\ from.page = f /\ from.begin = Flag01(f)
    <2>1. CASE t.kind # "search"  BY <1>1, <1>2, <2>1 DEF FirstLine
    <2>2. CASE t.kind = "search"
      <3> DEFINE a == Lower(p + h, End(t))
                 ae == IF p + h > t.lines THEN 1 ELSE 0
      <3>1. a \in 1..End(t)  BY <1>1 DEF Lower
      <3>2. PICK e2 : back_lines(t, Place(a, Flag01(p), ae), h) = Place(BackTo(t, a, ae, h), Flag01(BackTo(t, a, ae, h)), e2)
        BY <3>1, BackOK
      <3>3. BackTo(t, a, ae, h) = f
        <4>1. CASE p + h > t.lines
          <5>1. a = End(t) /\ ae = 1 /\ f = Higher(t.lines - h + 1, 0)
            BY <1>1, <2>2, <4>1 DEF Lower, FirstLine, LastPage
          <5>2. BackTo(t, a, ae, h) = Higher(a - (h - 1), 0)  BY <5>1 DEF BackTo
          <5>. QED  BY <1>1, <2>2, <5>1, <5>2
        <4>2. CASE ~(p + h > t.lines)
          <5>1. a = p + h /\ ae = 0 /\ f = p  BY <1>1, <2>2, <4>2 DEF Lower, FirstLine
          <5>2. BackTo(t, a, ae, h) = Higher(a - h, 0)  BY <5>1 DEF BackTo
          <5>3. a - h = p  BY <1>1, <5>1
          <5>. QED  BY <1>1, <5>1, <5>2, <5>3 DEF Higher
        <4>. QED  BY <4>1, <4>2
      <3>4. from = Place(f, Flag01(f), e2)  BY <1>3, <2>2, <3>2, <3>3
      <3>5. f \in 0..a  BY <3>1, <3>3, BackOK
      <3>. QED  BY <1>1, <3>1, <3>4, <3>5 DEF Place
    <2>. QED  BY <2>1, <2>2
  <1>6. to = Place(Lower(f + h, End(t)), Flag01(f), IF f + h > t.lines THEN 1 ELSE 0)
    BY <1>5 DEF GetLines
  <1>7. /\ page' = to.page /\ begin_reached' = to.begin /\ end_reached' = to.end
        /\ page_length' = Higher(1, Lower(h, t.lines - from.page + 1))
        /\ page_screen' = [i \in 0..h - 1 |-> IF from.page + i < End(t) THEN from.page + i ELSE NoLine]
        /\ keys' = IF t.kind = "search" THEN Offered(t, from.page, ahead.page) ELSE {}
    BY DEF print_page
  <1> HIDE DEF s, ahead, from, to, f
  <1>8. page' = Lower(f + h, End(t)) /\ begin_reached' = Flag01(f)
        /\ end_reached' = (IF f + h > t.lines THEN 1 ELSE 0)
    BY <1>6, <1>7 DEF Place
  <1>9. t.kind = "search" => page' = ahead.page
    <2>1. CASE t.kind = "search" /\ p + h > t.lines
      <3>1. f = Higher(t.lines - h + 1, 0)  BY <2>1 DEF f, FirstLine, LastPage
      <3>. QED  BY <1>1, <1>4, <1>8, <2>1, <3>1 DEF Lower, Higher
    <2>2. CASE t.kind = "search" /\ ~(p + h > t.lines)
      <3>1. f = p  BY <2>2 DEF f, FirstLine
      <3>. QED  BY <1>4, <1>8, <3>1
    <2>. QED  BY <2>1, <2>2
  <1>10. t.kind = "search" => f + h <= t.lines \/ f = LastPage(t, h)
    BY <1>1 DEF f, FirstLine
  <1>11. keys' = IF t.kind = "search" THEN Offered(t, f, page') ELSE {}  BY <1>5, <1>7, <1>9
  <1>12. PICK g \in Nat : g = f  BY <1>1, <1>5
  <1>13. PageAt(g)'
    BY <1>5, <1>7, <1>8, <1>10, <1>11, <1>12 DEF PageAt, Flag01
  <1>. QED  BY <1>12, <1>13 DEF f

\* The line on top of a page is the one it is drawn from.
LEMMA TopOK ==
  ASSUME NEW f \in Nat, text \in Texts, boxh \in Nat \ {0}, PageAt(f)  PROVE top = f
  <1>1. page_screen[0] = IF f < End(text) THEN f ELSE NoLine  BY DEF PageAt
  <1>2. f \in 0..End(text) /\ End(text) \in Nat  BY TextSizes DEF PageAt
  <1>. QED  BY <1>1, <1>2 DEF top, NoLine

LEMMA TopNextOK ==
  ASSUME NEW f \in Nat, text' \in Texts, boxh' \in Nat \ {0}, PageAt(f)'  PROVE top' = f
  <1>0. page_screen' = [i \in 0..boxh' - 1 |-> IF f + i < End(text') THEN f + i ELSE NoLine]
    BY DEF PageAt
  <1>4. \A h \in Nat \ {0} : 0 \in 0..h - 1  OBVIOUS
  <1>3. 0 \in 0..boxh' - 1  BY <1>4
  <1>1. page_screen'[0] = IF f + 0 < End(text') THEN f + 0 ELSE NoLine
    <2> DEFINE h == boxh'
               line(i) == IF f + i < End(text') THEN f + i ELSE NoLine
    <2>1. page_screen' = [i \in 0..h - 1 |-> line(i)] /\ 0 \in 0..h - 1  BY <1>0, <1>3
    <2> HIDE DEF h, line
    <2>2. page_screen'[0] = line(0)  BY <2>1
    <2>. QED  BY <2>2 DEF line
  <1>2. f \in 0..End(text') /\ End(text') \in Nat  BY TextSizes DEF PageAt
  <1>. QED  BY <1>1, <1>2 DEF top, NoLine

\* What the keys need to know of the page that is shown.
LEMMA PageSizes ==
  ASSUME TextIInv, page_ret = "open"
  PROVE  /\ text \in Texts /\ boxh \in Nat \ {0} /\ page \in 1..End(text) /\ page_length \in Nat \ {0}
         /\ \E f \in Nat : PageAt(f)
  <1>1. text \in Texts /\ boxh \in Nat \ {0}  BY DEF TextIInv
  <1>2. PICK f \in Nat : PageAt(f)  BY DEF TextIInv
  <1>3. text.lines \in Nat /\ End(text) \in Nat \ {0} /\ (End(text) = text.lines \/ End(text) = text.lines + 1)
    BY <1>1, TextSizes
  <1>4. f \in 0..End(text) /\ page = Lower(f + boxh, End(text))
        /\ page_length = Higher(1, Lower(boxh, text.lines - f + 1))
    BY <1>2 DEF PageAt
  <1>5. page \in 1..End(text)  BY <1>1, <1>3, <1>4 DEF Lower
  <1>6. page_length \in Nat \ {0}  BY <1>1, <1>3, <1>4 DEF Lower, Higher
  <1>. QED  BY <1>1, <1>2, <1>5, <1>6

\* A box that is opened shows a page.
LEMMA DialogOK ==
  ASSUME NEW t \in Texts, NEW v \in Nat, dialog_textbox(t, v)
  PROVE  /\ text' = t /\ page_ret' = "open" /\ boxh' \in Nat \ {0} /\ Lower(v, End(t)) \in 0..End(t)
         /\ \E f \in Nat : f = FirstLine(t, Lower(v, End(t)), boxh') /\ PageAt(f)'
  <1> DEFINE p == Lower(v, End(t))
             s == IF v = 0 THEN Place(0, 1, 0) ELSE GetLines(t, Place(0, 0, 0), v)
  <1>1. text' = t /\ page_ret' = "open"  BY DEF dialog_textbox
  <1>2. PICK h \in PageHeights : boxh' = HeightOf(t, h) /\ print_page(t, s, HeightOf(t, h))
    BY DEF dialog_textbox
  <1>3. boxh' \in Nat \ {0} /\ print_page(t, s, boxh')  BY <1>2, HeightsOK
  <1>4. End(t) \in Nat \ {0}  BY TextSizes
  <1>5. p \in 0..End(t)  BY <1>4 DEF Lower
  <1>6. \E e : s = Place(p, Flag01(p), e)
    <2>1. CASE v = 0
      <3>1. p = 0 /\ Flag01(p) = 1  BY <1>4, <2>1 DEF Lower, Flag01
      <3>. QED  BY <2>1, <3>1
    <2>2. CASE v # 0
      <3>1. p # 0 /\ 0 + v = v  BY <1>4, <2>2 DEF Lower
      <3>2. s = Place(p, 0, IF 0 + v > t.lines THEN 1 ELSE 0)  BY <2>2, <3>1 DEF GetLines, Place
      <3>. QED  BY <3>1, <3>2 DEF Flag01
    <2>. QED  BY <2>1, <2>2
  <1>7. PICK e : s = Place(p, Flag01(p), e)  BY <1>6
  <1> HIDE DEF p, s
  <1>8. \E f \in Nat : f = FirstLine(t, p, boxh') /\ PageAt(f)'
    <2>1. PICK n \in Nat \ {0} : n = boxh'  BY <1>3
    <2>2. boxh' = n /\ print_page(t, Place(p, Flag01(p), e), n)  BY <1>3, <1>7, <2>1
    <2>3. \E f \in Nat : f = FirstLine(t, p, n) /\ PageAt(f)'  BY <1>1, <1>5, <2>2, PrintOK
    <2>. QED  BY <2>1, <2>3
  <1>. QED  BY <1>1, <1>3, <1>5, <1>8 DEF p

\* A key inside the box shows a page.
LEMMA MovesOK ==
  ASSUME TextIInv, page_ret = "open", NEW p \in 0..End(text), NEW e,
         TextShown, From(Place(p, Flag01(p), e))
  PROVE  /\ text' = text /\ boxh' = boxh /\ page_ret' = "open" /\ vscroll0' = vscroll0
         /\ \E f \in Nat : f = FirstLine(text, p, boxh) /\ PageAt(f)'
         /\ TextIInv'
  <1>1. UNCHANGED <<text, boxh, vscroll0, hscroll0, page_ret>>  BY DEF TextShown
  <1>2. PICK t \in Texts : t = text  BY PageSizes
  <1>3. PICK h \in Nat \ {0} : h = boxh  BY PageSizes
  <1>4. text' = t /\ boxh' = h /\ p \in 0..End(t)  BY <1>1, <1>2, <1>3
  <1>5. print_page(t, Place(p, Flag01(p), e), h)  BY <1>2, <1>3 DEF From
  <1>6. \E f \in Nat : f = FirstLine(t, p, h) /\ PageAt(f)'  BY <1>4, <1>5, PrintOK
  <1>7. vscroll0' \in Nat /\ text' \in Texts /\ boxh' \in Nat \ {0} /\ page_ret' = "open"
    BY <1>1, PageSizes DEF TextIInv
  <1>. QED  BY <1>1, <1>2, <1>3, <1>6, <1>7 DEF TextIInv

\* A key that goes back from the end of the page by n lines.
LEMMA BackMovesOK ==
  ASSUME TextIInv, page_ret = "open", NEW n \in Nat,
         TextShown, From(back_lines(text, Here, n))
  PROVE  /\ text' = text /\ boxh' = boxh /\ page_ret' = "open"
         /\ BackTo(text, page, end_reached, n) \in 0..page
         /\ \E f \in Nat : f = FirstLine(text, BackTo(text, page, end_reached, n), boxh) /\ PageAt(f)'
         /\ TextIInv'
  <1> DEFINE q == BackTo(text, page, end_reached, n)
  <1>1. text \in Texts /\ page \in 1..End(text) /\ End(text) \in Nat  BY PageSizes, TextSizes
  <1>2. PICK e : back_lines(text, Here, n) = Place(q, Flag01(q), e)  BY <1>1, BackOK DEF Here
  <1>3. q \in 0..page  BY <1>1, BackOK
  <1>4. q \in 0..End(text) /\ From(Place(q, Flag01(q), e))  BY <1>1, <1>2, <1>3
  <1> HIDE DEF q
  <1>5. /\ text' = text /\ boxh' = boxh /\ page_ret' = "open"
        /\ \E f \in Nat : f = FirstLine(text, q, boxh) /\ PageAt(f)'
        /\ TextIInv'
    BY <1>4, MovesOK
  <1>. QED  BY <1>3, <1>5 DEF q

\* In a text that ends with its last line, a place k lines above the page is k
\* lines above: the line that told the end is not counted twice.
LEMMA BackFromPage ==
  ASSUME TextIInv, page_ret = "open", ~text.rest, NEW f \in Nat, PageAt(f), NEW k \in Int,
         k >= 0 \/ (k = -1 /\ end_reached = 0)
  PROVE  BackTo(text, page, end_reached, page_length + k) = Higher(f - k, 0)
  <1>1. boxh \in Nat \ {0} /\ text \in Texts  BY PageSizes
  <1> DEFINE L == text.lines
  <1>2. L \in Nat /\ End(text) = L /\ L > 0  BY <1>1, TextSizes
  <1>3. /\ f \in 0..L /\ page = Lower(f + boxh, L)
        /\ end_reached = (IF f + boxh > L THEN 1 ELSE 0)
        /\ page_length = Higher(1, Lower(boxh, L - f + 1))
    BY <1>2 DEF PageAt
  <1> HIDE DEF L
  <1>4. PICK n \in Int : n = page_length + k  BY <1>1, PageSizes
  <1>5. BackTo(text, page, end_reached, n) =
          Higher(page - (IF page = End(text) /\ end_reached = 1 /\ n > 0 THEN n - 1 ELSE n), 0)
    BY DEF BackTo
  <1>6. CASE f + boxh > L
    <2>1. page = L /\ end_reached = 1 /\ page_length = L - f + 1  BY <1>1, <1>2, <1>3, <1>6 DEF Lower, Higher
    <2>2. k >= 0  BY <2>1
    <2>3. n = L - f + 1 + k /\ n > 0  BY <1>2, <1>3, <1>4, <2>1, <2>2
    <2>4. BackTo(text, page, end_reached, n) = Higher(L - (n - 1), 0)  BY <1>2, <1>5, <2>1, <2>3
    <2>5. L - (n - 1) = f - k  BY <1>2, <1>3, <2>3
    <2>. QED  BY <1>4, <2>4, <2>5
  <1>7. CASE ~(f + boxh > L)
    <2>1. page = f + boxh /\ end_reached = 0 /\ page_length = boxh  BY <1>1, <1>2, <1>3, <1>7 DEF Lower, Higher
    <2>2. BackTo(text, page, end_reached, n) = Higher(page - n, 0)  BY <1>5, <2>1
    <2>3. n = boxh + k  BY <1>4, <2>1
    <2>4. (f + boxh) - (boxh + k) = f - k  BY <1>1
    <2>5. page - n = f - k  BY <2>1, <2>3, <2>4
    <2>. QED  BY <1>4, <2>2, <2>5
  <1>. QED  BY <1>6, <1>7

LEMMA TextInitIInv == TextInit => TextIInv
  BY DEF TextInit, TextIInv

\* A box that is left keeps its text; of search results it keeps the page.
LEMMA LeaveOK ==
  ASSUME TextIInv, NEW r, LeaveText(r)
  PROVE  /\ text' \in Texts /\ vscroll0' \in Nat /\ page_ret' = r /\ boxh' \in Nat \ {0}
         /\ text.kind = "search" => \E f \in Nat : PageLeft(f)'
  <1>1. /\ page_ret = "open" /\ page_ret' = r /\ hscroll0' = hscroll /\ hscroll' = hscroll
        /\ text' = text /\ boxh' = boxh /\ page_screen' = page_screen
        /\ vscroll0' = Lower(back_lines(text, Here, page_length).page, text.lines)
    BY DEF LeaveText, Saved
  <1>2. text \in Texts /\ boxh \in Nat \ {0} /\ page \in 1..End(text) /\ page_length \in Nat
    BY <1>1, PageSizes
  <1> DEFINE q == BackTo(text, page, end_reached, page_length)
  <1>3. q \in 0..page /\ \E e : back_lines(text, Here, page_length) = Place(q, Flag01(q), e)
    BY <1>2, BackOK DEF Here
  <1>4. back_lines(text, Here, page_length).page = q  BY <1>3 DEF Place
  <1> HIDE DEF q
  <1>5. End(text) \in Nat /\ text.lines \in Nat  BY <1>2, TextSizes
  <1>6. vscroll0' = Lower(q, text.lines)  BY <1>1, <1>4
  <1>7. vscroll0' \in Nat  BY <1>2, <1>3, <1>5, <1>6 DEF Lower
  <1>8. ASSUME text.kind = "search" PROVE \E f \in Nat : PageLeft(f)'
    <2>1. PICK f \in Nat : PageAt(f)  BY <1>1, PageSizes
    <2>2. End(text) = text.lines /\ ~text.rest  BY <1>2, <1>8, TextboxAssumption, TextSizes
    <2>3. page_length + 0 = page_length /\ Higher(f - 0, 0) = f  BY <1>2 DEF Higher
    <2>4. BackTo(text, page, end_reached, page_length + 0) = Higher(f - 0, 0)
      BY <1>1, <2>1, <2>2, BackFromPage
    <2>5. q = f  BY <2>3, <2>4 DEF q
    <2>6. f \in 0..End(text)  BY <2>1 DEF PageAt
    <2>7. vscroll0' = f  BY <1>5, <1>6, <2>2, <2>5, <2>6 DEF Lower
    <2>8. PageLeft(f)'  BY <1>1, <1>8, <2>1, <2>7 DEF PageAt, PageLeft
    <2>. QED  BY <2>8
  <1>. QED  BY <1>1, <1>2, <1>7, <1>8

\* Each key shows a page, from a place that is known.
LEMMA TextStepIInv == TextIInv /\ [TextNext]_textVars => TextIInv'
  <1> SUFFICES ASSUME TextIInv, [TextNext]_textVars PROVE TextIInv'
    OBVIOUS
  <1>1. CASE TextOpen
    <2>1. PICK t \in Texts : dialog_textbox(t, 0)  BY <1>1, Zenon DEF TextOpen
    <2>2. text' = t /\ page_ret' = "open" /\ boxh' \in Nat \ {0} /\ \E f \in Nat : PageAt(f)'
      BY <2>1, DialogOK
    <2>3. vscroll0' \in Nat  BY <1>1, Zenon DEF TextOpen
    <2>. QED  BY <2>2, <2>3 DEF TextIInv
  <1>2. CASE TextAgain
    <2>1. PICK t \in Texts : dialog_textbox(t, vscroll0)  BY <1>2 DEF TextAgain
    <2>2. vscroll0 \in Nat /\ vscroll0' = vscroll0  BY <1>2 DEF TextAgain, TextIInv
    <2>3. text' = t /\ page_ret' = "open" /\ boxh' \in Nat \ {0} /\ \E f \in Nat : PageAt(f)'
      BY <2>1, <2>2, DialogOK
    <2>. QED  BY <2>2, <2>3 DEF TextIInv
  <1>3. CASE TextExit
    BY <1>3, LeaveOK DEF TextExit, TextIInv
  <1>4. CASE TextJump
    BY <1>4, LeaveOK DEF TextJump, TextIInv
  <1>5. CASE Home
    <2>1. page_ret = "open" /\ TextShown /\ From(Place(0, 1, end_reached))
      BY <1>5 DEF Home, Upwards, Moves, TextShown
    <2>2. End(text) \in Nat  BY <2>1, PageSizes, TextSizes
    <2>3. 0 \in 0..End(text) /\ From(Place(0, Flag01(0), end_reached))  BY <2>1, <2>2 DEF Flag01
    <2>. QED  BY <2>1, <2>3, MovesOK
  <1>6. CASE EndKey
    <2>1. page_ret = "open" /\ TextShown
          /\ From(back_lines(text, Place(End(text), begin_reached, 1), boxh))
      BY <1>6 DEF EndKey, Moves, TextShown
    <2>2. text \in Texts /\ boxh \in Nat /\ End(text) \in 1..End(text) /\ End(text) \in Nat
      BY <2>1, PageSizes, TextSizes
    <2> DEFINE q == BackTo(text, End(text), 1, boxh)
    <2>3. q \in 0..End(text)
          /\ \E e : back_lines(text, Place(End(text), begin_reached, 1), boxh) = Place(q, Flag01(q), e)
      <3>1. text \in Texts /\ boxh \in Nat /\ End(text) \in 1..End(text)  BY <2>2
      <3>2. q \in 0..End(text)  BY <3>1, BackOK
      <3>3. \E e : back_lines(text, Place(End(text), begin_reached, 1), boxh) = Place(q, Flag01(q), e)
        BY <3>1, BackOK
      <3>. QED  BY <3>2, <3>3
    <2> HIDE DEF q
    <2>4. PICK e : From(Place(q, Flag01(q), e))  BY <2>1, <2>3
    <2>. QED  BY <2>1, <2>3, <2>4, MovesOK
  <1>7. CASE LineUp
    <2>1. page_ret = "open" /\ TextShown /\ From(back_lines(text, Here, page_length + 1))
      BY <1>7 DEF LineUp, Upwards, Moves, TextShown
    <2>2. page_length + 1 \in Nat  BY <2>1, PageSizes
    <2>. QED  BY <2>1, <2>2, BackMovesOK
  <1>8. CASE TextPageUp
    <2>1. page_ret = "open" /\ TextShown /\ From(back_lines(text, Here, page_length + boxh))
      BY <1>8 DEF TextPageUp, Upwards, Moves, TextShown
    <2>2. page_length + boxh \in Nat  BY <2>1, PageSizes
    <2>. QED  BY <2>1, <2>2, BackMovesOK
  <1>9. CASE LineDown
    <2>1. page_ret = "open" /\ TextShown /\ From(back_lines(text, Here, page_length - 1))
      BY <1>9 DEF LineDown, Downwards, Moves, TextShown
    <2>2. page_length - 1 \in Nat  BY <2>1, PageSizes
    <2>. QED  BY <2>1, <2>2, BackMovesOK
  <1>10. CASE TextPageDown
    <2>1. page_ret = "open" /\ TextShown /\ From(Place(page, 0, end_reached))
      BY <1>10 DEF TextPageDown, Downwards, Moves, TextShown
    <2>2. page \in 1..End(text) /\ End(text) \in Nat  BY <2>1, PageSizes, TextSizes
    <2>3. page \in 0..End(text) /\ From(Place(page, Flag01(page), end_reached))  BY <2>1, <2>2 DEF Flag01
    <2>. QED  BY <2>1, <2>3, MovesOK
  <1>11. CASE Sideways
    <2>1. page_ret = "open" /\ TextShown /\ From(back_lines(text, Here, page_length))
      BY <1>11 DEF Sideways, TextShown
    <2>2. page_length \in Nat  BY <2>1, PageSizes
    <2>. QED  BY <2>1, <2>2, BackMovesOK
  <1>12. CASE TextResize
    <2>1. page_ret = "open" /\ text' = text /\ vscroll0' = vscroll0  BY <1>12, Zenon DEF TextResize
    <2>2. text \in Texts /\ boxh + 4 \in Nat /\ page \in 1..End(text) /\ vscroll0 \in Nat
      BY <2>1, PageSizes DEF TextIInv
    <2>n. PICK m \in Nat : m = boxh + 4  BY <2>2
    <2> DEFINE q == BackTo(text, page, end_reached, m)
    <2>3. q \in 0..page /\ \E e : back_lines(text, Here, m) = Place(q, Flag01(q), e)
      <3>0. text \in Texts /\ page \in 1..End(text)  BY <2>2
      <3>1. \E e : back_lines(text, Place(page, begin_reached, end_reached), m) = Place(q, Flag01(q), e)
        BY <3>0, BackOK
      <3>2. q \in 0..page  BY <3>0, BackOK
      <3>. QED  BY <3>1, <3>2 DEF Here
    <2> HIDE DEF q
    <2>4. PICK e : back_lines(text, Here, boxh + 4) = Place(q, Flag01(q), e)  BY <2>3, <2>n
    <2>5. CASE page_ret' = "too small"
      BY <2>1, <2>2, <2>5 DEF TextIInv
    <2>6. CASE page_ret' # "too small"
      <3>1. PICK h \in PageHeights :
               boxh' = HeightOf(text, h) /\ print_page(text, Place(q, Flag01(q), e), boxh')
        BY <1>12, <2>4, <2>6, Zenon DEF TextResize
      <3>2. PICK n \in Nat \ {0} : n = boxh'  BY <3>1, HeightsOK
      <3>3. q \in 0..End(text)  BY <2>2, <2>3, TextSizes
      <3>4. text' = text /\ boxh' = n /\ print_page(text, Place(q, Flag01(q), e), n)  BY <2>1, <3>1, <3>2
      <3>5. \E f \in Nat : PageAt(f)'
        <4>1. PICK t \in Texts : t = text  BY <2>2
        <4>2. text' = t /\ boxh' = n /\ print_page(t, Place(q, Flag01(q), e), n) /\ q \in 0..End(t)
          BY <3>3, <3>4, <4>1
        <4>. QED  BY <4>2, PrintOK
      <3>6. page_ret' = "open"  BY <1>12, <2>1, <2>6, Zenon DEF TextResize
      <3>. QED  BY <2>1, <2>2, <3>2, <3>5, <3>6 DEF TextIInv
    <2>. QED  BY <2>5, <2>6
  <1>13. CASE UNCHANGED textVars
    <2>1. UNCHANGED <<text, boxh, page, begin_reached, end_reached, page_length, hscroll,
                      page_screen, keys, vscroll0, hscroll0, page_ret>>
      BY <1>13 DEF textVars
    <2>2. \A f : PageAt(f)' <=> PageAt(f)  BY <2>1 DEF PageAt
    <2>3. \A f : PageLeft(f)' <=> PageLeft(f)  BY <2>1 DEF PageLeft
    <2>. QED  BY <2>1, <2>2, <2>3 DEF TextIInv
  <1>. QED  BY <1>1, <1>2, <1>3, <1>4, <1>5, <1>6, <1>7, <1>8, <1>9, <1>10, <1>11, <1>12, <1>13 DEF TextNext

\* In every state the box shows a page, of which all its variables are the ones
\* that belong to the first line, and after a jump the page that was left is kept.
THEOREM TextInvariance == TextSpec => []TextIInv
  <1>. QED  BY TextInitIInv, TextStepIInv, PTL DEF TextSpec

\* Keys going up are refused exactly on the first line, keys going down only with
\* the end in sight (begin_reached and end_reached of textbox.c).
THEOREM EndsAreTold == TextSpec => []EndsTold
  <1>1. TextIInv => EndsTold
    <2> SUFFICES ASSUME TextIInv, page_ret = "open"
                 PROVE  /\ begin_reached = 1 <=> top = 0
                        /\ end_reached = 1 => top + boxh >= End(text)
      BY DEF EndsTold
    <2>1. text \in Texts /\ boxh \in Nat \ {0}  BY PageSizes
    <2>2. PICK f \in Nat : PageAt(f)  BY PageSizes
    <2>3. top = f  BY <2>1, <2>2, TopOK
    <2>4. text.lines \in Nat /\ (End(text) = text.lines \/ End(text) = text.lines + 1)  BY <2>1, TextSizes
    <2>5. /\ begin_reached = (IF f = 0 THEN 1 ELSE 0)
          /\ end_reached = (IF f + boxh > text.lines THEN 1 ELSE 0)
      BY <2>2 DEF PageAt
    <2>. QED  BY <2>1, <2>3, <2>4, <2>5
  <1>. QED  BY <1>1, TextInvariance, PTL

\* The first line of the page a key shows that goes back to a place k lines above.
LEMMA FromPage ==
  ASSUME TextIInv, page_ret = "open", ~text.rest, NEW k \in Int,
         k >= 0 \/ (k = -1 /\ end_reached = 0),
         TextShown, From(back_lines(text, Here, page_length + k))
  PROVE  /\ text' = text /\ boxh' = boxh
         /\ \E f, g \in Nat : /\ PageAt(f) /\ top = f
                              /\ g = FirstLine(text, Higher(f - k, 0), boxh)
                              /\ PageAt(g)' /\ top' = g
  <1>1. text \in Texts /\ boxh \in Nat \ {0} /\ page_length \in Nat \ {0}  BY PageSizes
  <1>2. PICK f \in Nat : PageAt(f)  BY PageSizes
  <1>3. top = f  BY <1>1, <1>2, TopOK
  <1>4. BackTo(text, page, end_reached, page_length + k) = Higher(f - k, 0)  BY <1>2, BackFromPage
  <1>5. PICK n \in Nat : n = page_length + k  BY <1>1
  <1>6. From(back_lines(text, Here, n)) /\ BackTo(text, page, end_reached, n) = Higher(f - k, 0)
    BY <1>4, <1>5
  <1>7. /\ text' = text /\ boxh' = boxh
        /\ \E g \in Nat : g = FirstLine(text, BackTo(text, page, end_reached, n), boxh) /\ PageAt(g)'
    BY <1>6, BackMovesOK
  <1>8. PICK g \in Nat : g = FirstLine(text, Higher(f - k, 0), boxh) /\ PageAt(g)'  BY <1>6, <1>7
  <1>9. top' = g  BY <1>1, <1>7, <1>8, TopNextOK
  <1>. QED  BY <1>2, <1>3, <1>7, <1>8, <1>9

\* In a text that ends in a newline, keys move by one line and by one page, and
\* over no line that was not shown (dialog_textbox).
THEOREM LinesAreFollowed == TextSpec => MovesByLines
  <1>1. ASSUME TextIInv, ~text.rest, LineUp  PROVE top' = top - 1
    <2>1. page_ret = "open" /\ TextShown /\ begin_reached = 0
          /\ From(back_lines(text, Here, page_length + 1))
      BY <1>1 DEF LineUp, Upwards, Moves, TextShown
    <2>2. PICK f, g \in Nat : /\ PageAt(f) /\ top = f /\ top' = g
                            /\ g = FirstLine(text, Higher(f - 1, 0), boxh)
      BY <1>1, <2>1, FromPage
    <2>3. text.lines \in Nat /\ boxh \in Nat \ {0}  BY <1>1, <2>1, PageSizes, TextSizes
    <2>4. f # 0 /\ (text.kind = "search" => f + boxh <= text.lines \/ f = LastPage(text, boxh))
      BY <2>1, <2>2 DEF PageAt
    <2>5. Higher(f - 1, 0) = f - 1  BY <2>4 DEF Higher
    <2>6. text.kind = "search" => (f - 1) + boxh <= text.lines  BY <2>3, <2>4 DEF LastPage, Higher
    <2>7. g = f - 1  BY <2>2, <2>3, <2>5, <2>6 DEF FirstLine
    <2>. QED  BY <2>2, <2>7
  <1>2. ASSUME TextIInv, ~text.rest, LineDown  PROVE top' = top + 1
    <2>1. page_ret = "open" /\ TextShown /\ end_reached = 0
          /\ From(back_lines(text, Here, page_length - 1))
      BY <1>2 DEF LineDown, Downwards, Moves, TextShown
    <2>2. page_length + (-1) = page_length - 1  BY <1>2, <2>1, PageSizes
    <2>3. PICK f, g \in Nat : /\ PageAt(f) /\ top = f /\ top' = g
                            /\ g = FirstLine(text, Higher(f - (-1), 0), boxh)
      BY <1>2, <2>1, <2>2, FromPage
    <2>4. text.lines \in Nat /\ boxh \in Nat \ {0}  BY <1>2, <2>1, PageSizes, TextSizes
    <2>5. f + boxh <= text.lines  BY <2>1, <2>3, <2>4 DEF PageAt
    <2>6. Higher(f - (-1), 0) = f + 1  BY DEF Higher
    <2>7. g = f + 1  BY <2>3, <2>4, <2>5, <2>6 DEF FirstLine, LastPage, Higher
    <2>. QED  BY <2>3, <2>7
  <1>3. ASSUME TextIInv, ~text.rest, TextPageUp  PROVE top' = Higher(top - boxh, 0)
    <2>1. page_ret = "open" /\ TextShown /\ From(back_lines(text, Here, page_length + boxh))
      BY <1>3 DEF TextPageUp, Upwards, Moves, TextShown
    <2>2. text.lines \in Nat /\ boxh \in Nat \ {0}  BY <1>3, <2>1, PageSizes, TextSizes
    <2>3. PICK f, g \in Nat : /\ PageAt(f) /\ top = f /\ top' = g
                            /\ g = FirstLine(text, Higher(f - boxh, 0), boxh)
      BY <1>3, <2>1, <2>2, FromPage
    <2>4. f \in 0..End(text) /\ End(text) = text.lines  BY <1>3, <2>1, <2>3, PageSizes, TextSizes DEF PageAt
    <2>5. CASE f >= boxh
      <3>1. Higher(f - boxh, 0) = f - boxh /\ (f - boxh) + boxh <= text.lines  BY <2>2, <2>4, <2>5 DEF Higher
      <3>2. g = f - boxh  BY <2>2, <2>3, <2>4, <3>1 DEF FirstLine
      <3>. QED  BY <2>3, <3>1, <3>2
    <2>6. CASE ~(f >= boxh)
      <3>1. Higher(f - boxh, 0) = 0  BY <2>2, <2>6 DEF Higher
      <3>2. g = 0  BY <2>2, <2>3, <3>1 DEF FirstLine, LastPage, Higher
      <3>. QED  BY <2>3, <3>1, <3>2
    <2>. QED  BY <2>5, <2>6
  <1>4. ASSUME TextIInv, ~text.rest, TextPageDown
        PROVE  top' = (IF text.kind = "search"
                       THEN Lower(top + boxh, Higher(End(text) - boxh + 1, 0))
                       ELSE top + boxh)
    <2>1. page_ret = "open" /\ TextShown /\ end_reached = 0 /\ From(Place(page, 0, end_reached))
      BY <1>4 DEF TextPageDown, Downwards, Moves, TextShown
    <2>2. text \in Texts /\ page \in 1..End(text) /\ End(text) = text.lines /\ text.lines \in Nat
          /\ boxh \in Nat \ {0}
      BY <1>4, <2>1, PageSizes, TextSizes
    <2>3. page \in 0..End(text) /\ From(Place(page, Flag01(page), end_reached))  BY <2>1, <2>2 DEF Flag01
    <2>4. /\ text' = text /\ boxh' = boxh
          /\ \E g \in Nat : g = FirstLine(text, page, boxh) /\ PageAt(g)'
      BY <1>4, <2>1, <2>3, MovesOK
    <2>5. PICK g \in Nat : g = FirstLine(text, page, boxh) /\ PageAt(g)'  BY <2>4
    <2>6. PICK f \in Nat : PageAt(f)  BY <1>4, <2>1, PageSizes
    <2>7. top = f /\ top' = g  BY <2>2, <2>4, <2>5, <2>6, TopOK, TopNextOK
    <2>8. f + boxh <= text.lines /\ page = f + boxh
      <3>1. end_reached = (IF f + boxh > text.lines THEN 1 ELSE 0) /\ page = Lower(f + boxh, End(text))
        BY <2>6 DEF PageAt
      <3>2. f + boxh <= text.lines  BY <2>1, <2>2, <3>1
      <3>. QED  BY <2>2, <3>1, <3>2 DEF Lower
    <2>9. CASE text.kind = "search"
      BY <2>2, <2>5, <2>7, <2>8, <2>9 DEF FirstLine, LastPage, Lower, Higher
    <2>10. CASE text.kind # "search"
      BY <2>5, <2>7, <2>8, <2>10 DEF FirstLine
    <2>. QED  BY <2>9, <2>10
  <1>5. TextIInv =>
          [ ~text.rest =>
              /\ LineUp => top' = top - 1
              /\ LineDown => top' = top + 1
              /\ TextPageUp => top' = Higher(top - boxh, 0)
              /\ TextPageDown =>
                   top' = (IF text.kind = "search"
                           THEN Lower(top + boxh, Higher(End(text) - boxh + 1, 0))
                           ELSE top + boxh) ]_textVars
    BY <1>1, <1>2, <1>3, <1>4
  <1>. QED  BY <1>5, TextInvariance, PTL DEF MovesByLines

\* A page is printed again where it was: search results were moved up already.
LEMMA SameFirst ==
  ASSUME NEW f \in Nat, NEW t, NEW h,
         t.kind = "search" => f + h <= t.lines \/ f = LastPage(t, h), t.lines \in Nat, h \in Nat
  PROVE  FirstLine(t, f, h) = f
  BY DEF FirstLine

\* Scrolling sideways leaves the lines where they are ("Reprint current page to
\* scroll horizontally", textbox.c:223).
THEOREM SidewaysKeeps == TextSpec => SidewaysKeepsPage
  <1>1. ASSUME TextIInv, ~text.rest, Sideways  PROVE page_screen' = page_screen
    <2>1. page_ret = "open" /\ TextShown /\ From(back_lines(text, Here, page_length))
      BY <1>1 DEF Sideways, TextShown
    <2>2. text.lines \in Nat /\ boxh \in Nat \ {0} /\ page_length + 0 = page_length
      BY <1>1, <2>1, PageSizes, TextSizes
    <2>3. text' = text /\ boxh' = boxh
          /\ \E f, g \in Nat : /\ PageAt(f) /\ PageAt(g)'
                               /\ g = FirstLine(text, Higher(f - 0, 0), boxh)
      BY <1>1, <2>1, <2>2, FromPage
    <2>4. PICK f, g \in Nat : /\ PageAt(f) /\ PageAt(g)'
                            /\ g = FirstLine(text, Higher(f - 0, 0), boxh)
      BY <2>3
    <2>5. Higher(f - 0, 0) = f  BY DEF Higher
    <2>6. text.kind = "search" => f + boxh <= text.lines \/ f = LastPage(text, boxh)  BY <2>4 DEF PageAt
    <2>7. g = f  BY <2>2, <2>4, <2>5, <2>6, SameFirst
    <2>. QED  BY <2>3, <2>4, <2>7 DEF PageAt
  <1>2. TextIInv => [ Sideways /\ ~text.rest => page_screen' = page_screen ]_textVars  BY <1>1
  <1>. QED  BY <1>2, TextInvariance, PTL DEF SidewaysKeepsPage

\* After a jump to a result the same results are shown on the page that was left
\* ("You will be returned to the current search results after exiting this new
\* menu", search_help).
THEOREM JumpsReturn == TextSpec => ReturnsToPage
  <1>1. ASSUME TextIInv, TextAgain, text' = text, boxh' = boxh
        PROVE  page_screen' = page_screen /\ hscroll' = hscroll
    <2>1. page_ret = "jump" /\ hscroll' = hscroll0 /\ \E t \in Texts : dialog_textbox(t, vscroll0)
      BY <1>1, Zenon DEF TextAgain
    <2>2. PICK f \in Nat : PageLeft(f)  BY <1>1, <2>1 DEF TextIInv
    <2>3. text \in Texts /\ boxh \in Nat \ {0}  BY <1>1, <2>1 DEF TextIInv
    <2>4. dialog_textbox(text, f)
      <3>1. PICK t \in Texts : dialog_textbox(t, vscroll0)  BY <2>1
      <3>2. t = text  BY <1>1, <3>1 DEF dialog_textbox
      <3>. QED  BY <2>2, <3>1, <3>2 DEF PageLeft
    <2>5. PICK t \in Texts : t = text  BY <2>3
    <2>6. \E g \in Nat : g = FirstLine(t, Lower(f, End(t)), boxh') /\ PageAt(g)'
      BY <2>4, <2>5, DialogOK
    <2>7. PICK g \in Nat : g = FirstLine(text, Lower(f, End(text)), boxh) /\ PageAt(g)'
      BY <1>1, <2>5, <2>6
    <2>8. text.lines \in Nat /\ End(text) \in Nat  BY <2>3, TextSizes
    <2>9. Lower(f, End(text)) = f  BY <2>2, <2>8 DEF PageLeft, Lower
    <2>10. text.kind = "search" => f + boxh <= text.lines \/ f = LastPage(text, boxh)  BY <2>2 DEF PageLeft
    <2>11. g = f  BY <2>3, <2>7, <2>8, <2>9, <2>10, SameFirst
    <2>. QED  BY <1>1, <2>1, <2>2, <2>7, <2>11 DEF PageAt, PageLeft
  <1>2. TextIInv => [ TextAgain /\ text' = text /\ boxh' = boxh =>
                        page_screen' = page_screen /\ hscroll' = hscroll ]_textVars
    BY <1>1
  <1>. QED  BY <1>2, TextInvariance, PTL DEF ReturnsToPage

(* The keys of a page of search results. *)

\* Two numbers less than n apart have different remainders.
LEMMA RemaindersDiffer ==
  ASSUME NEW n \in Nat \ {0}, NEW a \in Nat, NEW b \in Nat, a < b, b < a + n
  PROVE  a % n # b % n
  <1> DEFINE p == a \div n
             q == b \div n
  <1>1. p \in Int /\ q \in Int /\ a = n * p + (a % n) /\ b = n * q + (b % n)
    OBVIOUS
  <1> HIDE DEF p, q
  <1>2. SUFFICES ASSUME a % n = b % n PROVE FALSE
    OBVIOUS
  <1>3. PICK d \in Int : d = q - p  BY <1>1
  <1>4. n * q - n * p = n * d  BY <1>1, <1>3
  <1>5. n * q \in Int /\ n * p \in Int /\ a % n \in Int  BY <1>1
  <1>6. n * d > 0 /\ n * d < n
    <2>1. b - a = n * d  BY <1>1, <1>2, <1>4, <1>5
    <2>. QED  BY <2>1
  <1>7. d > 0  BY <1>6
  <1>8. n * d >= n  BY <1>7
  <1>. QED  BY <1>6, <1>8

\* As many images as there are members.
LEMMA ImageCount ==
  ASSUME NEW S, IsFiniteSet(S), NEW T, NEW f \in [S -> T],
         \A y \in T : \E x \in S : f[x] = y, \A x, y \in S : f[x] = f[y] => x = y
  PROVE  IsFiniteSet(T) /\ Cardinality(T) = Cardinality(S)
  <1>1. f \in Surjection(S, T)  BY DEF Surjection
  <1>2. f \in Injection(S, T)  BY DEF Injection, IsInjective
  <1>. QED  BY <1>1, <1>2, FS_Surjection

\* Of numbers that follow each other, the ones with less than n before them.
FirstOnes(on, n) == {j \in on : Cardinality({k \in on : k < j}) < n}

LEMMA FirstOnesOK ==
  ASSUME NEW m \in Nat, NEW on \in SUBSET (1..m), NEW n \in Nat \ {0},
         \A i, j \in on : \A k \in i..j : k \in on
  PROVE  /\ IsFiniteSet(on) /\ IsFiniteSet(FirstOnes(on, n)) /\ FirstOnes(on, n) \subseteq on
         /\ Cardinality(FirstOnes(on, n)) = Lower(Cardinality(on), n)
         /\ \A i, j \in FirstOnes(on, n) : i < j => j < i + n
  <1>1. CASE on = {}
    <2>1. FirstOnes(on, n) = {}  BY <1>1 DEF FirstOnes
    <2>2. IsFiniteSet({}) /\ Cardinality({}) = 0  BY FS_EmptySet
    <2>3. Lower(0, n) = 0  BY DEF Lower
    <2>. QED  BY <1>1, <2>1, <2>2, <2>3
  <1>2. CASE on # {}
    <2>1. PICK lo \in on : \A j \in on : lo <= j
      <3>1. on \subseteq Nat  OBVIOUS
      <3>. QED  BY <1>2, <3>1, LeastExists
    <2>2. PICK hi \in on : \A j \in on : j <= hi
      <3> DEFINE S == {m - j : j \in on}
      <3>0. S # {}  BY <1>2
      <3>1. S \subseteq Nat
        <4>1. \A j \in on : m - j \in Nat  OBVIOUS
        <4>. QED  BY <4>1
      <3>2. PICK x \in S : \A y \in S : x <= y  BY <3>0, <3>1, LeastExists
      <3>3. PICK h \in on : x = m - h  BY <3>2
      <3>4. \A j \in on : m - h <= m - j  BY <3>2, <3>3
      <3>5. \A j \in on : j <= h  BY <3>3, <3>4
      <3>. QED  BY <3>3, <3>5
    <2>3. lo \in Nat /\ hi \in Nat /\ lo <= hi  BY <2>1, <2>2
    <2>4. on = lo..hi
      <3>1. on \subseteq lo..hi  BY <2>1, <2>2
      <3>2. lo..hi \subseteq on  BY <2>1, <2>2
      <3>. QED  BY <3>1, <3>2
    <2>5. IsFiniteSet(on) /\ Cardinality(on) = hi - lo + 1  BY <2>3, <2>4, FS_Interval
    <2>6. \A j \in on : Cardinality({k \in on : k < j}) = j - lo
      <3>1. TAKE j \in on
      <3>2. {k \in on : k < j} = lo..j - 1 /\ j \in Nat /\ j >= lo  BY <2>1, <2>2, <2>3, <2>4
      <3>3. Cardinality(lo..j - 1) = IF lo > j - 1 THEN 0 ELSE (j - 1) - lo + 1  BY <2>3, <3>2, FS_Interval
      <3>4. (IF lo > j - 1 THEN 0 ELSE (j - 1) - lo + 1) = j - lo  BY <2>3, <3>2
      <3>. QED  BY <3>2, <3>3, <3>4
    <2>7. FirstOnes(on, n) = {j \in on : j - lo < n}  BY <2>6 DEF FirstOnes
    <2> DEFINE h == Lower(hi, lo + n - 1)
    <2>8. h \in Nat /\ h >= lo  BY <2>3 DEF Lower
    <2>9. FirstOnes(on, n) = lo..h
      <3>1. \A j \in lo..hi : j - lo < n <=> j \in lo..h  BY <2>3 DEF Lower
      <3>2. lo..h \subseteq lo..hi  BY <2>3 DEF Lower
      <3>. QED  BY <2>4, <2>7, <3>1, <3>2
    <2>10. IsFiniteSet(lo..h) /\ Cardinality(lo..h) = h - lo + 1
      <3> HIDE DEF h
      <3>. QED  BY <2>3, <2>8, FS_Interval
    <2>11. h - lo + 1 = Lower(hi - lo + 1, n)  BY <2>3 DEF Lower
    <2>12. \A i, j \in lo..h : i < j => j < i + n  BY <2>3 DEF Lower
    <2> HIDE DEF h
    <2>. QED  BY <2>4, <2>5, <2>7, <2>9, <2>10, <2>11, <2>12
  <1>. QED  BY <1>1, <1>2

\* The results in a part of the text.
ResultsIn(t, first, lim) == {i \in DOMAIN t.jumps : first <= t.jumps[i] /\ t.jumps[i] < lim}

LEMMA OfferedOK ==
  ASSUME NEW t \in Texts, NEW first \in Nat, NEW lim \in Nat
  PROVE  LET results == {t.jumps[i] : i \in ResultsIn(t, first, lim)}
         IN  /\ \A k \in Offered(t, first, lim) : k.line \in results
             /\ \A k, l \in Offered(t, first, lim) : k.key = l.key => k = l
             /\ Cardinality(Offered(t, first, lim)) = Lower(Cardinality(results), JUMP_NB)
  <1> DEFINE on == ResultsIn(t, first, lim)
             sel == FirstOnes(on, JUMP_NB)
             results == {t.jumps[i] : i \in on}
             O == Offered(t, first, lim)
             Pair(i) == [key |-> KeyOf(i), line |-> t.jumps[i]]
  <1>1. /\ JUMP_NB \in Nat \ {0} /\ t.jumps \in Seq(0..t.lines - 1) /\ t.lines \in Nat
        /\ \A i, j \in DOMAIN t.jumps : i < j => t.jumps[i] < t.jumps[j]
    BY TextboxAssumption
  <1>2. PICK m \in Nat : DOMAIN t.jumps = 1..m
    BY <1>1, LenProperties
  <1>3. \A i \in 1..m : t.jumps[i] \in Nat
    <2>1. \A i \in 1..m : t.jumps[i] \in 0..t.lines - 1  BY <1>1, <1>2, ElementOfSeq
    <2>. QED  BY <1>1, <2>1
  <1>4. on \in SUBSET (1..m)  BY <1>2 DEF ResultsIn
  <1>5. \A i, j \in on : \A k \in i..j : k \in on
    <2>1. TAKE i, j \in on
    <2>2. TAKE k \in i..j
    <2>3. i \in 1..m /\ j \in 1..m /\ k \in 1..m /\ i <= k /\ k <= j  BY <1>4
    <2>4. first <= t.jumps[i] /\ t.jumps[j] < lim  BY DEF ResultsIn
    <2>5. t.jumps[i] <= t.jumps[k] /\ t.jumps[k] <= t.jumps[j]
      <3>1. i = k \/ i < k  BY <2>3
      <3>2. k = j \/ k < j  BY <2>3
      <3>3. i < k => t.jumps[i] < t.jumps[k]  BY <1>1, <1>2, <2>3
      <3>4. k < j => t.jumps[k] < t.jumps[j]  BY <1>1, <1>2, <2>3
      <3>5. t.jumps[i] \in Nat /\ t.jumps[j] \in Nat /\ t.jumps[k] \in Nat  BY <1>3, <2>3
      <3>. QED  BY <3>1, <3>2, <3>3, <3>4, <3>5
    <2>6. first <= t.jumps[k] /\ t.jumps[k] < lim  BY <1>3, <2>3, <2>4, <2>5
    <2>. QED  BY <1>2, <2>3, <2>6 DEF ResultsIn
  <1>6. /\ IsFiniteSet(on) /\ IsFiniteSet(sel) /\ sel \subseteq on
        /\ Cardinality(sel) = Lower(Cardinality(on), JUMP_NB)
        /\ \A i, j \in sel : i < j => j < i + JUMP_NB
    BY <1>1, <1>4, <1>5, FirstOnesOK
  <1>7. O = {Pair(i) : i \in sel}  BY DEF Offered, ResultsIn, FirstOnes
  <1>8. \A i, j \in 1..m : t.jumps[i] = t.jumps[j] => i = j
    <2>1. TAKE i, j \in 1..m
    <2>2. i < j \/ j < i \/ i = j  OBVIOUS
    <2>. QED  BY <1>1, <1>2, <1>3, <2>2
  <1>9. \A i, j \in sel : KeyOf(i) = KeyOf(j) => i = j
    <2>1. ASSUME NEW i \in sel, NEW j \in sel, i < j  PROVE KeyOf(i) # KeyOf(j)
      <3>1. i \in 1..m /\ j \in 1..m /\ j < i + JUMP_NB  BY <1>4, <1>6, <2>1
      <3>2. PICK a \in Nat, b \in Nat : a = i - 1 /\ b = j - 1  BY <3>1
      <3>3. a < b /\ b < a + JUMP_NB  BY <1>1, <2>1, <3>1, <3>2
      <3>4. a % JUMP_NB # b % JUMP_NB  BY <1>1, <3>3, RemaindersDiffer
      <3>5. a % JUMP_NB \in Int /\ b % JUMP_NB \in Int  BY <1>1
      <3>6. KeyOf(i) = (a % JUMP_NB) + 1 /\ KeyOf(j) = (b % JUMP_NB) + 1  BY <3>2 DEF KeyOf
      <3>. QED  BY <3>4, <3>5, <3>6
    <2>2. TAKE i, j \in sel
    <2>3. i \in 1..m /\ j \in 1..m  BY <1>4, <1>6
    <2>4. i < j \/ j < i \/ i = j  BY <2>3
    <2>. QED  BY <2>1, <2>4
  <1> HIDE DEF on, sel
  <1>10. Cardinality(results) = Cardinality(on)
    <2> DEFINE g == [i \in on |-> t.jumps[i]]
    <2>1. g \in [on -> results]  OBVIOUS
    <2>2. \A y \in results : \E x \in on : g[x] = y  OBVIOUS
    <2>3. \A x, y \in on : g[x] = g[y] => x = y  BY <1>4, <1>8
    <2> HIDE DEF g, results
    <2>. QED  BY <1>6, <2>1, <2>2, <2>3, ImageCount
  <1>11. Cardinality(O) = Cardinality(sel)
    <2> DEFINE g == [i \in sel |-> Pair(i)]
    <2>0. \A i \in sel : g[i] = Pair(i) /\ Pair(i).key = KeyOf(i)  OBVIOUS
    <2> HIDE DEF Pair
    <2>1. g \in [sel -> O]  BY <1>7
    <2>2. \A y \in O : \E x \in sel : g[x] = y  BY <1>7
    <2>3. \A x, y \in sel : g[x] = g[y] => x = y  BY <1>9, <2>0
    <2> HIDE DEF g, O
    <2>. QED  BY <1>6, <2>1, <2>2, <2>3, ImageCount
  <1>12. \A k \in O : k.line \in results  BY <1>6, <1>7
  <1>13. \A k, l \in O : k.key = l.key => k = l
    <2>1. TAKE k, l \in O
    <2>2. PICK i, j \in sel : k = Pair(i) /\ l = Pair(j)  BY <1>7
    <2>3. k.key = KeyOf(i) /\ l.key = KeyOf(j)  BY <2>2
    <2>. QED  BY <1>9, <2>2, <2>3
  <1>. QED  BY <1>6, <1>10, <1>11, <1>12, <1>13 DEF on

\* Every key on the screen stands at one result there and at no other, and no
\* result is without one as long as there are keys (update_text of mconf.c; "Press
\* the key in the (#) prefix to jump directly to that location", search_help).
THEOREM KeysAreRight == TextSpec => []KeysMatch
  <1>1. TextIInv => KeysMatch
    <2> DEFINE rows == {page_screen[i] : i \in DOMAIN page_screen}
               results == {text.jumps[i] : i \in DOMAIN text.jumps} \cap rows
    <2> SUFFICES ASSUME TextIInv, page_ret = "open"
                 PROVE  /\ \A k \in keys : k.line \in results
                        /\ \A k, l \in keys : k.key = l.key => k = l
                        /\ Cardinality(keys) = Lower(Cardinality(results), JUMP_NB)
      BY DEF KeysMatch
    <2>1. text \in Texts /\ boxh \in Nat \ {0} /\ page \in 1..End(text)  BY PageSizes
    <2>2. PICK f \in Nat : PageAt(f)  BY PageSizes
    <2>3. JUMP_NB \in Nat \ {0} /\ End(text) \in Nat /\ page \in Nat
      BY <2>1, TextSizes, TextboxAssumption
    <2>4. CASE text.kind # "search"
      <3>1. text.jumps = <<>>  BY <2>1, <2>4, TextboxAssumption
      <3>2. keys = {} /\ results = {}  BY <2>2, <2>4, <3>1 DEF PageAt
      <3>3. Cardinality({}) = 0 /\ Lower(0, JUMP_NB) = 0  BY <2>3, FS_EmptySet DEF Lower
      <3>. QED  BY <3>2, <3>3
    <2>5. CASE text.kind = "search"
      <3>1. keys = Offered(text, f, page) /\ page = Lower(f + boxh, End(text))
            /\ page_screen = [i \in 0..boxh - 1 |-> IF f + i < End(text) THEN f + i ELSE NoLine]
        BY <2>2, <2>5 DEF PageAt
      <3>2. \A l \in Nat : l \in rows <=> f <= l /\ l < page
        <4>1. rows = {IF f + i < End(text) THEN f + i ELSE NoLine : i \in 0..boxh - 1}  BY <3>1
        <4>2. TAKE l \in Nat
        <4>3. ASSUME l \in rows  PROVE f <= l /\ l < page
          <5>1. PICK i \in 0..boxh - 1 : l = IF f + i < End(text) THEN f + i ELSE NoLine  BY <4>1, <4>3
          <5>2. f + i < End(text) /\ l = f + i  BY <5>1 DEF NoLine
          <5>. QED  BY <2>1, <2>3, <3>1, <5>2 DEF Lower
        <4>4. ASSUME f <= l, l < page  PROVE l \in rows
          <5>1. l - f \in 0..boxh - 1 /\ f + (l - f) = l /\ l < End(text)
            BY <2>1, <2>3, <3>1, <4>4 DEF Lower
          <5>. QED  BY <4>1, <5>1
        <4>. QED  BY <4>3, <4>4
      <3> HIDE DEF rows
      <3>3. \A i \in DOMAIN text.jumps : text.jumps[i] \in Nat
        <4>1. text.jumps \in Seq(0..text.lines - 1) /\ text.lines \in Nat  BY <2>1, TextboxAssumption
        <4>2. \A i \in DOMAIN text.jumps : text.jumps[i] \in 0..text.lines - 1
          BY <4>1, ElementOfSeq, LenProperties
        <4>. QED  BY <4>1, <4>2
      <3>4. results = {text.jumps[i] : i \in ResultsIn(text, f, page)}
        BY <3>2, <3>3 DEF ResultsIn
      <3> HIDE DEF results
      <3>5. PICK t \in Texts : t = text  BY <2>1
      <3>6. PICK lim \in Nat : lim = page  BY <2>3
      <3>7. results = {t.jumps[i] : i \in ResultsIn(t, f, lim)} /\ keys = Offered(t, f, lim)
        BY <3>1, <3>4, <3>5, <3>6
      <3>. QED  BY <3>7, OfferedOK
    <2>. QED  BY <2>4, <2>5
  <1>. QED  BY <1>1, TextInvariance, PTL

\* All that the pager promises.
THEOREM PagesFollow == TextSpec => PageFollows
  BY EndsAreTold, LinesAreFollowed, SidewaysKeeps, JumpsReturn, KeysAreRight, PTL DEF PageFollows

=============================================================================
