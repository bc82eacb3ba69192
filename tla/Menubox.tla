------------------------------- MODULE Menubox -------------------------------
(***************************************************************************)
(* libs/lxdialog/menubox.c, the box that shows a menu, and the loop of     *)
(* mconf.c that opens it again after every key that does something.  The   *)
(* box shows a window of max_choice items; scroll is the first one of it,  *)
(* choice the highlighted row.  Opened again it starts from the item that  *)
(* was selected and from the scroll position it left in s_scroll.  What is *)
(* drawn is kept row by row, since a key redraws only some of the rows.    *)
(* Rows, items and positions are counted from 0, as in the code.           *)
(***************************************************************************)
EXTENDS Integers, Sequences

CONSTANTS Lists,    (* the menus that can be shown: sequences of items, each *)
                    (*   the entry d it stands for and the letter hot of it  *)
          Heights,  (* the rows of the box; none is a display too small      *)
          NoEntry   (* no entry                                              *)

ASSUME MenuboxAssumption ==
  /\ Heights \subseteq Nat
  /\ \A l \in Lists : /\ l \in Seq({l[i] : i \in DOMAIN l})
                      /\ \A i, j \in DOMAIN l : l[i].d = l[j].d => i = j
                      /\ \A i \in DOMAIN l : l[i].d # NoEntry /\ l[i].hot \notin {"y", "n", "m", "h"}

VARIABLES listed,    \* the list of items
          selected,  \* the entry to start from
          s_scroll,  \* the position left by the box before
          height,    \* menu_height
          scroll, choice, first_item, button,
          screen,    \* the item drawn in each row
          unget,     \* the key put back by on_key_esc
          boxRet,    \* what dialog_menu returned
          last,      \* history: the last key
          resized    \* history: the display was resized since the box was opened

menuVars == <<listed, selected, s_scroll, height, scroll, choice, first_item, button, screen, unget,
              boxRet, last, resized>>

KEY_ESC == 27
BoxTooSmall == -512
BoxOpen == -1          \* the box is still there
noKey == "none"

item_count == Len(listed)
max_choice == IF height < item_count THEN height ELSE item_count
Highlighted == scroll + choice

-----------------------------------------------------------------------------
(* Opening. *)

\* Where the box stands, given where its variables stood before.
Layout(its, sel, saved, h, choice0, first0) ==
  LET n == Len(its)
      m == IF h < n THEN h ELSE n
      c == IF \E i \in 1..n : its[i].d = sel THEN (CHOOSE i \in 1..n : its[i].d = sel) - 1 ELSE choice0
      good == saved <= c /\ saved + m > c /\ saved >= 0 /\ saved + m <= n
      mid == IF c >= n - (m \div 2) THEN n - m ELSE c - (m \div 2)
  IN  IF good THEN [scroll |-> saved, first |-> saved, choice |-> c - saved]
      ELSE IF c >= m THEN [scroll |-> mid, first |-> mid, choice |-> c - mid]
      ELSE [scroll |-> 0, first |-> first0, choice |-> c]

\* do_resize: with a display that is too small the box is not shown.
Show(its, sel, saved, h, choice0, first0) ==
  LET l == Layout(its, sel, saved, h, choice0, first0)
      m == IF h < Len(its) THEN h ELSE Len(its)
  IN  IF h = 0
      THEN boxRet' = BoxTooSmall /\ UNCHANGED <<scroll, choice, first_item, screen>>
      ELSE /\ boxRet' = BoxOpen /\ scroll' = l.scroll /\ choice' = l.choice /\ first_item' = l.first
           /\ screen' = [i \in 0..m - 1 |-> l.first + i]

MenuInit ==
  /\ listed \in Lists /\ height \in Heights \ {0} /\ selected = NoEntry /\ s_scroll = 0
  /\ scroll = 0 /\ choice = 0 /\ first_item = 0 /\ button = 0 /\ unget = noKey /\ last = noKey
  /\ screen = [i \in 0..max_choice - 1 |-> i] /\ boxRet = BoxOpen /\ resized = FALSE

\* A menu is opened, from the top or at the entry a search has found, or the
\* one above is opened again at the entry and the position it was left with;
\* what is in it may have changed meanwhile.
OpenMenu ==
  /\ boxRet \in {1, KEY_ESC, BoxTooSmall}
  /\ \E l \in Lists, h \in Heights : \E sel \in {NoEntry} \cup {l[i].d : i \in DOMAIN l}, saved \in 0..Len(l) :
       /\ listed' = l /\ height' = h /\ selected' = sel /\ s_scroll' = saved
       /\ Show(l, sel, saved, h, 0, 0)
  /\ button' = 0 /\ unget' = noKey /\ last' = "open" /\ resized' = FALSE

\* What the key asked for was done, and the menu is built again.
Redisplay ==
  /\ boxRet \notin {BoxOpen, 1, KEY_ESC, BoxTooSmall}
  /\ LET sel == IF item_count = 0 THEN NoEntry ELSE listed[Highlighted + 1].d
     IN  selected' = sel /\ \E l \in Lists : listed' = l /\ Show(l, sel, s_scroll, height, 0, 0)
  /\ button' = 0 /\ last' = "again" /\ resized' = FALSE /\ UNCHANGED <<s_scroll, height, unget>>

-----------------------------------------------------------------------------
(* Keys. *)

Key(k) ==
  boxRet = BoxOpen /\ unget \in {noKey, k} /\ unget' = noKey /\ last' = k /\ UNCHANGED resized
Stays == UNCHANGED <<listed, selected, s_scroll, height, first_item, button, boxRet>>

\* do_scroll, and the row that came into view drawn.
ScrolledDown == [i \in DOMAIN screen |-> IF i + 1 \in DOMAIN screen THEN screen[i + 1] ELSE scroll + max_choice]
ScrolledUp == [i \in DOMAIN screen |-> IF i = 0 THEN scroll - 1 ELSE screen[i - 1]]

\* The old row and the new one are drawn again.
Drawn(s, sc, c) == [i \in DOMAIN s |-> IF i = c THEN sc + c ELSE s[i]]
Highlight(s) == screen' = Drawn(s, scroll', choice')

Before == [i \in DOMAIN screen |-> IF i = choice THEN scroll + choice ELSE screen[i]]

\* Wrong on purpose: the highlight goes up with the items.
UpTwice ==
  /\ Key("UP") /\ item_count # 0
  /\ choice' = (IF choice > 0 THEN choice - 1 ELSE 0)
  /\ scroll' = (IF choice < 2 /\ scroll > 0 THEN scroll - 1 ELSE scroll)
  /\ Highlight(IF choice < 2 /\ scroll > 0 THEN ScrolledUp ELSE Before)
  /\ Stays

\* Near the edge the items move, and the highlight stays.
Up ==
  /\ Key("UP") /\ item_count # 0
  /\ IF choice < 2 /\ scroll > 0
     THEN scroll' = scroll - 1 /\ UNCHANGED choice
     ELSE choice' = (IF choice > 0 THEN choice - 1 ELSE 0) /\ UNCHANGED scroll
  /\ Highlight(IF choice < 2 /\ scroll > 0 THEN ScrolledUp ELSE Before)
  /\ Stays

Down ==
  /\ Key("DOWN") /\ item_count # 0
  /\ IF choice > max_choice - 3 /\ scroll + max_choice < item_count
     THEN scroll' = scroll + 1 /\ UNCHANGED choice
     ELSE choice' = (IF choice + 1 < max_choice THEN choice + 1 ELSE max_choice - 1) /\ UNCHANGED scroll
  /\ Highlight(IF choice > max_choice - 3 /\ scroll + max_choice < item_count THEN ScrolledDown ELSE Before)
  /\ Stays

\* max_choice times up: first the items move, then the highlight.
PageUp ==
  /\ Key("PPAGE") /\ item_count # 0
  /\ LET n == IF scroll < max_choice THEN scroll ELSE max_choice
         up == max_choice - n
     IN  /\ scroll' = scroll - n /\ choice' = (IF up < choice THEN choice - up ELSE 0)
         /\ Highlight([i \in DOMAIN screen |-> IF i < n THEN scroll - n + i ELSE Before[i - n]])
  /\ Stays

PageDown ==
  /\ Key("NPAGE") /\ item_count # 0
  /\ LET rest == item_count - max_choice - scroll
         n == IF rest < max_choice THEN rest ELSE max_choice
         down == max_choice - n
     IN  /\ scroll' = scroll + n /\ choice' = (IF choice + down < max_choice THEN choice + down ELSE max_choice - 1)
         /\ Highlight([i \in DOMAIN screen |-> IF i + n < max_choice THEN Before[i + n] ELSE scroll + n + i])
  /\ Stays

\* The rows whose item has this letter; y, n, m and h are no such letter.
Rows(l) == {i \in 0..max_choice - 1 : listed[scroll + i + 1].hot = l}
IsHot(l) == l \notin {"y", "n", "m", "h"} /\ Rows(l) # {}

FirstOf(S) == CHOOSE i \in S : \A j \in S : i <= j

\* The next row below the highlighted one, or the first.
NextRow(l) ==
  LET below == {i \in Rows(l) : i > choice} IN FirstOf(IF below # {} THEN below ELSE Rows(l))

Hotkey(l) ==
  /\ Key(l) /\ IsHot(l)
  /\ choice' = NextRow(l) /\ UNCHANGED scroll /\ Highlight(Before)
  /\ Stays

\* KEY_RIGHT is TAB.
Button(k) ==
  /\ Key(k) /\ k \in {"LEFT", "TAB"}
  /\ button' = (IF k = "LEFT" THEN button + 4 ELSE button + 1) % 5
  /\ UNCHANGED <<listed, selected, s_scroll, height, scroll, choice, first_item, screen, boxRet>>

\* What the keys return that select the highlighted item.
Returns(k) ==
  CASE k \in {"h", "?"} -> 2
    [] k \in {"s", "y"} -> 5
    [] k = "n" -> 6
    [] k = "m" -> 7
    [] k = "SPACE" -> 8
    [] k = "/" -> 9
    [] k = "z" -> 10
    [] k = "ENTER" -> button

Commands == {"h", "?", "s", "y", "n", "m", "SPACE", "/", "z", "ENTER"}

Command(k) ==
  /\ Key(k) /\ k \in Commands /\ ~IsHot(k)
  /\ s_scroll' = scroll /\ boxRet' = Returns(k)
  /\ UNCHANGED <<listed, selected, height, scroll, choice, first_item, button, screen>>

Leave(k) ==
  /\ Key(k) /\ k \in {"e", "x"} /\ ~IsHot(k)
  /\ boxRet' = KEY_ESC
  /\ UNCHANGED <<listed, selected, s_scroll, height, scroll, choice, first_item, button, screen>>

\* Keys that are neither a command nor the letter of a visible item.
Ignored(k) ==
  /\ Key(k) /\ ~IsHot(k)
  /\ k \notin Commands \cup {"e", "x", "LEFT", "TAB"}
  /\ k \in {"UP", "DOWN", "PPAGE", "NPAGE"} => item_count = 0
  /\ UNCHANGED <<listed, selected, s_scroll, height, scroll, choice, first_item, button, screen, boxRet>>

Keys == {"UP", "DOWN", "PPAGE", "NPAGE", "LEFT", "TAB"} \cup Commands \cup {"e", "x", "a"}

\* on_key_esc looks at the keys that came with ESC: a second ESC leaves, any
\* other single key is put back and counts, and nothing or more is ignored.
Esc ==
  /\ boxRet = BoxOpen /\ unget = noKey
  /\ UNCHANGED <<listed, selected, s_scroll, height, scroll, choice, first_item, button, screen, resized>>
  /\ \/ last' = "ESC" /\ UNCHANGED <<unget, boxRet>>
     \/ last' = "ESC ESC" /\ boxRet' = KEY_ESC /\ UNCHANGED unget
     \/ \E k \in Keys : last' = "ESC key" /\ unget' = k /\ UNCHANGED boxRet

\* KEY_RESIZE: the variables keep their values over the jump to do_resize.
Resize ==
  /\ boxRet = BoxOpen /\ unget = noKey
  /\ \E h \in Heights \ {height} : height' = h /\ Show(listed, selected, s_scroll, h, choice, first_item)
  /\ last' = "RESIZE" /\ resized' = TRUE /\ UNCHANGED <<listed, selected, s_scroll, button, unget>>

MenuNext ==
  \/ OpenMenu \/ Redisplay \/ Up \/ Down \/ PageUp \/ PageDown \/ Esc \/ Resize
  \/ \E k \in Keys : Hotkey(k) \/ Button(k) \/ Command(k) \/ Leave(k) \/ Ignored(k)

MenuSpec == MenuInit /\ [][MenuNext]_menuVars

-----------------------------------------------------------------------------
(* Properties. *)

\* The highlighted row is in the window and the window in the list: over every
\* change of the size of the box and of the list, and from any saved position
\* (menubox.c, "Set choice to default item", and every key that scrolls).
InWindow ==
  boxRet # BoxTooSmall =>
    /\ scroll >= 0 /\ choice >= 0 /\ scroll + max_choice <= item_count
    /\ IF item_count = 0 THEN choice = 0 ELSE choice < max_choice

\* What a row shows is the item that is selected there (print_item against
\* item_set(scroll + choice)) - until the display is resized: a window that
\* then starts at the top is drawn from the first item it had before.
ShowsWindow == boxRet = BoxOpen /\ ~resized => \A i \in DOMAIN screen : screen[i] = scroll + i

\* A key that did something leaves the highlight on its item, wherever the
\* item is in the list that was built afterwards, and the window where it was
\* when the list is the same (s_scroll, active_menu).
StaysOnItem ==
  [][ (Redisplay /\ boxRet' = BoxOpen /\ item_count > 0) =>
      /\ \A i \in DOMAIN listed' :
           listed'[i].d = listed[Highlighted + 1].d => scroll' + choice' = i - 1
      /\ listed' = listed => scroll' = scroll /\ choice' = choice ]_menuVars

\* An arrow moves the highlight by one item, over the edges of the window as
\* well, and stops only at the first and the last item.
ArrowsMoveByOne ==
  [][ LET to == scroll' + choice' IN
      /\ Up => to = Highlighted - 1 \/ (to = 0 /\ Highlighted = 0)
      /\ Down => to = Highlighted + 1 \/ (to = item_count - 1 /\ Highlighted = to) ]_menuVars

\* A page key moves it by one window, or to the first or last item.
PagesMoveByWindow ==
  [][ LET to == scroll' + choice' IN
      /\ PageUp => to = Highlighted - max_choice \/ (to = 0 /\ Highlighted <= max_choice)
      /\ PageDown => to = Highlighted + max_choice
                      \/ (to = item_count - 1 /\ to - Highlighted <= max_choice) ]_menuVars

\* "Pressing a hotkey more than once will sequence through all visible items
\* which use that hotkey" (mconf.c, mconf_readme): between the old highlight and
\* the new one, going down and round, no other visible item has the letter.
HotkeySequences ==
  [][ \A l \in Keys : Hotkey(l) =>
        LET Ahead(i) == (i - choice + max_choice - 1) % max_choice
        IN  \A i \in Rows(l) : Ahead(choice') <= Ahead(i) ]_menuVars

\* "Press <ESC><ESC> or <E> or <X> if there is no hotkey using those letters"
\* (mconf_readme): a letter leaves the box exactly if no visible item has it.
LettersLeave ==
  [][ \A l \in {"e", "x"} : (boxRet = BoxOpen /\ last' = l /\ unget \in {noKey, l}) =>
        (boxRet' = KEY_ESC <=> Rows(l) = {}) ]_menuVars

\* The highlight is in the window and every row shows the item that it selects;
\* arrows, page keys, hotkeys and the letters of commands do what the help says,
\* and the highlight stays on its item when the menu is built again.
HighlightFollows ==
  /\ [](InWindow /\ ShowsWindow)
  /\ ArrowsMoveByOne /\ PagesMoveByWindow /\ HotkeySequences /\ LettersLeave /\ StaysOnItem
=============================================================================
