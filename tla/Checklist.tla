------------------------------ MODULE Checklist ------------------------------
(***************************************************************************)
(* libs/lxdialog/checklist.c, the list of the members of a choice, and     *)
(* conf_choice of mconf.c, which opens it until a member was set.  scroll  *)
(* is the first item of the list that is in the window of list_height      *)
(* rows, choice the highlighted row; both are counted from 0.              *)
(***************************************************************************)
EXTENDS Integers, Sequences

CONSTANTS Menus,        (* the visible entries of a choice: of each the      *)
                        (*   symbol s, which a comment has not, and the       *)
                        (*   first letter of its prompt                      *)
          list_height,  (* the rows of the window                            *)
          NoSymbol,         (* no symbol                                         *)
          MaxRow        (* bound: rows the highlight walks down without items *)

ASSUME ChecklistAssumption ==
  /\ list_height \in Nat \ {0} /\ MaxRow \in Nat
  /\ \A m \in Menus : /\ m \in Seq({m[i] : i \in DOMAIN m})
                      /\ \A i, j \in DOMAIN m : m[i].s = m[j].s => i = j \/ m[i].s = NoSymbol

VARIABLES members,     \* the visible entries
          value,       \* the value of the choice
          active,      \* the symbol to start from
          picked,      \* the items with the flag selected
          list_choice, list_scroll, list_button,
          list_screen, \* the item drawn in each row
          list_ret,    \* what dialog_checklist returned
          list_last    \* the last key, for the properties

windowVars == <<list_choice, list_scroll, list_screen>>
listVars == <<members, value, active, picked, windowVars, list_button, list_ret, list_last>>

ListEscKey == 27
ListOpen == -1          \* the box is still there
ListLeft == -2          \* conf_choice has returned
list_count == Len(members)
list_rows == IF list_height < list_count THEN list_height ELSE list_count
ListHighlighted == list_scroll + list_choice

\* The symbols that conf_choice may be given as the value of a choice.
ChoiceValues(m) == {m[i].s : i \in DOMAIN m} \cup {NoSymbol}

-----------------------------------------------------------------------------
(* Opening. *)

\* The first item with the active symbol, or else the last one marked as the
\* value; of a comment both are compared as no symbol.
StartItem(m, a, v) ==
  LET flagged == {i \in DOMAIN m : m[i].s = a}
      marked == {i \in DOMAIN m : m[i].s = v}
  IN  IF flagged # {} THEN (CHOOSE i \in flagged : \A j \in flagged : i <= j) - 1
      ELSE IF marked # {} THEN (CHOOSE i \in marked : \A j \in marked : j <= i) - 1
      ELSE 0

Scrolled(c, s) == IF c >= list_height THEN c - list_height + 1 ELSE s
Row(c) == IF c >= list_height THEN list_height - 1 ELSE c

\* do_resize and what follows it; a resize keeps scroll.
ShowList(m, c, s) ==
  LET n == IF list_height < Len(m) THEN list_height ELSE Len(m)
  IN  /\ list_scroll' = Scrolled(c, s) /\ list_choice' = Row(c)
      /\ list_screen' = [i \in 0..n - 1 |-> Scrolled(c, s) + i]

\* conf_choice builds the list; the active symbol is flagged as selected.
Build(m, a, v) ==
  /\ picked' = {i \in DOMAIN m : m[i].s = a}
  /\ ShowList(m, StartItem(m, a, v), 0) /\ list_button' = 0 /\ list_ret' = ListOpen

ListInit ==
  /\ members = <<>> /\ value = NoSymbol /\ active = NoSymbol /\ picked = {}
  /\ list_choice = 0 /\ list_scroll = 0 /\ list_screen = <<>>
  /\ list_button = 0 /\ list_ret = ListLeft /\ list_last = "none"

conf_choice ==
  /\ list_ret = ListLeft
  /\ \E m \in Menus : \E v \in ChoiceValues(m) :
       members' = m /\ value' = v /\ active' = v /\ Build(m, v, v)
  /\ list_last' = "open"

\* conf_choice after the box: the item is the first that is flagged.
Chosen == CHOOSE i \in picked : \A j \in picked : i <= j

\* After the help the list is opened again, from the member it was about.
ListHelp ==
  /\ list_ret = 1 /\ list_last' = "help" /\ UNCHANGED <<members, value>>
  /\ active' = (IF picked # {} THEN members[Chosen].s ELSE active)
  /\ Build(members, active', value)

\* A comment cannot be chosen: the list is opened again.
Comment ==
  /\ list_ret = 0 /\ picked # {} /\ members[Chosen].s = NoSymbol /\ list_last' = "comment"
  /\ UNCHANGED <<members, value, active>> /\ Build(members, active, value)

\* sym_set_tristate_value makes a member the value of its choice.
Set ==
  /\ list_ret = 0 /\ (picked # {} => members[Chosen].s # NoSymbol)
  /\ value' = (IF picked # {} THEN members[Chosen].s ELSE value)
  /\ list_ret' = ListLeft /\ list_last' = "set"
  /\ UNCHANGED <<members, active, picked, windowVars, list_button>>

Escape ==
  /\ list_ret = ListEscKey /\ list_ret' = ListLeft /\ list_last' = "leave"
  /\ UNCHANGED <<members, value, active, picked, windowVars, list_button>>

-----------------------------------------------------------------------------
(* Keys. *)

ListKey(k) == list_ret = ListOpen /\ list_last' = k
ListStays == UNCHANGED <<members, value, active, picked, list_button, list_ret>>
Redraw(c) ==
  list_screen' = [i \in DOMAIN list_screen |->
                    IF i \in {list_choice, c} THEN list_scroll + i ELSE list_screen[i]]

\* The row of the first visible item that begins with the letter.
ListRows(k) == {i \in 0..list_rows - 1 : members[list_scroll + i + 1].hot = k}

ListHotkey(k) ==
  /\ ListKey(k) /\ ListRows(k) # {}
  /\ list_choice' = (CHOOSE i \in ListRows(k) : \A j \in ListRows(k) : i <= j)
  /\ Redraw(list_choice') /\ UNCHANGED list_scroll /\ ListStays

\* At an edge the items move, and the row that came into view is drawn.
ListUp ==
  /\ ListKey("UP") /\ ListStays
  /\ IF list_choice > 0
     THEN list_choice' = list_choice - 1 /\ Redraw(list_choice') /\ UNCHANGED list_scroll
     ELSE IF list_scroll = 0 THEN UNCHANGED windowVars
     ELSE /\ list_scroll' = list_scroll - 1 /\ UNCHANGED list_choice
          /\ list_screen' = [i \in DOMAIN list_screen |->
                               IF i = 0 THEN list_scroll - 1 ELSE list_screen[i - 1]]

\* Without items the highlight goes down for ever.
ListDown ==
  /\ ListKey("DOWN") /\ ListStays
  /\ IF list_choice # list_rows - 1
     THEN /\ list_choice < MaxRow /\ list_choice' = list_choice + 1
          /\ Redraw(list_choice') /\ UNCHANGED list_scroll
     ELSE IF ListHighlighted >= list_count - 1 THEN UNCHANGED windowVars
     ELSE /\ list_scroll' = list_scroll + 1 /\ UNCHANGED list_choice
          /\ list_screen' = [i \in DOMAIN list_screen |->
                               IF i = list_choice THEN list_scroll + 1 + i ELSE list_screen[i + 1]]

ListButton ==
  /\ ListKey("TAB") /\ list_button' = 1 - list_button
  /\ UNCHANGED <<members, value, active, picked, windowVars, list_ret>>

\* Wrong on purpose: the flag of the active item stays.
SelectMore(k) ==
  /\ ListKey(k) /\ k \in {"s", "SPACE", "ENTER", "h", "?"} /\ ListRows(k) = {}
  /\ list_button' = (IF k \in {"h", "?"} THEN 1 ELSE list_button) /\ list_ret' = list_button'
  /\ picked' = picked \cup {i \in DOMAIN members : i = ListHighlighted + 1}
  /\ UNCHANGED <<members, value, active, windowVars>>

\* Only the highlighted item is flagged then; there may be none.
Select(k) ==
  /\ ListKey(k) /\ k \in {"s", "SPACE", "ENTER", "h", "?"} /\ ListRows(k) = {}
  /\ list_button' = (IF k \in {"h", "?"} THEN 1 ELSE list_button) /\ list_ret' = list_button'
  /\ picked' = {i \in DOMAIN members : i = ListHighlighted + 1}
  /\ UNCHANGED <<members, value, active, windowVars>>

\* x, or ESC twice; the flags of the active item stay.
ListEsc ==
  /\ \/ ListKey("x") /\ ListRows("x") = {}
     \/ ListKey("ESC ESC")
  /\ list_ret' = ListEscKey
  /\ UNCHANGED <<members, value, active, picked, windowVars, list_button>>

ListResize == ListKey("RESIZE") /\ ShowList(members, list_choice, list_scroll) /\ ListStays

ListKeys == {"s", "SPACE", "ENTER", "h", "?", "a", "b"}

ListNext ==
  \/ conf_choice \/ ListHelp \/ Comment \/ Set \/ Escape
  \/ ListUp \/ ListDown \/ ListButton \/ ListEsc \/ ListResize
  \/ \E k \in ListKeys : ListHotkey(k) \/ Select(k)

ListSpec == ListInit /\ [][ListNext]_listVars

-----------------------------------------------------------------------------
(* Properties. *)

ListTypeOK ==
  /\ {value, active} \subseteq ChoiceValues(members) /\ picked \subseteq DOMAIN members
  /\ {list_choice, list_scroll} \subseteq Nat /\ list_button \in {0, 1}
  /\ list_ret \in {ListOpen, ListEscKey, ListLeft, 0, 1}

\* As long as there are items the highlight is on one, and every row shows the
\* item that is selected there: after each key, a resize and each new opening
\* (checklist.c, the places that redraw, against item_set(scroll + choice)).
ShowsList ==
  list_count > 0 =>
    /\ list_choice < list_rows /\ list_scroll + list_rows <= list_count
    /\ \A i \in DOMAIN list_screen : list_screen[i] = list_scroll + i

\* An arrow moves the highlight by one item, and every item can be reached.
ArrowsMoveInList ==
  [][ list_count > 0 =>
        LET to == list_scroll' + list_choice' IN
        /\ ListUp => to = ListHighlighted - 1 \/ (to = 0 /\ ListHighlighted = 0)
        /\ ListDown => to = ListHighlighted + 1 \/ (to = list_count - 1 /\ ListHighlighted = to)
    ]_listVars

\* The member that becomes the value is the one that was drawn in the
\* highlighted row, and the value changes in no other way (conf_choice takes
\* the first flagged item, dialog_checklist clears the flags before).
SetsWhatIsShown ==
  [][ value' # value /\ list_last' # "open" =>
        /\ list_count > 0 /\ list_last' = "set"
        /\ value' = members[list_screen[list_choice] + 1].s /\ value' # NoSymbol ]_listVars

\* After the help of an item the highlight is on it again (active = child->sym).
HelpKeepsPlace ==
  [][ ListHelp /\ list_count > 0 /\ members[ListHighlighted + 1].s # NoSymbol =>
        list_scroll' + list_choice' = ListHighlighted ]_listVars

\* The member that becomes the value of a choice is the one on the highlighted
\* row, over scrolling, comments, help and a second opening (checklist.c).
ChoosesWhatIsShown ==
  []ShowsList /\ ArrowsMoveInList /\ SetsWhatIsShown /\ HelpKeepsPlace
=============================================================================
