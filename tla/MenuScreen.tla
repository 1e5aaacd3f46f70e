------------------------------ MODULE MenuScreen ------------------------------
(***************************************************************************)
(* The screens of menuconfig.py: which menu is shown, which of its nodes,  *)
(* where the cursor and the scrolling are, as the user moves about, enters *)
(* and leaves menus, changes values, loads configurations, searches, reads *)
(* help texts and resizes the terminal.                                    *)
(*                                                                         *)
(* menuconfig keeps the list of shown nodes and an index into it; values   *)
(* decide what is shown, and change behind the list.  What the user values *)
(* make of a tree is the constant View, which KconfigTree computes.        *)
(* Rows count from 0, as in the code.  Drawing is left out except for the  *)
(* rows that are drawn; what saving and quitting do to files is in         *)
(* KconfigFiles.                                                           *)
(***************************************************************************)
EXTENDS KconfigItems, Integers, Sequences, SequencesExt, FiniteSets, FiniteSetsExt

CONSTANTS
    Kconfigs,      \* the Kconfigs that menuconfig may be started on
    Tree,          \* Tree[c]: the menu nodes of c in text order, after finalization
    View(_, _),    \* by Kconfig and user values: what the items are worth
    Loads,         \* Loads[c]: the user values that configuration files hold
    Matching,      \* Matching[c]: the sets of nodes a search text may match
    TextLength,    \* TextLength[c]: bound, the characters in an edit box
    Texts,         \* the symbols that are neither bool nor tristate
    MENU,          \* the item of a menu; a comment has another one
    SCROLL_OFFSET, PG_JUMP,
    SHOW_HELP_HEIGHT, MainHelp, InfoHelp, JumpToHelp, \* heights of help windows
    InfoLines,     \* InfoLines[c]: the lines of an information text
    DialogWidth,   \* the width an input dialog asks for
    Terminals,     \* Terminals[c]: the sizes a terminal may have, <<rows, columns>>
    MaxChanges,    \* MaxChanges[c]: bound, values changed and files loaded
    MaxDialogs,    \* MaxDialogs[c]: bound, dialogs above one another
    MaxStray       \* bound: how far the cursor strays in an empty list

ASSUME TreeAssumption ==
    /\ Symbols \cap ChoiceSet = {}
    /\ \A c \in Kconfigs :
           /\ Len(Tree[c]) \in Nat \ {0} /\ DOMAIN Tree[c] = 1 .. Len(Tree[c])
           /\ \A k \in DOMAIN Tree[c] :
                 /\ Tree[c][k].parent \in 0 .. k - 1
                 /\ Tree[c][k].item \in ChoiceSet \cup {MENU} => Tree[c][k].is_menuconfig

ASSUME ScreenAssumption ==
    /\ \A c \in Kconfigs : /\ Terminals[c] \subseteq Nat \X Nat
                            /\ TextLength[c] \in Nat /\ InfoLines[c] \in Nat
    /\ {PG_JUMP, SHOW_HELP_HEIGHT, MainHelp, InfoHelp, JumpToHelp} \subseteq Nat
    /\ SCROLL_OFFSET \in Nat \ {0} /\ DialogWidth \in Nat /\ Texts \subseteq Symbols

VARIABLES
    kconf,     \* the Kconfig
    user,      \* its user values
    now,       \* what they make of its items: View
    main,      \* the main display, see Main
    show_help, \* show-help mode
    terminal,  \* the size of the terminal
    height,    \* the height of _menu_win
    dialogs,   \* the dialogs above the main display, the last one on top
    changes

vars == <<kconf, user, now, main, show_help, terminal, height, dialogs, changes>>
config == <<kconf, user, now, changes>>

-----------------------------------------------------------------------------
(* The tree.  A node has an item, the index of its parent (0: top_node) and
   is_menuconfig.                                                           *)

Order == [k \in DOMAIN Tree[kconf] |-> k]

(* Those of a list that are in S *)
Only(list, S) ==
    LET upto[j \in 0 .. Len(list)] ==
          IF j = 0 THEN <<>>
          ELSE IF list[j] \in S THEN Append(upto[j - 1], list[j]) ELSE upto[j - 1]
    IN upto[Len(list)]

Node(k) == Tree[kconf][k]
Ancestors == [c \in Kconfigs |->
    LET above[k \in 0 .. Len(Tree[c])] ==
          IF k = 0 THEN {} ELSE {Tree[c][k].parent} \cup above[Tree[c][k].parent]
    IN above]
Above(k) == Ancestors[kconf][k]
IsSymbol(k) == Node(k).item \in Symbols
IsChoice(k) == k # 0 /\ Node(k).item \in ChoiceSet
IsMenu(k) == k = 0 \/ Node(k).is_menuconfig
Children(k) == {d \in DOMAIN Order : Node(d).parent = k}

(* The menu of the interface that contains k: a menu, a menuconfig or a choice *)
ParentMenus == [c \in Kconfigs |-> [k \in DOMAIN Tree[c] |->
    Max({a \in Ancestors[c][k] : a = 0 \/ Tree[c][a].is_menuconfig})]]
ParentMenu(k) == ParentMenus[kconf][k]

(* A symbol also appears if a node below it is _visible, below symbols only *)
Bearers == [c \in Kconfigs |-> [k \in DOMAIN Tree[c] |->
    {d \in DOMAIN Tree[c] : k = d \/
        (k \in Ancestors[c][d] /\ \A a \in Ancestors[c][d] : a >= k => Tree[c][a].item \in Symbols)}]]
Appears_Prompt(k, w, all) == all \/ k \in w.visible \* mutant: visible children do not count

Appears(k, w, all) == all \/ Bearers[kconf][k] \cap w.visible # {}

(* A choice shows what all its locations hold *)
Locations(menu) ==
    IF IsChoice(menu) THEN {k \in DOMAIN Order : Node(k).item = Node(menu).item} ELSE {menu}
Listed(menu, w, all) ==
    {k \in DOMAIN Order : ParentMenu(k) \in Locations(menu) /\ Appears(k, w, all)}

(* ... but no symbol of another location twice, or again *)
Repeated(k, menu, listed) ==
    /\ IsSymbol(k) /\ ParentMenu(k) # menu
    /\ \E j \in listed \ {k} :
          Node(j).item = Node(k).item /\ (ParentMenu(j) = menu \/ j < k)

ShownNodes(menu, w, all) ==
    LET listed == Listed(menu, w, all)
    IN Only(Order, {k \in listed : ~ Repeated(k, menu, listed)})

-----------------------------------------------------------------------------
(* The main display: cur, shown, sel and scroll are _cur_menu, _shown,
   _sel_node_i and _menu_scroll, rows is _parent_screen_rows, all is _show_all;
   lost: the node to select was not in the list, and ValueError raised.       *)

Main == [cur : Nat, shown : Seq(Nat), sel : Nat, scroll : Nat, rows : Seq(Int),
         all : BOOLEAN, lost : BOOLEAN]

Selected(s) == s.shown[s.sel + 1]
AtLeast0(x) == Max({x, 0})
MaxScroll(n, h) == AtLeast0(n - h)

Select(s, k) ==
    IF k \in ToSet(s.shown)
    THEN [s EXCEPT !.sel = (CHOOSE j \in DOMAIN s.shown : s.shown[j] = k) - 1]
    ELSE [s EXCEPT !.lost = TRUE]

(* _center_vertically *)
Center(s, h) ==
    [s EXCEPT !.scroll = Min({AtLeast0(s.sel - h \div 2), MaxScroll(Len(s.shown), h)})]

(* Keeping the cursor on its row, if possible *)
KeepRow(s, row) == [s EXCEPT !.scroll = AtLeast0(s.sel - row)]
Row(s) == s.sel - s.scroll

(* In a choice, the cursor goes to the selected symbol *)
Chosen(s, w) ==
    {k \in ToSet(s.shown) : IsSymbol(k) /\ Node(k).item = w.selection[Node(s.cur).item]}
AtSelection(s, w, h) ==
    IF ~ IsChoice(s.cur) \/ Chosen(s, w) = {} THEN s
    ELSE Center(Select(s, Min(Chosen(s, w))), h)

(* Operations that are actions of their own say what main becomes; \E s \in {v}
   makes TLC evaluate v once                                                   *)
EnterMenu(menu) ==
    \E s \in {[main EXCEPT !.cur = menu, !.shown = ShownNodes(menu, now, main.all),
                            !.sel = 0, !.scroll = 0, !.rows = Append(@, Row(main))]} :
        main' = AtSelection(s, now, height)

LeaveMenu(s, w) ==
    IF s.cur = 0 THEN main' = s
    ELSE \E out \in {Select([s EXCEPT !.cur = ParentMenu(s.cur),
                                     !.shown = ShownNodes(ParentMenu(s.cur), w, s.all)], s.cur)} :
            main' = IF s.rows = <<>> THEN Center(out, height)
                    ELSE KeepRow([out EXCEPT !.rows = Front(@)], Min({Last(s.rows), height - 1}))

(* The nearest node before the cursor that is still shown, or else after it;
   turning show-all off is refused where nothing is left to select           *)
Nearest(s, left) ==
    LET before == {j \in left : j <= s.sel + 1}
    IN s.shown[IF before # {} THEN Max(before) ELSE Min(left)]
ShowInstead(s, new) ==
    LET left == {j \in DOMAIN s.shown : s.shown[j] \in ToSet(new)}
    IN IF left = {} THEN [s EXCEPT !.all = TRUE]
       ELSE KeepRow(Select([s EXCEPT !.all = ~ @, !.shown = new], Nearest(s, left)), Row(s))
ToggleShowAll(s, w) == ShowInstead(s, ShownNodes(s.cur, w, ~ s.all))

UpdateMenu_Stale(s, w) == s \* mutant: the list is not made anew
UpdateMenu_KeepIndex(s, w) == \* mutant: the index is kept, not the node
    [s EXCEPT !.shown = ShownNodes(s.cur, w, s.all)]

(* _update_menu, after a value has changed *)
UpdateMenu(s, w) ==
    KeepRow(Select([s EXCEPT !.shown = ShownNodes(s.cur, w, s.all)], Selected(s)), Row(s))

(* The rows that _draw_main draws *)
Drawn(s, h) == s.scroll .. Min({s.scroll + h, Len(s.shown)}) - 1

-----------------------------------------------------------------------------
(* Moving the cursor in a list of n rows in a window of height h: the main
   display and the list of matches do it alike.                            *)

Down(p, n, h) ==
    IF p.sel = n - 1 THEN p
    ELSE [p EXCEPT !.sel = @ + 1,
                   !.scroll = IF p.sel + 1 >= @ + h - SCROLL_OFFSET /\ @ < MaxScroll(n, h)
                              THEN @ + 1 ELSE @]

Up(p, n, h) ==
    IF p.sel = 0 THEN p
    ELSE [p EXCEPT !.sel = @ - 1,
                   !.scroll = IF p.sel - 1 < @ + SCROLL_OFFSET THEN AtLeast0(@ - 1) ELSE @]

PageDown(p, n, h) ==
    LET at[j \in 0 .. PG_JUMP] == IF j = 0 THEN p ELSE Down(at[j - 1], n, h) IN at[PG_JUMP]
PageUp(p, n, h) ==
    LET at[j \in 0 .. PG_JUMP] == IF j = 0 THEN p ELSE Up(at[j - 1], n, h) IN at[PG_JUMP]

ToFirst(p) == [p EXCEPT !.sel = 0, !.scroll = 0]
ToLast(p, n, h) == [p EXCEPT !.sel = n - 1, !.scroll = MaxScroll(n, h)]

Moves(p, n, h) ==
    {Down(p, n, h), Up(p, n, h), PageDown(p, n, h), PageUp(p, n, h),
     ToFirst(p), ToLast(p, n, h)}

Fit_Nothing(p, h) == p \* mutant: a resize leaves the scrolling alone

(* A resize scrolls down to a cursor that is below the window *)
Fit(p, h) == IF p.sel - p.scroll >= h THEN [p EXCEPT !.scroll = p.sel - h + 1] ELSE p

MainHeight(t, help) == Max({1, t[1] - (IF help THEN SHOW_HELP_HEIGHT ELSE MainHelp) - 3})
MatchesHeight(t) == Max({1, t[1] - JumpToHelp - 4})
TextHeight(t) == Max({1, t[1] - InfoHelp - 2})

-----------------------------------------------------------------------------
(* Edit boxes: n characters, the cursor before character i, the first one
   drawn is h.                                                              *)

NewBox(n, width) == [n |-> n, i |-> n, h |-> AtLeast0(n - width + 1)]

Adjust_OneShort(b, width) == \* mutant: an off-by-one at the right edge
    IF b.i < b.h + SCROLL_OFFSET THEN [b EXCEPT !.h = AtLeast0(b.i - SCROLL_OFFSET)]
    ELSE IF b.i >= b.h + width - SCROLL_OFFSET
         THEN [b EXCEPT !.h = Min({b.i - width + SCROLL_OFFSET, AtLeast0(b.n - width)})]
    ELSE b

Adjust(b, width) ==
    IF b.i < b.h + SCROLL_OFFSET THEN [b EXCEPT !.h = AtLeast0(b.i - SCROLL_OFFSET)]
    ELSE IF b.i >= b.h + width - SCROLL_OFFSET
         THEN [b EXCEPT !.h = Min({b.i - width + SCROLL_OFFSET + 1, AtLeast0(b.n - width + 1)})]
    ELSE b

(* The boxes that a key makes of b: to the left, right, start and end; delete
   characters before the cursor (backspace, Ctrl-W, Ctrl-U), at it (Del), all
   from it on (Ctrl-K); insert one                                            *)
EditText(b, width) ==
    LET At(n, i) == Adjust([b EXCEPT !.n = n, !.i = i], width)
    IN {At(b.n, i) : i \in {AtLeast0(b.i - 1), Min({b.i + 1, b.n}), 0, b.n}}
         \cup {At(b.n - k, b.i - k) : k \in 0 .. b.i}
         \cup {At(b.n - k, b.i) : k \in {Min({1, b.n - b.i}), b.n - b.i}}
         \cup {At(b.n + 1, b.i + 1) : k \in {j \in {1} : b.n < TextLength[kconf]}}

-----------------------------------------------------------------------------
(* Dialogs.  Key dialogs show a message ("key") or ask whether to quit.      *)

Top == IF dialogs = <<>> THEN [kind |-> "main"] ELSE Last(dialogs)
Below == Front(dialogs)
Showing(kind) == Top.kind = kind /\ ~ main.lost
OnTop(frame) == dialogs' = Append(Below, frame)
Push(frame) == Len(dialogs) < MaxDialogs[kconf] /\ dialogs' = Append(dialogs, frame)
InputWidth(t) == Min({DialogWidth, t[2]}) - 4
JumpWidth(t) == t[2] - 2

Init ==
    /\ kconf \in Kconfigs
    /\ user \in Loads[kconf] /\ now = View(kconf, user)
    /\ terminal \in Terminals[kconf] /\ show_help = FALSE
    /\ height = MainHeight(terminal, show_help)
    /\ LET all == ShownNodes(0, now, FALSE) = <<>>
       IN main = [cur |-> 0, shown |-> ShownNodes(0, now, all), sel |-> 0, scroll |-> 0,
                  rows |-> <<>>, all |-> all, lost |-> FALSE]
    /\ dialogs = <<>> /\ changes = 0

(* KEY_RESIZE: a fullscreen dialog leaves the main display as it is *)
Resize(t) ==
    /\ ~ main.lost /\ Top.kind # "over" /\ terminal' = t
    /\ IF Top.kind \in {"jump", "info"}
       THEN /\ IF Top.kind = "jump" THEN OnTop(Fit(Top, MatchesHeight(t))) ELSE UNCHANGED dialogs
            /\ UNCHANGED <<main, height>>
       ELSE /\ height' = MainHeight(t, show_help) /\ main' = Fit(main, height')
            /\ UNCHANGED dialogs
    /\ UNCHANGED <<config, show_help>>

(* The keys of the main display *)
MoveCursor ==
    /\ Showing("main") /\ main' \in Moves(main, Len(main.shown), height)
    /\ UNCHANGED <<config, show_help, terminal, height, dialogs>>

EnterSelected ==
    LET k == Selected(main)
    IN /\ Showing("main") /\ IsMenu(k) /\ ShownNodes(k, now, main.all) # <<>>
       /\ EnterMenu(k)
       /\ UNCHANGED <<config, show_help, terminal, height, dialogs>>

LeaveCurrent ==
    /\ Showing("main") /\ LeaveMenu(main, now)
    /\ UNCHANGED <<config, show_help, terminal, height, dialogs>>

ShowAll ==
    /\ Showing("main") /\ main' = ToggleShowAll(main, now)
    /\ UNCHANGED <<config, show_help, terminal, height, dialogs>>

ShowHelp ==
    /\ Showing("main") /\ show_help' = ~ show_help
    /\ height' = MainHeight(terminal, show_help') /\ main' = Fit(main, height')
    /\ UNCHANGED <<config, terminal, dialogs>>

(* _set_val: the display follows when the value is another one *)
SetVal(i, v) ==
    /\ changes < MaxChanges[kconf] /\ changes' = changes + 1
    /\ user' = IF v = now.value[i] THEN user
               ELSE IF i \in ChoiceSet THEN GiveMode(user, i, v) ELSE Give(user, i, v)
    /\ now' = IF v = now.value[i] THEN now ELSE View(kconf, user')
    /\ UNCHANGED kconf
AfterSet(i, v) == IF v = now.value[i] THEN main ELSE UpdateMenu(main, now')

Changeable(k) ==
    LET i == Node(k).item
    IN /\ i \in Items /\ k \in now.visible
       /\ i \in Texts \/ Cardinality(now.assignable[i]) > 1 \/ i \in now.y_mode

(* _change_node of a bool, a tristate or a choice: the next assignable value;
   choosing a symbol of a choice leads back to the menu                       *)
ChangeSelected ==
    LET k == Selected(main)
        i == Node(k).item
        all == now.assignable[i]
        later == {v \in all : v > now.value[i]}
    IN /\ Showing("main") /\ Changeable(k) /\ i \notin Texts
       /\ IF Cardinality(all) > 1 /\ now.value[i] \notin all
          THEN main' = [main EXCEPT !.lost = TRUE] /\ UNCHANGED config
          ELSE LET v == IF later = {} \/ Cardinality(all) = 1 THEN Min(all) ELSE Min(later)
               IN /\ SetVal(i, v)
                  /\ \E s \in {AfterSet(i, v)} :
                        IF i \in now'.y_mode /\ Children(k) = {} /\ ~ s.lost
                        THEN LeaveMenu(s, now') ELSE main' = s
       /\ UNCHANGED <<show_help, terminal, height, dialogs>>

(* _set_sel_node_tri_val: the keys n, m and y *)
SetSelected ==
    LET i == Node(Selected(main)).item
    IN /\ Showing("main") /\ i \in Items
       /\ \E v \in now.assignable[i] : SetVal(i, v) /\ main' = AfterSet(i, v)
       /\ UNCHANGED <<show_help, terminal, height, dialogs>>

-----------------------------------------------------------------------------
(* The input dialog: for the text of a symbol, or the name of a file to load *)

AskFor(of) ==
    /\ \E n \in 0 .. TextLength[kconf] :
          Push([kind |-> "input", of |-> of, box |-> NewBox(n, InputWidth(terminal))])
    /\ UNCHANGED <<config, main, show_help, terminal, height>>

ChangeText ==
    /\ Showing("main") /\ Changeable(Selected(main)) /\ Node(Selected(main)).item \in Texts
    /\ AskFor(Node(Selected(main)).item)

AskForFile == Showing("main") /\ AskFor(NoValue)

TypeInput ==
    /\ Showing("input")
    /\ \E b \in EditText(Top.box, InputWidth(terminal)) : OnTop([Top EXCEPT !.box = b])
    /\ UNCHANGED <<config, main, show_help, terminal, height>>

EnterText ==
    /\ Showing("input") /\ Top.of # NoValue
    /\ \E v \in now.enter[Top.of] : SetVal(Top.of, v) /\ main' = AfterSet(Top.of, v)
    /\ dialogs' = <<>>
    /\ UNCHANGED <<show_help, terminal, height>>

(* The value is malformed or out of range, or the file cannot be read: after
   the message comes a new dialog with the same text                          *)
RefuseInput ==
    /\ Showing("input")
    /\ dialogs' = <<[Top EXCEPT !.box = NewBox(Top.box.n, InputWidth(terminal))],
                    [kind |-> "key"]>>
    /\ UNCHANGED <<config, main, show_help, terminal, height>>

(* _load_dialog: show-all is turned on for a cursor that would be gone *)
LoadFile ==
    /\ Showing("input") /\ Top.of = NoValue
    /\ changes < MaxChanges[kconf] /\ changes' = changes + 1
    /\ user' \in Loads[kconf] /\ now' = View(kconf, user')
    /\ LET hidden == Selected(main) \notin ToSet(ShownNodes(main.cur, now', main.all))
       IN main' = UpdateMenu([main EXCEPT !.all = @ \/ hidden], now')
    /\ dialogs' = <<[kind |-> "key"]>>
    /\ UNCHANGED <<kconf, show_help, terminal, height>>

AskToQuit ==
    /\ Showing("main") /\ Push([kind |-> "quit"])
    /\ UNCHANGED <<config, main, show_help, terminal, height>>

(* y and n: with or without saving *)
Quit ==
    /\ Showing("quit") /\ OnTop([kind |-> "over"])
    /\ UNCHANGED <<config, main, show_help, terminal, height>>

(* ESC: _input_dialog, _key_dialog *)
CloseDialog ==
    /\ Top.kind \in {"input", "key", "quit"} /\ dialogs' = Below
    /\ UNCHANGED <<config, main, show_help, terminal, height>>

-----------------------------------------------------------------------------
(* The information and the jump-to dialog, fullscreen, above one another     *)

(* _sorted_sc_nodes, _sorted_menu_comment_nodes *)
SearchOrder ==
    LET Of(S) == Only(Order, {k \in DOMAIN Order : Node(k).item \in S})
    IN Of(Symbols) \o Of(ChoiceSet) \o Of({MENU})
         \o Only(Order, {k \in DOMAIN Order : Node(k).item \notin Items \cup {MENU}})

(* A text matches some nodes, a bad one none, no text all *)
Matches(n) ==
    {Only(SearchOrder, IF n = 0 THEN DOMAIN Order ELSE S) : S \in Matching[kconf]}

OpenInfo ==
    /\ Showing("main") \/ (Showing("jump") /\ Top.found # <<>>)
    /\ Push([kind |-> "info", scroll |-> 0])
    /\ UNCHANGED <<config, main, show_help, terminal, height>>

OpenJump ==
    /\ Showing("main") \/ (Showing("info") /\ Below = <<>>)
    /\ \E found \in Matches(0) :
          Push([kind |-> "jump", box |-> NewBox(0, 1), found |-> found, sel |-> 0, scroll |-> 0])
    /\ UNCHANGED <<config, main, show_help, terminal, height>>

(* What lies below takes the size that the terminal has by now *)
BackTo(frames, s) ==
    /\ height' = IF frames = <<>> THEN MainHeight(terminal, show_help) ELSE height
    /\ main' = IF frames = <<>> THEN Fit(s, height') ELSE s
    /\ dialogs' = IF frames # <<>> /\ Last(frames).kind = "jump"
                  THEN Append(Front(frames), Fit(Last(frames), MatchesHeight(terminal)))
                  ELSE frames
    /\ UNCHANGED <<config, show_help, terminal>>

(* Leaving: q or ESC, and / in an information text that a search opened *)
CloseFull ==
    /\ Showing("info") \/ Showing("jump")
    /\ BackTo(Below, main)

ScrollInfo ==
    LET most == MaxScroll(InfoLines[kconf], TextHeight(terminal))
        at == Top.scroll
    IN /\ Showing("info")
       /\ \E to \in {IF at < most THEN at + 1 ELSE at, AtLeast0(at - 1), most, 0,
                     Min({at + PG_JUMP, most}), AtLeast0(at - PG_JUMP)} :
             OnTop([Top EXCEPT !.scroll = to])
       /\ UNCHANGED <<config, main, show_help, terminal, height>>

MoveMatch ==
    /\ Showing("jump") /\ (Top.found # <<>> \/ Top.sel \in -MaxStray .. MaxStray)
    /\ \E p \in Moves(Top, Len(Top.found), MatchesHeight(terminal)) : OnTop(p)
    /\ UNCHANGED <<config, main, show_help, terminal, height>>

(* A text that has changed is searched for, from the first match on *)
TypeSearch ==
    /\ Showing("jump")
    /\ \E b \in EditText(Top.box, JumpWidth(terminal)) :
          IF b.n = Top.box.n THEN OnTop([Top EXCEPT !.box = b])
          ELSE \E found \in Matches(b.n) :
                  OnTop([Top EXCEPT !.box = b, !.found = found, !.sel = 0, !.scroll = 0])
    /\ UNCHANGED <<config, main, show_help, terminal, height>>

(* _jump_to, and back to the main display: to the first child of a menu or a
   choice, else to the node in its menu.  Show-all is turned on for a node that
   is not shown, and off again if it was for a first child and leaves anything;
   a choice opens at its selection.                                            *)
JumpsInto(k) == (IsChoice(k) \/ Node(k).item = MENU) /\ Children(k) # {}

Forget(s) == [s EXCEPT !.rows = <<>>]

JumpTo(k) ==
    \E menu \in {IF JumpsInto(k) THEN k ELSE ParentMenu(k)},
       to \in {IF JumpsInto(k) THEN Min(Children(k)) ELSE k} :
    \E all \in {main.all \/ to \notin ToSet(ShownNodes(menu, now, main.all))} :
    \E there \in {Select([Forget(main) EXCEPT !.cur = menu, !.all = all,
                                       !.shown = ShownNodes(menu, now, all)], to)} :
    \E back \in {IF JumpsInto(k) /\ all # main.all THEN ToggleShowAll(there, now) ELSE there} :
    \E s \in {Center(back, height)} :
    \E at \in {IF JumpsInto(k) THEN AtSelection(s, now, height) ELSE s} : BackTo(<<>>, at)

AcceptMatch ==
    /\ Showing("jump") /\ Top.found # <<>>
    /\ \E k \in {Top.found[Top.sel + 1]} : JumpTo(k)

-----------------------------------------------------------------------------
Next ==
    \/ \E t \in Terminals[kconf] : Resize(t)
    \/ MoveCursor \/ EnterSelected \/ LeaveCurrent \/ ShowAll \/ ShowHelp
    \/ ChangeSelected \/ SetSelected \/ ChangeText
    \/ AskForFile \/ TypeInput \/ EnterText \/ RefuseInput \/ LoadFile
    \/ AskToQuit \/ Quit \/ CloseDialog
    \/ OpenInfo \/ OpenJump \/ CloseFull \/ ScrollInfo \/ MoveMatch \/ TypeSearch \/ AcceptMatch

Spec == Init /\ [][Next]_vars

-----------------------------------------------------------------------------
(* Frames of the dialogs *)
Frames ==
    LET Box == [n : Nat, i : Nat, h : Nat]
    IN [kind : {"key", "quit", "over"}] \cup [kind : {"info"}, scroll : Nat]
         \cup [kind : {"input"}, of : Texts \cup {NoValue}, box : Box]
         \cup [kind : {"jump"}, box : Box, found : Seq(Nat), sel : Int, scroll : Nat]

(* Rows, texts and scrolling are natural numbers, and dialogs lie above one
   another as the program opens them.                                        *)
TypeOK ==
    /\ main \in Main /\ height \in Nat \ {0} /\ terminal \in Terminals[kconf]
    /\ \A j \in DOMAIN dialogs :
          /\ dialogs[j] \in Frames
          /\ dialogs[j].kind \in {"key", "info"} => j <= 3
          /\ j > 1 /\ dialogs[j].kind = "jump" => dialogs[j - 1].kind = "info" /\ j = 2

(* The node that a key acts on, and the match that Enter takes, are there and
   in a row that is drawn, after any movement, change of values, new text or
   resizing: "the implementation relies on always having a selected node"
   (menuconfig.py:1310).                                                     *)
CursorOnScreen ==
    /\ ~ main.lost /\ main.sel \in Drawn(main, height)
    /\ Top.kind = "jump" /\ Top.found # <<>> => Top.sel \in
          Top.scroll .. Min({Top.scroll + MatchesHeight(terminal), Len(Top.found)}) - 1

(* "_shown: List of items in _cur_menu that are shown (ignoring scrolling)":
   the list is what the values of now make of the menu; a value that changes
   behind it does not leave it stale.                                        *)
ShownIsCurrent == main.shown = ShownNodes(main.cur, now, main.all)

(* What the screen relies on.  What the values make of a tree: whatever is
   visible lies in menus and choices that are visible, at all locations of
   the choice; a node that is given a value still appears; the value that
   Space and Enter go on from is among those they choose from.                *)
MenusFollow(w) ==
    \A d \in w.visible : \A a \in Above(d) \ {0} :
        IsSymbol(a) \/ Locations(a) \subseteq w.visible

Given(i, v) == IF i \in ChoiceSet THEN GiveMode(user, i, v) ELSE Give(user, i, v)
StaysListed ==
    changes < MaxChanges[kconf] =>
    \A k \in DOMAIN Order : Node(k).item \in Items /\ Appears(k, now, FALSE) =>
        \A v \in Accepts[Node(k).item] :
            Appears(k, View(kconf, Given(Node(k).item, v)), FALSE)

ValuesOffered ==
    \A k \in DOMAIN Order : Changeable(k) /\ Node(k).item \notin Texts =>
        LET i == Node(k).item
        IN Cardinality(now.assignable[i]) > 1 => now.value[i] \in now.assignable[i]

ValuesFit == MenusFollow(now) /\ StaysListed /\ ValuesOffered

(* No choice that has several locations holds a menu, or a symbol that has
   another node.                                                              *)
PlainChoices ==
    \A c \in Kconfigs : \A k, q \in DOMAIN Tree[c] :
        LET p == ParentMenus[c][k]
        IN p \notin {0, q} /\ Tree[c][p].item \in ChoiceSet /\ Tree[c][q].item = Tree[c][p].item =>
           /\ ~ Tree[c][k].is_menuconfig
           /\ Tree[c][k].item \in Symbols =>
                 \A j \in DOMAIN Tree[c] \ {k} : Tree[c][j].item # Tree[c][k].item

(* The way back: each menu above the one that is shown is listed in its own
   parent, so that leaving finds it there, whatever was changed or loaded
   inside, wherever a search has jumped and whenever show-all is turned off.
   At most one row is remembered per menu that can be left.                   *)
WayBack ==
    /\ \A m \in ({main.cur} \cup Above(main.cur)) \ {0} :
          IsMenu(m) => m \in ToSet(ShownNodes(ParentMenu(m), now, main.all))
    /\ Len(main.rows) <= Cardinality({m \in Above(main.cur) : IsMenu(m)})

(* "the cursor never touches the left or right edges of the edit box, except
   when it's at the beginning or the end of the string" (menuconfig.py:2925),
   after a key, in a box that has room for the offset, whatever the terminal
   was resized to before.                                                     *)
Clear(b, width) ==
    LET x == b.i - b.h
    IN x \in 0 .. width - 1 /\ (x = 0 => b.i = 0) /\ (x = width - 1 => b.i = b.n)
KeysKeepClear ==
    [][TypeInput \/ TypeSearch =>
         LET width == IF Top.kind = "jump" THEN JumpWidth(terminal) ELSE InputWidth(terminal)
         IN width >= SCROLL_OFFSET + 2 => Clear(Last(dialogs').box, width)]_vars

(* A new value or a loaded file leaves the cursor on its node, and on its row
   unless too little is left above it, although nodes come and go.            *)
PlaceKept ==
    [][now' # now /\ main'.cur = main.cur =>
         /\ Selected(main') = Selected(main)
         /\ Row(main') = Row(main) \/ main'.scroll = 0]_vars
=============================================================================
