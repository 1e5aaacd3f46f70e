------------------------------ MODULE MCMenuScreen ------------------------------
(* Instances of MenuScreen for TLC.  "nested" has everything that makes nodes  *)
(* come and go:                                                                *)
(*   1 config A  bool "a", default y                                           *)
(*   2   config B  bool "b", depends on A      (an implicit menu: indented)    *)
(*   3 menu "m", depends on A                                                  *)
(*   4   config E  bool "e" if G, default y                                    *)
(*   5 choice C "c"                                                            *)
(*   6   config X  bool "x"                                                    *)
(*   7   config Y  bool "y"                                                    *)
(*   8     config Z  bool "z", depends on Y    (below a choice symbol)         *)
(*   9 choice C "c"                            (a second location)             *)
(*  10   config W  bool "w" if B                                               *)
(*  11 menuconfig G  bool "g" if B, default y                                  *)
(*  12   config H  bool "h", depends on G      (shown below an invisible one)  *)
(* "long" has an int and comments, more than fit on a screen: it is for the    *)
(* cursor, the dialogs and their edit boxes.                                   *)
EXTENDS KconfigTree, MenuScreen

MCSymbols == {"A", "B", "E", "X", "Y", "Z", "W", "G", "H", "I"}
MCTypeOf == [i \in MCSymbols \cup {"C"} |-> IF i = "I" THEN "int" ELSE "bool"]
MCAccepts == [i \in MCSymbols \cup {"C"} |-> IF i = "I" THEN {1, 2} ELSE {0, 2}]

MCKconfigs == {"nested", "long", "text"}

Yes == <<"tri", 2>>
Entry(i, parent, prompt) ==
    [item |-> i, parent |-> parent, prompt |-> prompt, dep |-> Yes,
     visible |-> Yes, defaults |-> <<>>, ranges |-> <<>>, selects |-> <<>>,
     implies |-> <<>>]
DefaultY(entry) == [entry EXCEPT !.defaults = <<<<Yes, Yes>>>>]
On(entry, s) == [entry EXCEPT !.dep = <<"sym", s>>]

MCMenu == <<
    DefaultY(Entry("A", 0, Yes)),
    On(Entry("B", 1, Yes), "A"),
    On(Entry("MENU", 0, Yes), "A"),
    DefaultY(Entry("E", 3, <<"sym", "G">>)),
    Entry("C", 0, Yes),
    Entry("X", 5, Yes),
    Entry("Y", 5, Yes),
    On(Entry("Z", 7, Yes), "Y"),
    Entry("C", 0, Yes),
    Entry("W", 9, <<"sym", "B">>),
    DefaultY(Entry("G", 0, <<"sym", "B">>)),
    On(Entry("H", 11, Yes), "G"),
    Entry("I", 0, Yes)>>

ScreenNode(i, parent, is) == [item |-> i, parent |-> parent, is_menuconfig |-> is]
OneInt == <<ScreenNode("I", 0, FALSE)>>
MCTree == [c \in MCKconfigs |->
    IF c = "nested" THEN [k \in 1 .. 12 |-> ScreenNode(MCMenu[k].item, MCMenu[k].parent,
                                              MCMenu[k].item \in {"MENU", "C", "G"})]
    ELSE IF c = "long" THEN OneInt \o [k \in 1 .. 3 |-> ScreenNode("COMMENT", 0, FALSE)]
    ELSE OneInt]

MCChoiceOf == LET of == MemberOf IN of

(* Whether the prompt of node k is visible, and the menu with it *)
NodeVisible(k, u) ==
    Expr(PromptCond(k), u).v # 0 /\ (Menu[k].item = "MENU" => Expr(VisibleIf(k), u).v # 0)
NestedView(u) == [
    visible |-> {k \in 1 .. 12 : NodeVisible(k, u)},
    value |-> [i \in Items \ {"I"} |-> IF i = "C" THEN Attr("mode", i, u).v ELSE Attr("tri", i, u).v],
    assignable |-> [i \in Items \ {"I"} |-> Attr("asg", i, u).v],
    y_mode |-> {s \in Symbols \ {"I"} : MemberOf[s] = "C" /\ Attr("vis", s, u).v = 2},
    selection |-> [c \in {"C"} |-> Attr("sel", c, u).v],
    enter |-> <<>>]
IntView(c, u) == [
    visible |-> DOMAIN MCTree[c], value |-> [i \in {"I"} |-> u.val[i]],
    assignable |-> [i \in {"I"} |-> {}], y_mode |-> {}, selection |-> <<>>,
    enter |-> [i \in {"I"} |-> {1, 2}]]

(* What the user may have after the loads and changes that the bounds allow,  *)
(* tabulated with what it makes of the items                                  *)
With(s, v) == [Blank EXCEPT !.val[s] = v]
NestedLoads == {Blank, With("B", 2), [With("Y", 2) EXCEPT !.sel["C"] = "Y"]}
Changed(S) == S \cup {Give(u, s, v) : u \in S, s \in Symbols \ {"I"}, v \in {0, 2}}
                \cup {GiveMode(u, "C", v) : u \in S, v \in {0, 2}}
NestedUsers == Changed(NestedLoads)
Tabulated(f) == f @@ <<>>
Table == Tabulated([u \in NestedUsers |-> NestedView(u)])

MCView(c, u) == LET of == Table IN IF c = "nested" THEN of[u] ELSE IntView(c, u)

ByKconfig(nested, long, text) == [nested |-> nested, long |-> long, text |-> text]
MCLoads == ByKconfig(NestedLoads, {Blank}, {Blank})
MCMatching == ByKconfig({{}}, {{}, {2, 4}, 1 .. 4}, {{}, {1}})
MCTextLength == ByKconfig(0, 1, 4)
MCInfoLines == ByKconfig(1, 5, 1)
MCMaxChanges == ByKconfig(1, 0, 1)
MCMaxDialogs == ByKconfig(1, 2, 2)
MCTerminals == ByKconfig({<<16, 10>>}, {<<6, 7>>, <<8, 10>>}, {<<8, 7>>, <<8, 10>>})

ASSUME ChoiceAssumption == PlainChoices
=============================================================================
