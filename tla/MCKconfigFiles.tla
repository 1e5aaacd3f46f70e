---------------------------- MODULE MCKconfigFiles ----------------------------
(* An instance of KconfigFiles for TLC, of the types that this repository's  *)
(* Kconfig files use:                                                        *)
(*    config T  bool "t", default y                                          *)
(*    choice C  bool "c"                                                     *)
(*      config A  bool "a"                                                   *)
(*      config B  bool "b" if S                                              *)
(*    config S  bool "s", select T                                           *)
(*    config N  int "n" if T, range 1 12, default 12                         *)
(* T and B come before what decides about them, so that one pass of          *)
(* oldconfig is not enough; N comes last, where a cut value goes unnoticed.   *)
EXTENDS KconfigTree, KconfigFiles

MCSymbols == {"T", "A", "B", "S", "N"}
MCTypeOf == [i \in MCSymbols \cup {"C"} |-> IF i = "N" THEN "int" ELSE "bool"]
MCOrder == <<"T", "C", "A", "B", "S", "N">>

Yes == <<"tri", 2>>
Node(i, parent, prompt) ==
    [item |-> i, parent |-> parent, prompt |-> prompt, dep |-> Yes,
     visible |-> Yes, defaults |-> <<>>, ranges |-> <<>>, selects |-> <<>>,
     implies |-> <<>>]
MCMenu == <<
    [Node("T", 0, Yes) EXCEPT !.defaults = <<<<Yes, Yes>>>>],
    Node("C", 0, Yes),
    Node("A", 2, Yes),
    Node("B", 2, <<"sym", "S">>),
    [Node("S", 0, Yes) EXCEPT !.selects = <<<<"T", Yes>>>>],
    [Node("N", 0, <<"sym", "T">>) EXCEPT
        !.defaults = <<<<<<"num", 12>>, Yes>>>>,
        !.ranges = <<<<<<"num", 1>>, <<"num", 12>>, Yes>>>>]>>

MCChoiceOf == LET of == MemberOf IN of
MCAccepts == [i \in MCSymbols \cup {"C"} |-> IF i = "N" THEN {1, 12, 99} ELSE {0, 2}]
MCCutValues(v) == LET cut == IF v = 12 THEN {1} ELSE {} IN cut

(* A new tree; one that has a symbol no more; edited by hand, out of order *)
MCFirstConfs == {NoValue, <<<<"GONE", 2>>, <<"S", 2>>, <<"T", 0>>>>,
                 <<<<"B", 2>>, <<"S", 2>>, <<"N", 99>>>>}

(* All properties under all user values, evaluated once and for all.
   @@ makes TLC tabulate a function.                                *)
Tabulated(f) == f @@ <<>>
Column(name, items, u) == Tabulated([i \in items |-> Attr(name, i, u).v])
MakeView(u) == [
    vis |-> Column("vis", Items, u), value |-> Column("value", Symbols, u),
    line |-> Column("line", Symbols, u), default |-> Column("default", Symbols, u),
    rev |-> Column("rev", Symbols, u), preselected |-> Column("preselected", Symbols, u),
    asg |-> Column("asg", Toggles, u), enter |-> Column("enter", Items \ Toggles, u),
    mode |-> Column("mode", ChoiceSet, u)]
Table ==
    Tabulated([sel \in {"A", "B", NoValue} |-> Tabulated([mode \in {0, 2, NoValue} |->
        Tabulated([val \in {u.val : u \in Users} |->
            MakeView([val |-> val, mode |-> [c \in {"C"} |-> mode],
                      sel |-> [c \in {"C"} |-> sel]])])])])

MCView(u) == LET of == Table IN of[u.sel["C"]][u.mode["C"]][u.val]
=============================================================================
