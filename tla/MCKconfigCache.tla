---------------------------- MODULE MCKconfigCache ----------------------------
(* An instance of KconfigCache for TLC: the tree                             *)
(*    config MODULES  bool "modules", option modules                         *)
(*    config S  tristate "s"                                                 *)
(*    choice C  tristate "c", optional                                       *)
(*      config A  tristate "a"                                               *)
(*      config B  tristate "b" if S                                          *)
(*    config N  int "n" if B, range 1 3 if MODULES, default 5                *)
(*    config D  tristate, default A, implied by B                            *)
EXTENDS KconfigTree, KconfigCache

MCSymbols == {"MODULES", "S", "A", "B", "N", "D"}
MCChoices == {"C"}
MCTypeOf == [i \in MCSymbols \cup MCChoices |->
    IF i = "MODULES" THEN "bool" ELSE IF i = "N" THEN "int" ELSE "tristate"]

Yes == <<"tri", 2>>
Node(i, parent, prompt) ==
    [item |-> i, parent |-> parent, prompt |-> prompt, dep |-> Yes,
     visible |-> Yes, defaults |-> <<>>, ranges |-> <<>>, selects |-> <<>>,
     implies |-> <<>>]
MCMenu == <<
    Node("MODULES", 0, Yes),
    Node("S", 0, Yes),
    Node("C", 0, Yes),
    Node("A", 3, Yes),
    [Node("B", 3, <<"sym", "S">>) EXCEPT !.implies = <<<<"D", Yes>>>>],
    [Node("N", 0, <<"sym", "B">>) EXCEPT
        !.defaults = <<<<<<"num", 5>>, Yes>>>>,
        !.ranges = <<<<<<"num", 1>>, <<"num", 3>>, <<"sym", "MODULES">>>>>>],
    [Node("D", 0, NoValue) EXCEPT !.defaults = <<<<<<"sym", "A">>, Yes>>>>]>>

(* Tables, behind LET so that TLC's coverage statistics take them as one *)
MCChoiceOf == LET of == MemberOf IN of
MCHasPrompt == LET of == Prompts IN {s \in MCSymbols : of[s] # <<>>}
MCDependents == LET of == BuildDep IN of

(* Of the values that are accepted, those that callers pass here *)
MCAccepts == [i \in MCSymbols \cup MCChoices |->
    CASE i \in {"MODULES", "N"} -> {2} [] i = "D" -> {0}
      [] i = "S" -> {1, 2} [] i = "B" -> {0, 2} [] OTHER -> {1, 2}]

MCNodes ==
    {n \in (MCSymbols \cup MCChoices) \X {"vis", "tri", "str", "asg", "sel"} :
        \/ n[2] = "vis"
        \/ n[1] \in MCChoices /\ n[2] \in {"asg", "sel"}
        \/ n[1] = "N" /\ n[2] = "str"
        \/ n[1] \in MCSymbols \ {"N"} /\ n[2] \in {"tri", "str", "asg"}}

(* @@ makes TLC tabulate a function once and for all *)
Tabulated(f) == f @@ <<>>
Table ==
    Tabulated([u \in Users |-> Tabulated([n \in Nodes |-> Attr(n[2], n[1], u)])])

MCWorth(u) == LET of == Table IN of[u]

MCAsked == {<<"N", "str">>, <<"C", "sel">>, <<"B", "asg">>, <<"D", "tri">>}
MCFiles == {<<>>, <<<<"S", 2>>, <<"A", 1>>>>, <<<<"MODULES", 2>>, <<"B", 0>>>>,
            <<<<"S", 2>>, <<"B", 2>>, <<"A", 1>>>>}
=============================================================================
