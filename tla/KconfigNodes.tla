----------------------------- MODULE KconfigNodes -----------------------------
(***************************************************************************)
(* What kconfiglib.py makes of the menu nodes when the texts are read      *)
(* (_finalize_node): dependencies go down to children, nodes that depend   *)
(* on the symbol before them are tilted up into an implicit menu, nodes    *)
(* without a prompt are flattened, ifs removed, choice symbols marked.     *)
(*                                                                         *)
(* A node has the fields of MenuNode: kind and item, next, list and parent *)
(* (0: None), prompt (whether there is one) and cond, its condition, dep   *)
(* and visibility.  Conditions are conjunctions and stand as sets of their *)
(* operands: a symbol or choice, or an expression that is neither, such as *)
(* a negation, which counts for no implicit menu.  props holds the         *)
(* conditions of the defaults, ranges, selects and implies, which are all  *)
(* treated alike.  Node 1 is top_node.                                     *)
(***************************************************************************)
EXTENDS Naturals, Sequences, SequencesExt, FiniteSets, FiniteSetsExt

(* A tree is [nodes, syms: choice.syms by choice, choice: Symbol.choice,
   added: what was copied up to symbols and choices, in that order]          *)

RECURSIVE Chain(_, _)
Chain(nodes, k) == IF k = 0 THEN <<>> ELSE <<k>> \o Chain(nodes, nodes[k].next)
List(t, k) == Chain(t.nodes, t.nodes[k].list)

IsKind(t, k, kinds) == t.nodes[k].kind \in kinds

(* _auto_menu_dep *)
AutoMenuDep(t, k, other) ==
    t.nodes[k].item \in IF t.nodes[other].prompt THEN t.nodes[other].cond ELSE t.nodes[other].dep

(* _propagate_deps: a choice stands for its own dependencies *)
PropagateDeps_Through(t, k, visibleIf) == \* mutant: the choice's dependencies instead of it
    LET children == ToSet(List(t, k))
        Down(n) == LET dep == n.dep \cup t.nodes[k].dep
                       item == n.kind \in {"symbol", "choice"}
                   IN [n EXCEPT !.dep = dep,
                                !.props = [i \in DOMAIN @ |-> IF item THEN @[i] \cup dep ELSE @[i]],
                                !.cond = @ \cup (IF n.prompt THEN dep ELSE {})
                                           \cup (IF n.prompt /\ item THEN visibleIf ELSE {})]
    IN [t EXCEPT !.nodes = [j \in DOMAIN @ |-> IF j \in children THEN Down(@[j]) ELSE @[j]]]

PropagateDeps(t, k, visibleIf) ==
    LET base == IF IsKind(t, k, {"choice"}) THEN {t.nodes[k].item} ELSE t.nodes[k].dep
        children == ToSet(List(t, k))
        Down(n) == LET dep == n.dep \cup base
                       item == n.kind \in {"symbol", "choice"}
                   IN [n EXCEPT !.dep = dep,
                                !.props = [i \in DOMAIN @ |-> IF item THEN @[i] \cup dep ELSE @[i]],
                                !.cond = @ \cup (IF n.prompt THEN dep ELSE {})
                                           \cup (IF n.prompt /\ item THEN visibleIf ELSE {})]
    IN [t EXCEPT !.nodes = [j \in DOMAIN @ |-> IF j \in children THEN Down(@[j]) ELSE @[j]]]

(* _flatten, along the list from node k on: the children of a node without a
   prompt come after it instead                                              *)
RECURSIVE Flatten(_, _), Flatten_KeepParent(_, _)
Flatten_KeepParent(t, k) == \* mutant: the children keep their parent
    IF k = 0 THEN t
    ELSE LET children == List(t, k)
             up == [t.nodes EXCEPT ![Last(children)].next = t.nodes[k].next,
                                   ![k].next = t.nodes[k].list, ![k].list = 0]
             flat == IF children # <<>> /\ ~ t.nodes[k].prompt /\ ~ IsKind(t, k, {"choice"})
                     THEN [t EXCEPT !.nodes = up] ELSE t
         IN Flatten_KeepParent(flat, flat.nodes[k].next)

Flatten(t, k) ==
    IF k = 0 THEN t
    ELSE LET n == t.nodes[k]
             children == List(t, k)
             up == [j \in DOMAIN t.nodes |->
                      LET m == t.nodes[j] IN
                      IF j = k THEN [m EXCEPT !.next = n.list, !.list = 0]
                      ELSE IF j \notin ToSet(children) THEN m
                      ELSE IF j = Last(children) THEN [m EXCEPT !.parent = n.parent, !.next = n.next]
                      ELSE [m EXCEPT !.parent = n.parent]]
             flat == IF children # <<>> /\ ~ n.prompt /\ n.kind # "choice"
                     THEN [t EXCEPT !.nodes = up] ELSE t
         IN Flatten(flat, flat.nodes[k].next)

(* _remove_ifs *)
RemoveIfs(t, k) ==
    LET kept == SelectSeq(List(t, k), LAMBDA j : ~ IsKind(t, j, {"if"}))
        at(j) == CHOOSE i \in DOMAIN kept : kept[i] = j
    IN [t EXCEPT !.nodes = [j \in DOMAIN @ |->
          IF j = k THEN [@[j] EXCEPT !.list = IF kept = <<>> THEN 0 ELSE kept[1]]
          ELSE IF j \in ToSet(kept)
               THEN [@[j] EXCEPT !.next = IF at(j) = Len(kept) THEN 0 ELSE kept[at(j) + 1]]
               ELSE @[j]]]

(* _finalize_choice: the symbols right below the choice are choice symbols *)
FinalizeChoice_Overwrite(t, k) == \* mutant: those of another location are forgotten
    LET c == t.nodes[k].item
        own == SelectSeq(List(t, k), LAMBDA j : IsKind(t, j, {"symbol"}))
        syms == [i \in DOMAIN own |-> t.nodes[own[i]].item]
    IN [t EXCEPT !.choice = [s \in DOMAIN @ |-> IF s \in ToSet(syms) THEN c ELSE @[s]],
                 !.syms[c] = syms]

FinalizeChoice(t, k) ==
    LET c == t.nodes[k].item
        own == SelectSeq(List(t, k), LAMBDA j : IsKind(t, j, {"symbol"}))
        syms == [i \in DOMAIN own |-> t.nodes[own[i]].item]
    IN [t EXCEPT !.choice = [s \in DOMAIN @ |-> IF s \in ToSet(syms) THEN c ELSE @[s]],
                 !.syms[c] = @ \o syms]

(* _add_props_to_sym, and the same for a choice *)

AddProps(t, k) ==
    [t EXCEPT !.added = Append(@, [node |-> k, dep |-> t.nodes[k].dep, props |-> t.nodes[k].props])]

(* The nodes right after k that depend on the symbol k, each finalized before
   the next one is looked at, become its list; last is the last one so far    *)
RECURSIVE FinalizeNode(_, _, _), Absorb(_, _, _, _), FinalizeList(_, _, _)
Absorb(t, k, last, visibleIf) ==
    LET other == t.nodes[last].next
        nodes == t.nodes
    IN IF other # 0 /\ AutoMenuDep(t, k, other)
       THEN LET done == FinalizeNode(t, other, visibleIf)
            IN Absorb([done EXCEPT !.nodes[other].parent = k], k, other, visibleIf)
       ELSE IF last = k THEN t
       ELSE [t EXCEPT !.nodes = [nodes EXCEPT ![k].list = nodes[k].next,
                                              ![k].next = other, ![last].next = 0]]

FinalizeList(t, k, visibleIf) ==
    IF k = 0 THEN t
    ELSE LET done == FinalizeNode(t, k, visibleIf)
         IN FinalizeList(done, done.nodes[k].next, visibleIf)

FinalizeNode(t, k, visibleIf) ==
    LET n == t.nodes[k]
        visible == IF n.kind = "menu" THEN visibleIf \cup n.visibility ELSE visibleIf
        inner == IF n.kind = "symbol" THEN Absorb(AddProps(t, k), k, k, visibleIf)
                 ELSE IF n.list = 0 THEN t
                 ELSE FinalizeList(PropagateDeps(t, k, visible), n.list, visible)
        level == IF inner.nodes[k].list = 0 THEN inner
                 ELSE RemoveIfs(Flatten(inner, inner.nodes[k].list), k)
    IN IF n.kind = "choice" THEN FinalizeChoice(AddProps(level, k), k) ELSE level

(* node_iter: over lists, next and parents, for the nodes below top_node *)
RECURSIVE NodeIter(_, _, _)
NodeIter(t, k, seen) ==
    LET n == t.nodes[k]
        above == LET up[j \in DOMAIN t.nodes] ==
                       IF j = 1 THEN 0 ELSE IF t.nodes[j].next # 0 THEN t.nodes[j].next
                       ELSE up[t.nodes[j].parent]
                 IN up[k]
        to == IF n.list # 0 THEN n.list ELSE above
    IN IF to = 0 \/ to \in ToSet(seen) THEN seen ELSE NodeIter(t, to, Append(seen, to))
=============================================================================
