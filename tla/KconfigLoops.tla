----------------------------- MODULE KconfigLoops -----------------------------
(***************************************************************************)
(* The search for dependency loops in a menu tree (_check_dep_loop_sym).   *)
(* What an item depends on is gathered from the nodes as _build_dep does,  *)
(* before _add_choice_deps.  _dependents are sets, so the order in which   *)
(* they are visited is not known: order lists all items in the order that  *)
(* the sets happen to have.                                                *)
(***************************************************************************)
EXTENDS KconfigNodes

NodesOf(t, i) == {k \in DOMAIN t.nodes : t.nodes[k].item = i}
Prompts(t, i) == UNION {t.nodes[k].cond : k \in {j \in NodesOf(t, i) : t.nodes[j].prompt}}
PropConds(t, i) == UNION {UNION Range(t.nodes[k].props) : k \in NodesOf(t, i)}

(* _build_dep: the items in the conditions of a choice; for a symbol also in its
   direct and reverse dependencies                                            *)
DirectDep(t, i) ==   \* an OR over the locations: y when one has no dependency
    LET deps == {t.nodes[k].dep : k \in NodesOf(t, i)}
    IN IF {} \in deps THEN {} ELSE UNION deps

DependsOn(t, i) ==
    IF i \in DOMAIN t.syms THEN Prompts(t, i) \cup PropConds(t, i)
    ELSE Prompts(t, i) \cup PropConds(t, i) \cup DirectDep(t, i)
         \cup UNION {{t.nodes[k].item} \cup t.nodes[k].dep :
                       k \in {j \in DOMAIN t.nodes : i \in t.nodes[j].selects}}

Items(t) == DOMAIN t.syms \cup DOMAIN t.choice

Graph(t, order) ==
    [t |-> t,
     dependents |-> [i \in Items(t) |-> SelectSeq(order, LAMBDA j : i \in DependsOn(t, j))]]

(* The search: visited by item, 1 on the way and 2 when done, and whether a loop
   was found.  A choice that is entered through one of its symbols visits the
   others, which do not enter it again.                                       *)
RECURSIVE CheckSym(_, _, _, _), CheckChoice(_, _, _, _)
RECURSIVE CheckSym_MarkDone(_, _, _, _)

CheckChoice(g, v, c, skip) ==
    IF v.loop \/ v.visited[c] = 2 THEN v
    ELSE IF v.visited[c] = 1 THEN [v EXCEPT !.loop = TRUE]
    ELSE LET step(w, s) == IF s = skip THEN w ELSE CheckSym(g, w, s, TRUE)
             done == FoldLeft(step, [v EXCEPT !.visited[c] = 1], g.t.syms[c])
         IN IF done.loop THEN done ELSE [done EXCEPT !.visited[c] = 2]

CheckSym_MarkDone(g, v, s, ignore_choice) == \* mutant: done as soon as it is visited
    IF v.loop \/ v.visited[s] = 2 THEN v
    ELSE LET step(w, d) == IF d \in DOMAIN g.t.syms THEN CheckChoice(g, w, d, "none")
                           ELSE CheckSym_MarkDone(g, w, d, FALSE)
         IN FoldLeft(step, [v EXCEPT !.visited[s] = 2], g.dependents[s])

CheckSym(g, v, s, ignore_choice) ==
    IF v.loop \/ v.visited[s] = 2 THEN v
    ELSE IF v.visited[s] = 1 THEN [v EXCEPT !.loop = TRUE]
    ELSE LET step(w, d) == IF d \in DOMAIN g.t.syms THEN CheckChoice(g, w, d, "none")
                           ELSE CheckSym(g, w, d, FALSE)
             below == FoldLeft(step, [v EXCEPT !.visited[s] = 1], g.dependents[s])
             done == IF ignore_choice \/ g.t.choice[s] \notin DOMAIN g.t.syms THEN below
                     ELSE CheckChoice(g, below, g.t.choice[s], s)
         IN IF done.loop THEN done ELSE [done EXCEPT !.visited[s] = 2]

(* _init: every symbol, in the order of the texts *)
LoopFound(t, order, syms) ==
    \E g \in {Graph(t, order)} :
      LET step(v, s) == CheckSym(g, v, s, FALSE)
      IN FoldLeft(step, [visited |-> [i \in Items(t) |-> 0], loop |-> FALSE], syms).loop
=============================================================================
