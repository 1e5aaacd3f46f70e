------------------------------ MODULE KconfigParse -----------------------------
(***************************************************************************)
(* The menu tree that kconfiglib.py makes of Kconfig texts: KconfigRead    *)
(* reads them, _finalize_node (KconfigNodes) turns the nodes into a tree,  *)
(* in which there must be no dependency loop (KconfigLoops).  What a text  *)
(* says is told once more from its lines alone (Said), and compared.       *)
(***************************************************************************)
EXTENDS KconfigRead, KconfigLoops

(* _init: _finalize_node of top_node, and the search for loops, for every order
   that the sets of dependents may have                                       *)
FinalTree(t) == FinalizeNode(t, 1, {})
LoopsIn(t, syms) == {LoopFound(t, order, syms) : order \in SetToSeqs(Items(t))}

-----------------------------------------------------------------------------
(* What a text says, told from its lines alone.                              *)

(* The lines of a help text: from the first one that is not blank, if it is
   indented, to the one before the first that is indented less.              *)
InHelp(text) ==
    LET at[p \in DOMAIN text] ==
          \E h \in 1 .. p - 1, f \in 2 .. p :
            /\ h < f /\ text[h].op = "help" /\ ~ at[h]
            /\ \A q \in h + 1 .. f - 1 : text[q].op = "blank"
            /\ text[f].op # "blank" /\ text[f].indent > 0
            /\ \A q \in f .. p : text[q].op = "blank" \/ text[q].indent >= text[f].indent
    IN at

(* The lines of a file with those of the files that it sources in between,
   each with its place, and without help texts                               *)
RECURSIVE Included(_, _, _)
Included(f, p, path) ==
    IF p > Len(texts[f]) THEN <<>>
    ELSE LET l == texts[f][p]
             place == Append(path, <<f, p>>)
         IN (IF InHelp(texts[f])[p] THEN <<>>
             ELSE <<[op |-> l.op, arg |-> l.arg, place |-> place]>> \o
                  IF l.op = "source" THEN Included(l.arg, 1, place) ELSE <<>>)
            \o Included(f, p + 1, path)

(* The block that line q of a text opens is open at line p *)
OpenAt(text, q, p) ==
    /\ q < p /\ text[q].op \in Openers
    /\ \A r \in q + 1 .. p - 1 :
         Cardinality({i \in q .. r : text[i].op \in Enders})
           < Cardinality({i \in q .. r : text[i].op \in Openers})

(* What the text says of the node that line p defines *)
Said(text) ==
    LET entries == {p \in DOMAIN text : text[p].op \in Statements}
        node(p) == 1 + Cardinality({q \in entries : q <= p})
        item(p) == IF text[p].op = "choice" /\ text[p].arg = None
                   THEN "choice" \o ToString(node(p)) ELSE text[p].arg
        own(p, op) == {q \in p + 1 .. Len(text) : text[q].op = op /\
                         \A r \in p + 1 .. q : text[r].op \in PropOps \cup {"blank"}}
        around(p) == {q \in entries : OpenAt(text, q, p)}
        level(p) == Max(around(p) \cup {0})
        choice(p) == Max({q \in around(p) : text[q].op = "choice"} \cup {0})
        conds(qs) == UNION {Cond(text[q]) : q \in qs}
        \* its dependencies: its own and those around it, up to the next choice
        dep(p) ==
          conds(own(p, "depends")) \cup (IF text[p].op = "if" THEN {text[p].arg} ELSE {})
          \cup UNION {conds(own(q, "depends")) \cup
                        (IF text[q].op = "if" THEN {text[q].arg} ELSE {}) :
                        q \in {r \in around(p) : r > choice(p)}}
          \cup (IF choice(p) = 0 THEN {} ELSE {item(choice(p))})
        prompted(p) == text[p].op \in {"menu", "comment"} \/ own(p, "prompt") # {}
        cond(p) ==
          (IF own(p, "prompt") = {} THEN {} ELSE conds({Max(own(p, "prompt"))})) \cup dep(p)
          \cup (IF text[p].op \notin {"config", "choice"} THEN {}
                ELSE conds(UNION {own(q, "visible") : q \in around(p)}))
        \* p is in the implicit menu of s: with all between them at their level
        needs(p, s) == item(s) \in IF prompted(p) THEN cond(p) ELSE dep(p)
        between(s, p) == {q \in entries : s < q /\ q <= p /\ level(q) = level(p)}
        under[ps \in entries \X entries] ==
          LET p == ps[1]
              s == ps[2] IN
          /\ s < p /\ text[s].op = "config" /\ level(s) = level(p)
          /\ \A q \in between(s, p) :
               needs(q, s) \/ \E z \in between(s, q) \ {q} : under[<<q, z>>]
        hosts(p) == {s \in entries : prompted(s) /\ under[<<p, s>>]}
        parent[p \in entries] ==
          IF hosts(p) # {} THEN node(Max(hosts(p)))
          ELSE IF level(p) = 0 THEN 1
          ELSE IF text[level(p)].op = "if" THEN parent[level(p)] ELSE node(level(p))
        line(k) == CHOOSE p \in entries : node(p) = k
    IN [k \in 2 .. Cardinality(entries) + 1 |->
         LET p == line(k) IN
         [kind |-> Kinds[text[p].op], place |-> text[p].place, parent |-> parent[p],
          dep |-> dep(p), cond |-> IF prompted(p) THEN cond(p) ELSE {},
          props |-> [i \in 1 .. Cardinality(own(p, "default") \cup own(p, "select")) |->
                       LET q == SetToSortSeq(own(p, "default") \cup own(p, "select"), <)[i]
                       IN dep(p) \cup IF text[q].op = "select" THEN {} ELSE Cond(text[q])],
          item |-> item(p)]]

Says == Said(Included(Main, 1, <<>>))
InTree(said, kinds) == SelectSeq([i \in 1 .. Len(menu) - 1 |-> i + 1],
                                 LAMBDA k : said[k].kind \in kinds)
Entries == {"symbol", "choice", "menu", "comment"}

-----------------------------------------------------------------------------
(* Properties *)

(* The dependencies of each node and the conditions of its prompt and other
   properties (_propagate_deps) are its own and those of the ifs, menus and
   choices around it, however the tree was rearranged, and those of a choice
   are represented by the choice itself.  They are copied to the symbol or
   choice once, complete, and to symbols in the order of the texts: the defaults
   of a symbol with several locations are tried in that order
   (_add_props_to_sym).                                                      *)
DepsComplete ==
    Built => \E said \in {Says} :
        LET at == [i \in DOMAIN tree.added |-> tree.added[i].node]
        IN /\ \A k \in DOMAIN said :
                /\ tree.nodes[k].dep = said[k].dep
                /\ tree.nodes[k].prompt => tree.nodes[k].cond = said[k].cond
                /\ tree.nodes[k].props = said[k].props
           /\ SelectSeq(at, LAMBDA k : said[k].kind = "symbol") = InTree(said, {"symbol"})
           /\ Len(at) = Len(InTree(said, {"symbol", "choice"}))
           /\ \A i \in DOMAIN at : /\ tree.added[i].dep = said[at[i]].dep
                                   /\ tree.added[i].props = said[at[i]].props

(* A node is in the implicit menu of a symbol (_finalize_node, _auto_menu_dep)
   exactly if it and all that is between them depend on the symbol or are in
   the implicit menu of another one there; symbols without a prompt and ifs
   have no children left.  next, list and parent agree, and node_iter
   (kconfiglib.py:1907) yields every node in the order of the texts, each once. *)
ImplicitMenus ==
    Built => \E said \in {Says} :
        /\ NodeIter(tree, 1, <<1>>) = <<1>> \o InTree(said, Entries)
        /\ \A k \in DOMAIN said : said[k].kind # "if" => tree.nodes[k].parent = said[k].parent
        /\ \A k \in DOMAIN tree.nodes : k = 1 \/ said[k].kind # "if" =>
             List(tree, k) = SelectSeq(InTree(said, Entries), LAMBDA j : said[j].parent = k)

(* The symbols of a choice are those whose node is right below a location of
   the choice, whether or not there is an if around them (_finalize_choice).  *)
ChoiceMembers ==
    Built => \E said \in {Says} : \A c \in DOMAIN tree.syms :
        LET in(k) == said[k].parent # 1 /\ said[said[k].parent].item = c
                     /\ said[said[k].parent].kind = "choice"
            at == SelectSeq(InTree(said, {"symbol"}), in)
        IN /\ tree.syms[c] = [i \in DOMAIN at |-> said[at[i]].item]
           /\ \A s \in DOMAIN tree.choice :
                IF \E d \in DOMAIN tree.syms : s \in ToSet(tree.syms[d])
                THEN s \in ToSet(tree.syms[tree.choice[s]]) ELSE tree.choice[s] = None

(* A tree that is accepted has no symbol whose value needs itself by way of
   symbols alone (_check_dep_loop_sym), whatever order the sets of dependents
   have: evaluation and invalidation come to an end.  A tree that is refused
   for a loop has one: in what items depend on, with each choice symbol
   depending on what the other ones and the choice depend on.                *)
LoopsTold ==
    /\ result = "finished" =>
         \A S \in SUBSET DOMAIN tree.choice \ {{}} : \E s \in S : DependsOn(tree, s) \cap S = {}
    /\ result = "looped" =>
         LET own(i) == {c \in DOMAIN tree.syms : i \notin DOMAIN tree.syms /\ tree.choice[i] = c}
             others(i) == UNION {ToSet(tree.syms[c]) : c \in own(i)}
             needs(i) == UNION {DependsOn(tree, j) : j \in {i} \cup others(i) \cup own(i)} \ own(i)
         IN \E S \in SUBSET Items(tree) \ {{}} : \A i \in S : needs(i) \cap S # {}

(* The same with the selection of a choice: the value of a choice symbol needs
   what the visibility of all symbols of the choice and the choice itself need.
   "visited, not part of a dependency loop" is what the code says of a symbol
   that was searched (kconfiglib.py:6583).                                   *)
Needs(i) ==
    LET own == {c \in DOMAIN tree.syms : i \notin DOMAIN tree.syms /\ tree.choice[i] = c}
        all == UNION {Prompts(tree, s) : s \in UNION {ToSet(tree.syms[c]) : c \in own}}
               \cup UNION {DependsOn(tree, j) : j \in {i} \cup own}
    IN all \ (DOMAIN tree.syms \ own)

ChoiceLoopsFound ==
    result = "finished" =>
        \E needs \in {[i \in Items(tree) |-> Needs(i)]} :
          \A S \in SUBSET Items(tree) \ {{}} : \E i \in S : needs[i] \cap S = {}

(* Of what is accepted, each file alone ends the blocks that it opens, each with
   the line for its kind, and no others; and the nodes are those that the lines
   outside help texts define, each at its place, in the order in which the texts
   are read: none is lost, repeated or taken from a help text.                *)
AsWritten ==
    Built =>
      /\ \A f \in DOMAIN texts :
           \E text \in {SelectSeq(Included(f, 1, <<>>), LAMBDA l : Len(l.place) = 1)} :
           \A p \in DOMAIN text :
             /\ text[p].op \in Openers => \E q \in p + 1 .. Len(text) : ~ OpenAt(text, p, q + 1)
             /\ text[p].op \in Enders =>
                  \E q \in {Max({0} \cup {r \in 1 .. p - 1 : OpenAt(text, r, p)})} :
                    q # 0 /\ EndOf[text[q].op] = text[p].op
      /\ \E said \in {Says} :
           /\ DOMAIN said = DOMAIN menu \ {1}
           /\ \A k \in DOMAIN said : Place(k) = said[k].place
=============================================================================
