----------------------------- MODULE KconfigCache -----------------------------
(***************************************************************************)
(* The user values of a Kconfig and the caches over what follows from      *)
(* them (kconfiglib.py: Symbol and Choice, their set_value, unset_value    *)
(* and _rec_invalidate, Kconfig.load_config and unset_values).             *)
(*                                                                         *)
(* A node is an item with one of its cached properties.  What a node is    *)
(* worth under given user values, and which nodes are read to find out, is *)
(* the constant Worth: KconfigTree computes it from a Kconfig tree.        *)
(* The assumptions say what the caches rely on.  Left out are the          *)
(* tri_value and assignable of symbols that are neither bool nor tristate, *)
(* which never change.                                                     *)
(***************************************************************************)
EXTENDS KconfigItems, Naturals, Sequences, FiniteSets

CONSTANTS
    HasPrompt,  \* the symbols with a prompt
    Dependents, \* _dependents of each item
    Nodes,      \* the items with their cached properties
    Worth(_),   \* by user values, for each node: its value v, the nodes t read for it
    Asked,      \* the nodes that clients read
    Files,      \* what .config files hold: sequences of <<symbol, value>>
    Uncached,   \* None, and _NO_CACHED_SELECTION, as cached value
    MaxOps      \* bound: calls that change user values

Val(u, n) == Worth(u)[n].v
Touch(u, n) == Worth(u)[n].t
ItemsOf(nodes) == {n[1] : n \in nodes}

ASSUME TreeAssumption ==
    /\ Symbols \cap ChoiceSet = {} /\ Modules \in Symbols
    /\ HasPrompt \subseteq Symbols
    /\ ChoiceOf \in [Symbols -> ChoiceSet \cup {NoValue}] /\ NoValue \notin Items
    /\ DOMAIN Accepts = Items /\ \A i \in Items : NoValue \notin Accepts[i]
    /\ Dependents \in [Items -> SUBSET Items]
    /\ Nodes \subseteq Items \X {"vis", "tri", "str", "asg", "sel"}
    /\ \A i \in Items : <<i, "vis">> \in Nodes
    /\ Asked \subseteq Nodes /\ MaxOps \in Nat
    /\ \A f \in Files : f \in Seq(Symbols \X (UserValues \ {NoValue}))

(* _add_choice_deps and the choice in the symbols' dependencies *)
ASSUME MemberAssumption ==
    \A s \in HasPrompt : ChoiceOf[s] # NoValue => s \in Dependents[ChoiceOf[s]]

(* Everything read for a node that was read is read for the node, and a node
   reads its own visibility.                                                 *)
ASSUME TouchAssumption ==
    \A u \in Users : LET worth == Worth(u) IN \A n \in Nodes :
        /\ worth[n].v # Uncached /\ worth[n].t \subseteq Nodes
        /\ n \in worth[n].t /\ <<n[1], "vis">> \in worth[n].t
        /\ \A m \in worth[n].t : worth[m].t \subseteq worth[n].t

(* The user value of an item that was not read, or of a symbol without a
   prompt, makes no difference.                                            *)
Without(u, w, i) ==
    LET worth == Worth(u)
        other == Worth(w)
    IN \A n \in Nodes :
          i \notin ItemsOf(worth[n].t) \/ i \in Symbols \ HasPrompt =>
              other[n] = worth[n]

ASSUME DeterminedAssumption ==
    \A u \in Users :
        /\ \A s \in Symbols : \A v \in Accepts[s] \cup {NoValue} :
              Without(u, [u EXCEPT !.val[s] = v], s)
        /\ \A c \in ChoiceSet :
              /\ \A v \in Accepts[c] \cup {NoValue} :
                    Without(u, [u EXCEPT !.mode[c] = v], c)
              /\ \A s \in Symbols \cup {NoValue} :
                    LET w == [u EXCEPT !.sel[c] = s]
                    IN w \in Users => Without(u, w, c)

(* _build_dep: from every item read for a node the dependents lead to the
   item of the node, over items that were read too, or MODULES was read.    *)
ASSUME TrackedAssumption ==
    \A u \in Users : LET worth == Worth(u) IN \A n \in Nodes :
        LET read == ItemsOf(worth[n].t)
        IN \A R \in SUBSET read :
              /\ R # {} /\ Modules \notin R
              /\ \A r \in R : Dependents[r] \cap read \subseteq R
              => n[1] \in R

(* A symbol in a choice is bool or tristate, and the choice takes a y that
   the symbol takes (_check_choice_sanity, _finalize_choice).              *)
ASSUME ModesAssumption ==
    \A s \in Symbols : ChoiceOf[s] # NoValue =>
        Accepts[s] \subseteq 0 .. 2 /\ (2 \in Accepts[s] => 2 \in Accepts[ChoiceOf[s]])

VARIABLES
    user,   \* the user values
    cached, \* the cached value of each node, or Uncached
    pc,     \* "idle", or inside load_config: "load", "unset", "loaded"
    file,   \* the file being loaded
    todo,   \* its lines to come
    replace,\* load_config's argument
    was_set,\* the items with _was_set, which matters during a replacing load
    ops

vars == <<user, cached, pc, file, todo, replace, was_set, ops>>
loading == <<pc, file, todo, replace, was_set>>

-----------------------------------------------------------------------------
(* Invalidation *)

Propagates_NoModules(cache, R) == \* mutant: nothing special about MODULES
    \A r \in R : \A d \in Dependents[r] : cache[<<d, "vis">>] # Uncached => d \in R

Propagates(cache, R) ==
    /\ \A r \in R : \A d \in Dependents[r] :
            cache[<<d, "vis">>] # Uncached => d \in R
    /\ Modules \in R => R = Items

(* The items that _rec_invalidate reaches: the least such set with i *)
Reach(cache, i) ==
    {j \in Items : \A R \in SUBSET Items : i \in R /\ Propagates(cache, R) => j \in R}

Invalidate(cache, i) ==
    LET R == Reach(cache, i)
    IN [n \in Nodes |-> IF n[1] \in R THEN Uncached ELSE cache[n]]

InvalidateIfPrompt(cache, s) ==
    IF s \in HasPrompt THEN Invalidate(cache, s) ELSE cache

-----------------------------------------------------------------------------
(* set_value and unset_value, on a pair of user values and cache *)

SetSymbol(u, cache, s, v) ==
    IF v \notin Accepts[s] \/ (v = u.val[s] /\ ChoiceOf[s] = NoValue)
    THEN [u |-> u, cache |-> cache]
    ELSE IF ChoiceOf[s] # NoValue /\ v = 2
         THEN [u |-> [u EXCEPT !.val[s] = v, !.sel[ChoiceOf[s]] = s],
               cache |-> Invalidate(cache, ChoiceOf[s])]
         ELSE [u |-> [u EXCEPT !.val[s] = v], cache |-> InvalidateIfPrompt(cache, s)]

SetMode(u, cache, c, v) ==
    IF v \notin Accepts[c] \/ v = u.mode[c] THEN [u |-> u, cache |-> cache]
    ELSE [u |-> [u EXCEPT !.mode[c] = v], cache |-> Invalidate(cache, c)]

UnsetSymbol(u, cache, s) ==
    IF u.val[s] = NoValue THEN [u |-> u, cache |-> cache]
    ELSE [u |-> [u EXCEPT !.val[s] = NoValue],
          cache |-> InvalidateIfPrompt(cache, s)]

UnsetChoice(u, cache, c) ==
    IF u.mode[c] = NoValue /\ u.sel[c] = NoValue THEN [u |-> u, cache |-> cache]
    ELSE [u |-> [u EXCEPT !.mode[c] = NoValue, !.sel[c] = NoValue],
          cache |-> Invalidate(cache, c)]

(* A line of a .config: m and y for a choice symbol also set the mode *)
Assign(u, cache, s, v) ==
    IF v \notin Accepts[s] THEN [u |-> u, cache |-> cache]
    ELSE IF ChoiceOf[s] # NoValue /\ v # 0
         THEN LET r == SetMode(u, cache, ChoiceOf[s], v)
              IN SetSymbol(r.u, r.cache, s, v)
         ELSE SetSymbol(u, cache, s, v)

(* The items whose _was_set the line makes True *)
SetBy_Always(s, v) == \* mutant: "is not set" marks the choice too
    IF v \notin Accepts[s] THEN {} ELSE {s, ChoiceOf[s]} \ {NoValue}

SetBy(s, v) ==
    IF v \notin Accepts[s] THEN {}
    ELSE IF ChoiceOf[s] = NoValue \/ v = 0 THEN {s}
    ELSE {s} \cup (IF v = 2 \/ v \in Accepts[ChoiceOf[s]] THEN {ChoiceOf[s]} ELSE {})

-----------------------------------------------------------------------------
Init ==
    /\ user = Blank
    /\ cached = [n \in Nodes |-> Uncached]
    /\ pc = "idle" /\ file = <<>> /\ todo = <<>>
    /\ replace = FALSE /\ was_set = {} /\ ops = 0

Become(r) == user' = r.u /\ cached' = r.cache

Get_Alone(n) == \* mutant: the visibility is not cached on the way
    /\ pc = "idle" /\ cached[n] = Uncached
    /\ cached' = [cached EXCEPT ![n] = Val(user, n)]
    /\ UNCHANGED <<user, loading, ops>>

(* A property is read: what is not cached yet of all it needs is evaluated *)
Get(n) ==
    /\ pc = "idle" /\ cached[n] = Uncached
    /\ cached' = [m \in Nodes |->
          IF m \in Touch(user, n) /\ cached[m] = Uncached THEN Val(user, m)
          ELSE cached[m]]
    /\ UNCHANGED <<user, loading, ops>>

Call(r) ==
    /\ pc = "idle" /\ ops < MaxOps /\ ops' = ops + 1
    /\ Become(r)

SetValue(s, v) == Call(SetSymbol(user, cached, s, v)) /\ UNCHANGED loading
SetChoiceValue(c, v) == Call(SetMode(user, cached, c, v)) /\ UNCHANGED loading
UnsetValue(s) == Call(UnsetSymbol(user, cached, s)) /\ UNCHANGED loading
UnsetChoiceValue(c) == Call(UnsetChoice(user, cached, c)) /\ UNCHANGED loading

(* load_config.  unset_values does what a replacing load of an empty file
   does.                                                                  *)
LoadConfig(f, rep) ==
    /\ pc = "idle" /\ ops < MaxOps /\ ops' = ops + 1
    /\ pc' = "load" /\ file' = f /\ todo' = f /\ replace' = rep
    /\ UNCHANGED <<user, cached, was_set>>

LoadLine ==
    /\ pc = "load" /\ todo # <<>>
    /\ LET s == Head(todo)[1]
           v == Head(todo)[2]
       IN Become(Assign(user, cached, s, v)) /\ was_set' = was_set \cup SetBy(s, v)
    /\ todo' = Tail(todo)
    /\ UNCHANGED <<pc, file, replace, ops>>

LoadEnd ==
    /\ pc = "load" /\ todo = <<>>
    /\ pc' = IF replace THEN "unset" ELSE "loaded"
    /\ UNCHANGED <<user, cached, file, todo, replace, was_set, ops>>

UnsetSymbols == {s \in Symbols \ was_set : user.val[s] # NoValue}
UnsetChoices ==
    {c \in ChoiceSet \ was_set : user.mode[c] # NoValue \/ user.sel[c] # NoValue}

UnsetRest ==
    /\ pc = "unset"
    /\ \/ \E s \in UnsetSymbols : Become(UnsetSymbol(user, cached, s)) /\ UNCHANGED pc
       \/ /\ UnsetSymbols = {}
          /\ \E c \in UnsetChoices : Become(UnsetChoice(user, cached, c))
          /\ UNCHANGED pc
       \/ /\ UnsetSymbols = {} /\ UnsetChoices = {}
          /\ pc' = "loaded"
          /\ UNCHANGED <<user, cached>>
    /\ UNCHANGED <<file, todo, replace, was_set, ops>>

Return ==
    /\ pc = "loaded" /\ pc' = "idle"
    /\ file' = <<>> /\ replace' = FALSE /\ was_set' = {}
    /\ UNCHANGED <<user, cached, todo, ops>>

Next ==
    \/ \E n \in Asked : Get(n)
    \/ \E s \in Symbols : UnsetValue(s) \/ \E v \in UserValues \ {NoValue} : SetValue(s, v)
    \/ \E c \in ChoiceSet :
          UnsetChoiceValue(c) \/ \E v \in UserValues \ {NoValue} : SetChoiceValue(c, v)
    \/ \E f \in Files, rep \in BOOLEAN : LoadConfig(f, rep)
    \/ LoadLine \/ LoadEnd \/ UnsetRest \/ Return

Spec == Init /\ [][Next]_vars

-----------------------------------------------------------------------------
(* Properties *)

(* The user values stay ones that set_value accepts, and a selection is a
   member of its choice.                                                  *)
TypeOK ==
    /\ user \in Users
    /\ DOMAIN cached = Nodes
    /\ pc \in {"idle", "load", "unset", "loaded"}
    /\ {file, todo} \subseteq Seq(Symbols \X (UserValues \ {NoValue}))
    /\ replace \in BOOLEAN /\ was_set \subseteq Items /\ ops \in 0 .. MaxOps

(* What is cached is what the present user values give: no call, in no order,
   leaves a stale value behind (the whole of _rec_invalidate).              *)
Coherent == \A n \in Nodes : cached[n] # Uncached => cached[n] = Val(user, n)

(* The comment in Symbol._rec_invalidate: "If item._cached_vis is None, it
   means there can't be cached values on other items that depend on 'item'". *)
FlagSound ==
    \A n \in Nodes : cached[n] # Uncached =>
        \A m \in Touch(user, n) : cached[<<m[1], "vis">>] # Uncached

(* The user values that the lines of f give a new Kconfig *)
Fresh(f) ==
    LET after[k \in 0 .. Len(f)] ==
          IF k = 0 THEN [u |-> Blank, cache |-> [n \in Nodes |-> Uncached]]
          ELSE Assign(after[k - 1].u, after[k - 1].cache, f[k][1], f[k][2])
    IN after[Len(f)].u

(* A replacing load_config leaves the user values and modes of the file and
   no others, whatever was there before.  A selection of before can stay only
   where the file selects nothing in a choice whose mode it sets.            *)
LoadReplacesValues ==
    pc = "loaded" /\ replace =>
        LET fresh == Fresh(file)
        IN /\ user.val = fresh.val /\ user.mode = fresh.mode
           /\ \A c \in ChoiceSet :
                 user.sel[c] # fresh.sel[c] => fresh.sel[c] = NoValue /\ fresh.mode[c] = 1

(* "If True, all existing user values will be cleared before loading the
   .config" (load_config): everything is then worth what the file makes it
   worth in a new Kconfig.                                                 *)
LoadReplaces ==
    pc = "loaded" /\ replace =>
        \A n \in Nodes : Val(user, n) = Val(Fresh(file), n)
=============================================================================
