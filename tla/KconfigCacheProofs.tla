--------------------------- MODULE KconfigCacheProofs ---------------------------
(***************************************************************************)
(* The invalidation of KconfigCache is sound for every Kconfig whose tree  *)
(* evaluation meets the assumptions of that module: a cached value is      *)
(* always the one that the present user values give.                       *)
(*                                                                         *)
(* The invariant that carries the proof adds to Coherent that the cache is *)
(* closed: whatever is read for a cached value is cached itself.  That is  *)
(* what makes it safe to stop the invalidation at an item whose visibility *)
(* is not cached.                                                          *)
(***************************************************************************)
EXTENDS KconfigCache, LeastNumber, TLAPS

(* The cache holds values of u, and with each of them all that was read. *)
Holds(u, cache) ==
    \A n \in Nodes : cache[n] # Uncached =>
        /\ cache[n] = Val(u, n)
        /\ \A m \in Touch(u, n) : cache[m] # Uncached

(* What a call leaves behind, given user values and a cache *)
Good(r) ==
    /\ r.u \in Users
    /\ DOMAIN r.cache = Nodes
    /\ Holds(r.u, r.cache)

Inv == TypeOK /\ Holds(user, cached)

-----------------------------------------------------------------------------
(* The items that the invalidation from i reaches contain i and are closed. *)
LEMMA ReachContains ==
    ASSUME NEW cache, NEW i \in Items
    PROVE  i \in Reach(cache, i)
BY DEF Reach

LEMMA ReachCloses ==
    ASSUME NEW cache, NEW i \in Items
    PROVE  Propagates(cache, Reach(cache, i))
<1>1. ASSUME NEW r \in Reach(cache, i), NEW d \in Dependents[r],
             cache[<<d, "vis">>] # Uncached
      PROVE  d \in Reach(cache, i)
  <2>1. d \in Items
    BY <1>1, TreeAssumption DEF Reach
  <2>2. ASSUME NEW R \in SUBSET Items, i \in R, Propagates(cache, R)
        PROVE  d \in R
    <3>1. r \in R
      BY <1>1, <2>2 DEF Reach
    <3> QED BY <3>1, <2>2, <1>1 DEF Propagates
  <2> QED BY <2>1, <2>2 DEF Reach
<1>2. ASSUME Modules \in Reach(cache, i)
      PROVE  Reach(cache, i) = Items
  <2>1. ASSUME NEW j \in Items, NEW R \in SUBSET Items, i \in R, Propagates(cache, R)
        PROVE  j \in R
    <3>1. Modules \in R
      BY <1>2, <2>1 DEF Reach
    <3> QED BY <3>1, <2>1 DEF Propagates
  <2> QED BY <2>1 DEF Reach
<1> QED BY <1>1, <1>2 DEF Propagates

(* Of a value that stays cached nothing that was read for it is reached. *)
LEMMA Stays ==
    ASSUME NEW u \in Users, NEW cache, Holds(u, cache), NEW i \in Items,
           NEW n \in Nodes, Invalidate(cache, i)[n] # Uncached
    PROVE  /\ cache[n] # Uncached
           /\ ItemsOf(Touch(u, n)) \cap Reach(cache, i) = {}
<1> DEFINE reach == Reach(cache, i)
           read == ItemsOf(Touch(u, n))
<1>1. n[1] \notin reach /\ cache[n] # Uncached
  BY DEF Invalidate
<1>2. n[1] \in Items
  BY TreeAssumption
<1>3. Modules \notin reach
  BY <1>1, <1>2, ReachCloses DEF Propagates
<1>4. ASSUME NEW r \in read \cap reach, NEW d \in Dependents[r] \cap read
      PROVE  d \in reach
  <2>1. PICK m \in Touch(u, n) : d = m[1]
    BY <1>4 DEF ItemsOf
  <2>2. m \in Nodes
    BY TouchAssumption DEF Touch
  <2>3. <<d, "vis">> \in Touch(u, n)
    BY <2>1, <2>2, TouchAssumption DEF Touch
  <2>4. cache[<<d, "vis">>] # Uncached
    BY <2>3, <1>1 DEF Holds
  <2> QED BY <2>4, <1>4, ReachCloses DEF Propagates
<1>5. read \cap reach # {} => n[1] \in read \cap reach
  <2>1. \A R \in SUBSET read :
            R # {} /\ Modules \notin R /\ (\A r \in R : Dependents[r] \cap read \subseteq R)
            => n[1] \in R
    BY TrackedAssumption DEF Touch
  <2>2. read \cap reach \in SUBSET read
    OBVIOUS
  <2>3. \A r \in read \cap reach : Dependents[r] \cap read \subseteq read \cap reach
    BY <1>4
  <2>4. Modules \notin read \cap reach
    BY <1>3
  <2> HIDE DEF read, reach
  <2> QED BY <2>1, <2>2, <2>3, <2>4
<1> QED BY <1>1, <1>5

(* Invalidating from an item keeps a cache good when the new user values make
   no difference to what is cached and reads nothing that is reached.        *)
LEMMA InvalidateKeeps ==
    ASSUME NEW u \in Users, NEW w \in Users, NEW cache, Holds(u, cache),
           NEW i \in Items,
           \A n \in Nodes :
              cache[n] # Uncached /\ ItemsOf(Touch(u, n)) \cap Reach(cache, i) = {}
              => Worth(w)[n] = Worth(u)[n]
    PROVE  Good([u |-> w, cache |-> Invalidate(cache, i)])
<1> DEFINE new == Invalidate(cache, i)
<1>1. DOMAIN new = Nodes
  BY DEF Invalidate
<1>2. ASSUME NEW n \in Nodes, new[n] # Uncached
      PROVE  /\ new[n] = Val(w, n)
             /\ \A m \in Touch(w, n) : new[m] # Uncached
  <2>1. /\ cache[n] # Uncached
        /\ ItemsOf(Touch(u, n)) \cap Reach(cache, i) = {}
    BY <1>2, Stays
  <2>2. Worth(w)[n] = Worth(u)[n]
    BY <2>1
  <2>3. new[n] = cache[n]
    BY <1>2 DEF Invalidate
  <2>4. ASSUME NEW m \in Touch(u, n)
        PROVE  new[m] # Uncached
    <3>1. m \in Nodes /\ m[1] \in ItemsOf(Touch(u, n))
      BY TouchAssumption DEF Touch, ItemsOf
    <3>2. m[1] \notin Reach(cache, i)
      BY <3>1, <2>1
    <3>3. cache[m] # Uncached
      BY <2>1 DEF Holds
    <3> QED BY <3>1, <3>2, <3>3 DEF Invalidate
  <2> QED BY <2>1, <2>2, <2>3, <2>4 DEF Holds, Val, Touch
<1> QED BY <1>1, <1>2 DEF Good, Holds

(* Without an invalidation: what the new user values do not change. *)
LEMMA UnchangedKeeps ==
    ASSUME NEW u \in Users, NEW w \in Users, NEW cache, Holds(u, cache),
           DOMAIN cache = Nodes,
           \A n \in Nodes : Worth(w)[n] = Worth(u)[n]
    PROVE  Good([u |-> w, cache |-> cache])
BY DEF Good, Holds, Val, Touch

-----------------------------------------------------------------------------
(* The calls: each takes good user values and cache to good ones *)

(* The user values after a call are user values again. *)
LEMMA UsersClosed ==
    ASSUME NEW u \in Users
    PROVE  /\ \A s \in Symbols : \A v \in Accepts[s] \cup {NoValue} :
                 [u EXCEPT !.val[s] = v] \in Users
           /\ \A c \in ChoiceSet : \A v \in Accepts[c] \cup {NoValue} :
                 [u EXCEPT !.mode[c] = v] \in Users
           /\ \A s \in Symbols : ChoiceOf[s] # NoValue /\ 2 \in Accepts[s] =>
                 [u EXCEPT !.sel[ChoiceOf[s]] = s] \in Users
           /\ \A c \in ChoiceSet : [u EXCEPT !.sel[c] = NoValue] \in Users
<1> DEFINE All == [val : [Symbols -> UserValues], mode : [ChoiceSet -> UserValues],
                   sel : [ChoiceSet -> Symbols \cup {NoValue}]]
<1>1. /\ u \in All
      /\ \A s \in Symbols : u.val[s] \in Accepts[s] \cup {NoValue}
      /\ \A c \in ChoiceSet :
            /\ u.mode[c] \in Accepts[c] \cup {NoValue}
            /\ u.sel[c] # NoValue =>
                  ChoiceOf[u.sel[c]] = c /\ 2 \in Accepts[u.sel[c]]
  BY DEF Users
<1>2. \A i \in Symbols \cup ChoiceSet : \A v \in Accepts[i] \cup {NoValue} :
         v \in UserValues
  <2>1. ASSUME NEW i \in Symbols \cup ChoiceSet, NEW v \in Accepts[i]
        PROVE  v \in UNION {Accepts[j] : j \in Items}
    <3>1. Accepts[i] \in {Accepts[j] : j \in Items}
      BY DEF Items
    <3> QED BY <3>1
  <2>2. ASSUME NEW i \in Symbols \cup ChoiceSet, NEW v \in Accepts[i]
        PROVE  v \in UserValues
    BY <2>1, <2>2 DEF UserValues
  <2>3. NoValue \in UserValues
    BY DEF UserValues
  <2> QED BY <2>2, <2>3
<1>3. ASSUME NEW s \in Symbols, NEW v \in Accepts[s] \cup {NoValue}
      PROVE  [u EXCEPT !.val[s] = v] \in Users
  <2>1. [u EXCEPT !.val[s] = v] \in All
    BY <1>1, <1>2, <1>3
  <2> QED BY <2>1, <1>1, <1>3 DEF Users
<1>4. ASSUME NEW c \in ChoiceSet, NEW v \in Accepts[c] \cup {NoValue}
      PROVE  [u EXCEPT !.mode[c] = v] \in Users
  <2>1. [u EXCEPT !.mode[c] = v] \in All
    BY <1>1, <1>2, <1>4
  <2> QED BY <2>1, <1>1, <1>4 DEF Users
<1>5. ASSUME NEW s \in Symbols, ChoiceOf[s] # NoValue, 2 \in Accepts[s]
      PROVE  [u EXCEPT !.sel[ChoiceOf[s]] = s] \in Users
  <2>1. ChoiceOf[s] \in ChoiceSet
    BY <1>5, TreeAssumption
  <2>2. [u EXCEPT !.sel[ChoiceOf[s]] = s] \in All
    BY <1>1, <2>1
  <2> QED BY <2>1, <2>2, <1>1, <1>5 DEF Users
<1>6. ASSUME NEW c \in ChoiceSet
      PROVE  [u EXCEPT !.sel[c] = NoValue] \in Users
  <2>1. [u EXCEPT !.sel[c] = NoValue] \in All
    BY <1>1
  <2> QED BY <2>1, <1>1 DEF Users
<1> QED BY <1>3, <1>4, <1>5, <1>6

(* The value of a symbol outside choices, or anything but y in one *)
LEMMA ValueCall ==
    ASSUME NEW u \in Users, NEW cache, Good([u |-> u, cache |-> cache]),
           NEW s \in Symbols, NEW v \in Accepts[s] \cup {NoValue}
    PROVE  Good([u |-> [u EXCEPT !.val[s] = v],
                 cache |-> InvalidateIfPrompt(cache, s)])
<1> DEFINE w == [u EXCEPT !.val[s] = v]
<1>1. w \in Users
  BY UsersClosed
<1>2. Holds(u, cache) /\ DOMAIN cache = Nodes
  BY DEF Good
<1>3. Without(u, w, s)
  BY DeterminedAssumption
<1>4. CASE s \in HasPrompt
  <2>1. s \in Items /\ s \in Reach(cache, s)
    BY ReachContains DEF Items
  <2>2. ASSUME NEW n \in Nodes, ItemsOf(Touch(u, n)) \cap Reach(cache, s) = {}
        PROVE  Worth(w)[n] = Worth(u)[n]
    <3>1. s \notin ItemsOf(Touch(u, n))
      BY <2>1, <2>2
    <3> QED BY <3>1, <1>3 DEF Without, Touch
  <2>3. Good([u |-> w, cache |-> Invalidate(cache, s)])
    BY <1>1, <1>2, <2>1, <2>2, InvalidateKeeps
  <2> QED BY <2>3, <1>4 DEF InvalidateIfPrompt
<1>5. CASE s \notin HasPrompt
  <2>1. \A n \in Nodes : Worth(w)[n] = Worth(u)[n]
    BY <1>3, <1>5 DEF Without
  <2>2. Good([u |-> w, cache |-> cache])
    BY <1>1, <1>2, <2>1, UnchangedKeeps
  <2> QED BY <2>2, <1>5 DEF InvalidateIfPrompt
<1> QED BY <1>4, <1>5

(* y for a choice symbol: only the choice is invalidated, which reaches the
   symbol where it matters.                                                 *)
LEMMA SelectCall ==
    ASSUME NEW u \in Users, NEW cache, Good([u |-> u, cache |-> cache]),
           NEW s \in Symbols, ChoiceOf[s] # NoValue, 2 \in Accepts[s]
    PROVE  Good([u |-> [u EXCEPT !.val[s] = 2, !.sel[ChoiceOf[s]] = s],
                 cache |-> Invalidate(cache, ChoiceOf[s])])
<1> DEFINE c == ChoiceOf[s]
           w1 == [u EXCEPT !.val[s] = 2]
           w == [w1 EXCEPT !.sel[c] = s]
           reach == Reach(cache, c)
<1>1. c \in ChoiceSet /\ c \in Items
  BY TreeAssumption DEF Items
<1>2. w1 \in Users
  BY UsersClosed
<1>3. w \in Users
  BY <1>2, UsersClosed
<1>4. Holds(u, cache) /\ DOMAIN cache = Nodes
  BY DEF Good
<1>5. Without(u, w1, s)
  BY DeterminedAssumption
<1>6. Without(w1, w, c)
  BY <1>1, <1>2, <1>3, DeterminedAssumption
<1>7. ASSUME NEW n \in Nodes, cache[n] # Uncached,
             ItemsOf(Touch(u, n)) \cap reach = {}
      PROVE  Worth(w)[n] = Worth(u)[n]
  <2>1. c \notin ItemsOf(Touch(u, n))
    BY <1>1, <1>7, ReachContains
  <2>2. ASSUME s \in HasPrompt, s \in ItemsOf(Touch(u, n))
        PROVE  FALSE
    <3>1. PICK m \in Touch(u, n) : s = m[1]
      BY <2>2 DEF ItemsOf
    <3>2. <<s, "vis">> \in Touch(u, n)
      BY <3>1, TouchAssumption DEF Touch
    <3>3. cache[<<s, "vis">>] # Uncached
      BY <3>2, <1>7, <1>4 DEF Holds
    <3>4. s \in Dependents[c]
      BY <2>2, MemberAssumption
    <3>5. s \in reach
      BY <1>1, <3>3, <3>4, ReachCloses, ReachContains DEF Propagates
    <3> QED BY <3>5, <2>2, <1>7
  <2>3. Worth(w1)[n] = Worth(u)[n]
    BY <2>2, <1>5 DEF Without, Touch
  <2>4. c \notin ItemsOf(Worth(w1)[n].t) /\ c \notin Symbols
    BY <2>1, <2>3, <1>1, TreeAssumption DEF Touch
  <2> QED BY <2>3, <2>4, <1>6 DEF Without
<1>8. Good([u |-> w, cache |-> Invalidate(cache, c)])
  BY <1>1, <1>3, <1>4, <1>7, InvalidateKeeps
<1> QED BY <1>8

LEMMA SetSymbolKeeps ==
    ASSUME NEW u \in Users, NEW cache, Good([u |-> u, cache |-> cache]),
           NEW s \in Symbols, NEW v
    PROVE  Good(SetSymbol(u, cache, s, v))
<1>1. CASE v \notin Accepts[s] \/ (v = u.val[s] /\ ChoiceOf[s] = NoValue)
  BY <1>1 DEF SetSymbol
<1>2. CASE /\ ~ (v \notin Accepts[s] \/ (v = u.val[s] /\ ChoiceOf[s] = NoValue))
           /\ ChoiceOf[s] # NoValue /\ v = 2
  <2>1. Good([u |-> [u EXCEPT !.val[s] = 2, !.sel[ChoiceOf[s]] = s],
              cache |-> Invalidate(cache, ChoiceOf[s])])
    BY <1>2, SelectCall
  <2> QED BY <2>1, <1>2 DEF SetSymbol
<1>3. CASE /\ ~ (v \notin Accepts[s] \/ (v = u.val[s] /\ ChoiceOf[s] = NoValue))
           /\ ~ (ChoiceOf[s] # NoValue /\ v = 2)
  <2>1. Good([u |-> [u EXCEPT !.val[s] = v],
              cache |-> InvalidateIfPrompt(cache, s)])
    BY <1>3, ValueCall
  <2> QED BY <2>1, <1>3 DEF SetSymbol
<1> QED BY <1>1, <1>2, <1>3

LEMMA UnsetSymbolKeeps ==
    ASSUME NEW u \in Users, NEW cache, Good([u |-> u, cache |-> cache]),
           NEW s \in Symbols
    PROVE  Good(UnsetSymbol(u, cache, s))
BY ValueCall DEF UnsetSymbol

(* The mode of a choice, then its selection *)
LEMMA ModeCall ==
    ASSUME NEW u \in Users, NEW cache, Good([u |-> u, cache |-> cache]),
           NEW c \in ChoiceSet, NEW v \in Accepts[c] \cup {NoValue}
    PROVE  /\ Good([u |-> [u EXCEPT !.mode[c] = v], cache |-> Invalidate(cache, c)])
           /\ Good([u |-> [u EXCEPT !.mode[c] = NoValue, !.sel[c] = NoValue],
                    cache |-> Invalidate(cache, c)])
<1> DEFINE reach == Reach(cache, c)
           w1 == [u EXCEPT !.mode[c] = NoValue]
           w2 == [w1 EXCEPT !.sel[c] = NoValue]
<1>1. c \in Items /\ c \in reach /\ c \notin Symbols
  BY ReachContains, TreeAssumption DEF Items
<1>2. Holds(u, cache) /\ DOMAIN cache = Nodes
  BY DEF Good
<1>3. ASSUME NEW x \in Accepts[c] \cup {NoValue}, NEW n \in Nodes,
             ItemsOf(Touch(u, n)) \cap reach = {}
      PROVE  Worth([u EXCEPT !.mode[c] = x])[n] = Worth(u)[n]
  <2>1. Without(u, [u EXCEPT !.mode[c] = x], c)
    BY DeterminedAssumption
  <2> QED BY <2>1, <1>1, <1>3 DEF Without, Touch
<1>4. [u EXCEPT !.mode[c] = v] \in Users /\ w1 \in Users
  BY UsersClosed
<1>5. w2 \in Users
  BY <1>4, UsersClosed
<1>6. Good([u |-> [u EXCEPT !.mode[c] = v], cache |-> Invalidate(cache, c)])
  BY <1>1, <1>2, <1>3, <1>4, InvalidateKeeps
<1>7. ASSUME NEW n \in Nodes, ItemsOf(Touch(u, n)) \cap reach = {}
      PROVE  Worth(w2)[n] = Worth(u)[n]
  <2>1. Without(w1, w2, c)
    BY <1>4, <1>5, DeterminedAssumption
  <2>2. Worth(w1)[n] = Worth(u)[n]
    BY <1>3, <1>7
  <2> QED BY <2>1, <2>2, <1>1, <1>7 DEF Without, Touch
<1>8. Good([u |-> w2, cache |-> Invalidate(cache, c)])
  BY <1>1, <1>2, <1>5, <1>7, InvalidateKeeps
<1> QED BY <1>6, <1>8

LEMMA SetModeKeeps ==
    ASSUME NEW u \in Users, NEW cache, Good([u |-> u, cache |-> cache]),
           NEW c \in ChoiceSet, NEW v
    PROVE  Good(SetMode(u, cache, c, v))
BY ModeCall DEF SetMode

LEMMA UnsetChoiceKeeps ==
    ASSUME NEW u \in Users, NEW cache, Good([u |-> u, cache |-> cache]),
           NEW c \in ChoiceSet
    PROVE  Good(UnsetChoice(u, cache, c))
BY ModeCall DEF UnsetChoice

LEMMA AssignKeeps ==
    ASSUME NEW u \in Users, NEW cache, Good([u |-> u, cache |-> cache]),
           NEW s \in Symbols, NEW v
    PROVE  Good(Assign(u, cache, s, v))
<1>1. CASE v \notin Accepts[s]
  BY <1>1 DEF Assign
<1>2. CASE v \in Accepts[s] /\ ChoiceOf[s] # NoValue /\ v # 0
  <2> DEFINE r == SetMode(u, cache, ChoiceOf[s], v)
  <2>1. ChoiceOf[s] \in ChoiceSet
    BY <1>2, TreeAssumption
  <2>2. Good(r)
    BY <2>1, SetModeKeeps
  <2>3. r = [u |-> r.u, cache |-> r.cache]
    BY DEF SetMode
  <2>4. r.u \in Users
    BY <2>2 DEF Good
  <2>5. Good(SetSymbol(r.u, r.cache, s, v))
    <3> HIDE DEF r
    <3> QED BY <2>2, <2>3, <2>4, SetSymbolKeeps
  <2> QED BY <2>5, <1>2 DEF Assign
<1>3. CASE v \in Accepts[s] /\ ~ (ChoiceOf[s] # NoValue /\ v # 0)
  BY <1>3, SetSymbolKeeps DEF Assign
<1> QED BY <1>1, <1>2, <1>3

-----------------------------------------------------------------------------
(* The invariant is inductive: one lemma per action *)

LEMMA InitInv == Init => Inv
<1> SUFFICES ASSUME Init PROVE Inv
  OBVIOUS
<1>1. Blank \in Users
  <2>1. NoValue \in UserValues
    BY DEF UserValues
  <2>2. Blank \in [val : [Symbols -> UserValues], mode : [ChoiceSet -> UserValues],
                   sel : [ChoiceSet -> Symbols \cup {NoValue}]]
    BY <2>1 DEF Blank
  <2>3. /\ \A s \in Symbols : Blank.val[s] = NoValue
        /\ \A c \in ChoiceSet : Blank.mode[c] = NoValue /\ Blank.sel[c] = NoValue
    BY DEF Blank
  <2> QED BY <2>2, <2>3 DEF Users
<1>2. MaxOps \in Nat
  BY TreeAssumption
<1>3. DOMAIN cached = Nodes /\ Holds(user, cached)
  BY DEF Init, Holds
<1>4. <<>> \in Seq(Symbols \X (UserValues \ {NoValue}))
  OBVIOUS
<1>5. TypeOK
  <2>1. user = Blank /\ pc = "idle" /\ file = <<>> /\ todo = <<>>
        /\ replace = FALSE /\ was_set = {} /\ ops = 0
    BY DEF Init
  <2>2. {file, todo} \subseteq Seq(Symbols \X (UserValues \ {NoValue}))
    BY <1>4, <2>1
  <2>3. was_set \subseteq Items /\ ops \in 0 .. MaxOps
    BY <1>2, <2>1
  <2>4. replace \in BOOLEAN
    BY <2>1, Zenon
  <2>5. user \in Users /\ pc \in {"idle", "load", "unset", "loaded"}
    BY <1>1, <2>1
  <2> QED BY <1>3, <2>2, <2>3, <2>4, <2>5 DEF TypeOK
<1> QED BY <1>3, <1>5 DEF Inv

(* A call that is good leaves user values and cache as the invariant asks. *)
LEMMA BecomeInv ==
    ASSUME Inv, NEW r, Good(r), Become(r)
    PROVE  user' \in Users /\ DOMAIN cached' = Nodes /\ Holds(user, cached)'
BY DEF Become, Good, Holds, Val, Touch

LEMMA GetInv ==
    ASSUME Inv, NEW n \in Asked, Get(n)
    PROVE  Inv'
<1>1. user' = user /\ user \in Users /\ Holds(user, cached)
  BY DEF Get, Inv, TypeOK
<1>2. cached' = [m \in Nodes |->
          IF m \in Touch(user, n) /\ cached[m] = Uncached THEN Val(user, m)
          ELSE cached[m]]
  BY DEF Get
<1>3. n \in Nodes
  BY TreeAssumption
<1>4. ASSUME NEW m \in Nodes, cached'[m] # Uncached
      PROVE  /\ cached'[m] = Val(user, m)
             /\ \A k \in Touch(user, m) : cached'[k] # Uncached
  <2>1. CASE m \in Touch(user, n) /\ cached[m] = Uncached
    <3>1. Touch(user, m) \subseteq Touch(user, n) /\ Touch(user, n) \subseteq Nodes
      BY <1>1, <1>3, <2>1, TouchAssumption DEF Touch
    <3>2. \A k \in Nodes : Val(user, k) # Uncached
      BY <1>1, TouchAssumption DEF Val
    <3> QED BY <1>2, <2>1, <3>1, <3>2
  <2>2. CASE cached[m] # Uncached
    <3>1. cached[m] = Val(user, m) /\ \A k \in Touch(user, m) : cached[k] # Uncached
      BY <1>1, <2>2 DEF Holds
    <3>2. Touch(user, m) \subseteq Nodes
      BY <1>1, TouchAssumption DEF Touch
    <3> QED BY <1>2, <2>2, <3>1, <3>2
  <2>3. CASE m \notin Touch(user, n) /\ cached[m] = Uncached
    BY <1>2, <1>4, <2>3
  <2> QED BY <2>1, <2>2, <2>3
<1>5. Holds(user, cached)'
  BY <1>1, <1>4 DEF Holds, Val, Touch
<1> QED BY <1>2, <1>5 DEF Get, Inv, TypeOK, loading

(* The four calls that change user values *)
LEMMA CallInv ==
    ASSUME Inv, NEW r, Good(r), Call(r), UNCHANGED loading
    PROVE  Inv'
<1>1. user' \in Users /\ DOMAIN cached' = Nodes /\ Holds(user, cached)'
  BY BecomeInv DEF Call
<1>2. ops' \in 0 .. MaxOps
  BY TreeAssumption DEF Call, Inv, TypeOK
<1> QED BY <1>1, <1>2 DEF Inv, TypeOK, loading

LEMMA GoodNow ==
    ASSUME Inv
    PROVE  user \in Users /\ Good([u |-> user, cache |-> cached])
BY DEF Inv, TypeOK, Good

LEMMA SymbolCallInv ==
    ASSUME Inv, NEW s \in Symbols, NEW v, SetValue(s, v) \/ UnsetValue(s)
    PROVE  Inv'
<1>1. Good(SetSymbol(user, cached, s, v)) /\ Good(UnsetSymbol(user, cached, s))
  BY GoodNow, SetSymbolKeeps, UnsetSymbolKeeps
<1> QED BY <1>1, CallInv DEF SetValue, UnsetValue

LEMMA ChoiceCallInv ==
    ASSUME Inv, NEW c \in ChoiceSet, NEW v, SetChoiceValue(c, v) \/ UnsetChoiceValue(c)
    PROVE  Inv'
<1>1. Good(SetMode(user, cached, c, v)) /\ Good(UnsetChoice(user, cached, c))
  BY GoodNow, SetModeKeeps, UnsetChoiceKeeps
<1> QED BY <1>1, CallInv DEF SetChoiceValue, UnsetChoiceValue

LEMMA LoadConfigInv ==
    ASSUME Inv, NEW f \in Files, NEW rep \in BOOLEAN, LoadConfig(f, rep)
    PROVE  Inv'
<1>1. f \in Seq(Symbols \X (UserValues \ {NoValue}))
  BY TreeAssumption
<1>2. ops' \in 0 .. MaxOps
  BY TreeAssumption DEF LoadConfig, Inv, TypeOK
<1> QED BY <1>1, <1>2 DEF LoadConfig, Inv, TypeOK, Holds, Val, Touch

LEMMA LoadLineInv ==
    ASSUME Inv, LoadLine
    PROVE  Inv'
<1> DEFINE Lines == Symbols \X (UserValues \ {NoValue})
           s == Head(todo)[1]
           v == Head(todo)[2]
<1>1. todo \in Seq(Lines) /\ todo # <<>>
  BY DEF LoadLine, Inv, TypeOK
<1>2. Head(todo) \in Lines /\ Tail(todo) \in Seq(Lines)
  BY <1>1
<1>3. s \in Symbols
  BY <1>2
<1>4. Good(Assign(user, cached, s, v))
  BY <1>3, GoodNow, AssignKeeps
<1>5. user' \in Users /\ DOMAIN cached' = Nodes /\ Holds(user, cached)'
  BY <1>4, BecomeInv DEF LoadLine
<1>6. SetBy(s, v) \subseteq Items
  BY <1>3, TreeAssumption DEF SetBy, Items
<1> QED BY <1>2, <1>5, <1>6 DEF LoadLine, Inv, TypeOK

LEMMA UnsetRestInv ==
    ASSUME Inv, UnsetRest
    PROVE  Inv'
<1>1. CASE \E s \in UnsetSymbols : Become(UnsetSymbol(user, cached, s)) /\ UNCHANGED pc
  <2>1. PICK s \in UnsetSymbols : Become(UnsetSymbol(user, cached, s)) /\ UNCHANGED pc
    BY <1>1
  <2>2. Good(UnsetSymbol(user, cached, s))
    BY GoodNow, UnsetSymbolKeeps DEF UnsetSymbols
  <2> QED BY <2>1, <2>2, BecomeInv DEF UnsetRest, Inv, TypeOK
<1>2. CASE \E c \in UnsetChoices : Become(UnsetChoice(user, cached, c)) /\ UNCHANGED pc
  <2>1. PICK c \in UnsetChoices : Become(UnsetChoice(user, cached, c)) /\ UNCHANGED pc
    BY <1>2
  <2>2. Good(UnsetChoice(user, cached, c))
    BY GoodNow, UnsetChoiceKeeps DEF UnsetChoices
  <2> QED BY <2>1, <2>2, BecomeInv DEF UnsetRest, Inv, TypeOK
<1>3. CASE pc' = "loaded" /\ UNCHANGED <<user, cached>>
  BY <1>3 DEF UnsetRest, Inv, TypeOK, Holds, Val, Touch
<1> QED BY <1>1, <1>2, <1>3 DEF UnsetRest

(* What neither calls nor reads anything *)
LEMMA QuietInv ==
    ASSUME Inv, LoadEnd \/ Return \/ UNCHANGED vars
    PROVE  Inv'
<1>1. <<>> \in Seq(Symbols \X (UserValues \ {NoValue}))
  OBVIOUS
<1>2. CASE LoadEnd
  BY <1>2 DEF LoadEnd, Inv, TypeOK, Holds, Val, Touch
<1>3. CASE Return
  BY <1>1, <1>3 DEF Return, Inv, TypeOK, Holds, Val, Touch
<1>4. CASE UNCHANGED vars
  BY <1>4 DEF vars, Inv, TypeOK, Holds, Val, Touch
<1> QED BY <1>2, <1>3, <1>4

LEMMA Inductive == Spec => []Inv
<1>1. Inv /\ [Next]_vars => Inv'
  BY GetInv, SymbolCallInv, ChoiceCallInv, LoadConfigInv, LoadLineInv, UnsetRestInv,
     QuietInv DEF Next
<1> QED BY <1>1, InitInv, PTL DEF Spec

-----------------------------------------------------------------------------
(* The user values stay ones that set_value accepts, a selection stays a
   member of its choice, and a load stays within its file, whatever the order
   of calls.                                                                *)
THEOREM TypeCorrect == Spec => []TypeOK
<1>1. Inv => TypeOK
  BY DEF Inv
<1> QED BY <1>1, Inductive, PTL

(* No call leaves a stale value in a cache: set_value, unset_value and each
   line of load_config invalidate enough, for every tree that is tracked as
   _build_dep tracks it.                                                    *)
THEOREM CacheCoherent == Spec => []Coherent
<1>1. Inv => Coherent
  BY DEF Inv, Holds, Coherent
<1> QED BY <1>1, Inductive, PTL

(* The comment in Symbol._rec_invalidate holds: where the visibility of an
   item is not cached, nothing that depends on the item is.                *)
THEOREM FlagIsSound == Spec => []FlagSound
<1>1. ASSUME Inv PROVE FlagSound
  <2>1. ASSUME NEW n \in Nodes, cached[n] # Uncached, NEW m \in Touch(user, n)
        PROVE  cached[<<m[1], "vis">>] # Uncached
    <3>1. user \in Users /\ Holds(user, cached)
      BY <1>1 DEF Inv, TypeOK
    <3>2. m \in Nodes /\ Touch(user, m) \subseteq Touch(user, n)
      BY <2>1, <3>1, TouchAssumption DEF Touch
    <3>3. <<m[1], "vis">> \in Touch(user, m)
      BY <3>1, <3>2, TouchAssumption DEF Touch
    <3> QED BY <2>1, <3>1, <3>2, <3>3 DEF Holds
  <2> QED BY <2>1 DEF FlagSound
<1> QED BY <1>1, Inductive, PTL
-----------------------------------------------------------------------------
(* A replacing load.  Beside the user values that the program has, those that
   the same lines would have given a new Kconfig: after each line the two
   agree where _was_set is, and the new Kconfig has nothing elsewhere.       *)

(* What is known of two user values of which the second started from nothing
   and W is what was set since: a selection can differ only where no line
   selected anything in a choice that a line of m set.                       *)
Agree(u, w, W) ==
    /\ \A s \in Symbols : IF s \in W THEN u.val[s] = w.val[s] ELSE w.val[s] = NoValue
    /\ \A c \in ChoiceSet :
          IF c \in W
          THEN /\ u.mode[c] = w.mode[c]
               /\ u.sel[c] = w.sel[c] \/ (w.sel[c] = NoValue /\ w.mode[c] = 1)
          ELSE w.mode[c] = NoValue /\ w.sel[c] = NoValue

(* What a line that is accepted makes of user values: w of u *)
Set(u, w, s, v) ==
    LET c == ChoiceOf[s]
    IN /\ w.val = [u.val EXCEPT ![s] = v]
       /\ w.mode = IF c # NoValue /\ v # 0 /\ v \in Accepts[c]
                   THEN [u.mode EXCEPT ![c] = v] ELSE u.mode
       /\ w.sel = IF c # NoValue /\ v = 2 THEN [u.sel EXCEPT ![c] = s] ELSE u.sel

(* It does the same whatever is cached. *)
LEMMA AssignDoes ==
    ASSUME NEW u \in Users, NEW cache, NEW s \in Symbols, NEW v \in Accepts[s]
    PROVE  Set(u, Assign(u, cache, s, v).u, s, v)
<1> DEFINE c == ChoiceOf[s]
           r == SetMode(u, cache, c, v)
<1>1. /\ u.val \in [Symbols -> UserValues] /\ u.mode \in [ChoiceSet -> UserValues]
      /\ u = [val |-> u.val, mode |-> u.mode, sel |-> u.sel]
  BY DEF Users
<1>2. ASSUME NEW x, x.val = u.val,
             x = [val |-> x.val, mode |-> x.mode, sel |-> x.sel], NEW C
      PROVE  LET w == SetSymbol(x, C, s, v).u
             IN /\ w.val = [u.val EXCEPT ![s] = v] /\ w.mode = x.mode
                /\ w.sel = IF c # NoValue /\ v = 2 THEN [x.sel EXCEPT ![c] = s] ELSE x.sel
  <2>1. CASE v = x.val[s] /\ c = NoValue
    BY <1>1, <1>2, <2>1 DEF SetSymbol
  <2>2. CASE c # NoValue /\ v = 2
    <3>1. SetSymbol(x, C, s, v).u = [x EXCEPT !.val[s] = v, !.sel[c] = s]
      BY <2>2 DEF SetSymbol
    <3> QED BY <1>2, <2>2, <3>1
  <2>3. CASE ~ (v = x.val[s] /\ c = NoValue) /\ ~ (c # NoValue /\ v = 2)
    <3>1. SetSymbol(x, C, s, v).u = [x EXCEPT !.val[s] = v]
      BY <2>3 DEF SetSymbol
    <3> QED BY <1>2, <2>3, <3>1
  <2> QED BY <2>1, <2>2, <2>3
<1>3. CASE c # NoValue /\ v # 0
  <2>1. c \in ChoiceSet
    BY <1>3, TreeAssumption
  <2>2. /\ r.u.val = u.val /\ r.u.sel = u.sel
        /\ r.u = [val |-> r.u.val, mode |-> r.u.mode, sel |-> r.u.sel]
        /\ r.u.mode = IF v \in Accepts[c] THEN [u.mode EXCEPT ![c] = v] ELSE u.mode
    <3>1. CASE v \notin Accepts[c] \/ v = u.mode[c]
      BY <1>1, <2>1, <3>1 DEF SetMode
    <3>2. CASE ~ (v \notin Accepts[c] \/ v = u.mode[c])
      <4>1. r.u = [u EXCEPT !.mode[c] = v]
        BY <3>2 DEF SetMode
      <4> QED BY <1>1, <3>2, <4>1
    <3> QED BY <3>1, <3>2
  <2>3. Assign(u, cache, s, v) = SetSymbol(r.u, r.cache, s, v)
    BY <1>3 DEF Assign
  <2> HIDE DEF r
  <2> QED BY <1>2, <1>3, <2>2, <2>3 DEF Set
<1>4. CASE ~ (c # NoValue /\ v # 0)
  <2>1. Assign(u, cache, s, v) = SetSymbol(u, cache, s, v)
    BY <1>4 DEF Assign
  <2> QED BY <1>1, <1>2, <1>4, <2>1 DEF Set
<1> QED BY <1>3, <1>4

(* A line keeps the agreement, and what it sets is in _was_set. *)
LEMMA AssignAgrees ==
    ASSUME NEW u \in Users, NEW C, NEW w \in Users, NEW D, NEW W, Agree(u, w, W),
           NEW s \in Symbols, NEW v
    PROVE  Agree(Assign(u, C, s, v).u, Assign(w, D, s, v).u, W \cup SetBy(s, v))
<1>1. CASE v \notin Accepts[s]
  BY <1>1 DEF Assign, SetBy
<1>2. CASE v \in Accepts[s]
  <2> DEFINE u2 == Assign(u, C, s, v).u
             w2 == Assign(w, D, s, v).u
             c == ChoiceOf[s]
             now == W \cup SetBy(s, v)
  <2>1. /\ u2.val = [u.val EXCEPT ![s] = v] /\ w2.val = [w.val EXCEPT ![s] = v]
        /\ u2.mode = IF c # NoValue /\ v # 0 /\ v \in Accepts[c]
                     THEN [u.mode EXCEPT ![c] = v] ELSE u.mode
        /\ w2.mode = IF c # NoValue /\ v # 0 /\ v \in Accepts[c]
                     THEN [w.mode EXCEPT ![c] = v] ELSE w.mode
        /\ u2.sel = IF c # NoValue /\ v = 2 THEN [u.sel EXCEPT ![c] = s] ELSE u.sel
        /\ w2.sel = IF c # NoValue /\ v = 2 THEN [w.sel EXCEPT ![c] = s] ELSE w.sel
    <3>1. Set(u, u2, s, v) /\ Set(w, w2, s, v)
      BY <1>2, AssignDoes
    <3> HIDE DEF u2, w2
    <3> QED BY <3>1 DEF Set
  <2>2. /\ {u.val, w.val} \subseteq [Symbols -> UserValues]
        /\ {u.mode, w.mode} \subseteq [ChoiceSet -> UserValues]
        /\ {u.sel, w.sel} \subseteq [ChoiceSet -> Symbols \cup {NoValue}]
    BY DEF Users
  <2>3. SetBy(s, v) = IF c = NoValue \/ v = 0 THEN {s}
                      ELSE {s} \cup (IF v = 2 \/ v \in Accepts[c] THEN {c} ELSE {})
    BY <1>2 DEF SetBy
  <2>4. /\ Symbols \cap ChoiceSet = {} /\ NoValue \notin ChoiceSet
        /\ c # NoValue => /\ c \in ChoiceSet /\ v \in 0 .. 2
                          /\ v = 2 => v \in Accepts[c]
    BY <1>2, TreeAssumption, ModesAssumption DEF Items
  <2> HIDE DEF u2, w2, c
  <2>5. ASSUME NEW t \in Symbols
        PROVE  IF t \in now THEN u2.val[t] = w2.val[t] ELSE w2.val[t] = NoValue
    <3>1. t \in SetBy(s, v) <=> t = s
      BY <2>3, <2>4
    <3>2. IF t \in W THEN u.val[t] = w.val[t] ELSE w.val[t] = NoValue
      BY DEF Agree
    <3> QED BY <2>1, <2>2, <3>1, <3>2
  <2>6. ASSUME NEW d \in ChoiceSet
        PROVE  IF d \in now
               THEN /\ u2.mode[d] = w2.mode[d]
                    /\ u2.sel[d] = w2.sel[d] \/ (w2.sel[d] = NoValue /\ w2.mode[d] = 1)
               ELSE w2.mode[d] = NoValue /\ w2.sel[d] = NoValue
    <3>1. IF d \in W
          THEN /\ u.mode[d] = w.mode[d]
               /\ u.sel[d] = w.sel[d] \/ (w.sel[d] = NoValue /\ w.mode[d] = 1)
          ELSE w.mode[d] = NoValue /\ w.sel[d] = NoValue
      BY DEF Agree
    <3>2. CASE d = c /\ v # 0 /\ v \in Accepts[c]
      <4>1. d \in now /\ c # NoValue /\ v \in {1, 2}
        BY <2>3, <2>4, <3>2
      <4>2. u2.mode[d] = v /\ w2.mode[d] = v
        BY <2>1, <2>2, <3>2, <4>1
      <4>3. CASE v = 2
        BY <2>1, <2>2, <3>2, <4>1, <4>2, <4>3
      <4>4. CASE v = 1
        BY <2>1, <3>1, <4>1, <4>2, <4>4
      <4> QED BY <4>1, <4>3, <4>4
    <3>3. CASE ~ (d = c /\ v # 0 /\ v \in Accepts[c])
      <4>1. d \in SetBy(s, v) => FALSE
        BY <2>3, <2>4, <3>3
      <4>2. /\ u2.mode[d] = u.mode[d] /\ w2.mode[d] = w.mode[d]
            /\ u2.sel[d] = u.sel[d] /\ w2.sel[d] = w.sel[d]
        BY <2>1, <2>2, <2>4, <3>3
      <4> QED BY <3>1, <4>1, <4>2
    <3> QED BY <3>2, <3>3
  <2> QED BY <2>5, <2>6 DEF Agree, u2, w2
<1> QED BY <1>1, <1>2

(* The user values and the cache after each line of a file in a new Kconfig *)
New == [u |-> Blank, cache |-> [n \in Nodes |-> Uncached]]
Lines(g, f, n) ==
    g = [k \in 0 .. n |->
          IF k = 0 THEN New ELSE Assign(g[k - 1].u, g[k - 1].cache, f[k][1], f[k][2])]

(* There are such values for a file of any length. *)
LEMMA LinesExist ==
    ASSUME NEW f, NEW n \in Nat
    PROVE  \E g : Lines(g, f, n)
<1> DEFINE Bad == {m \in Nat : ~ \E g : Lines(g, f, m)}
           Line(r, k) == Assign(r.u, r.cache, f[k][1], f[k][2])
<1>1. ASSUME Bad # {} PROVE FALSE
  <2>0. Bad \in SUBSET Nat
    OBVIOUS
  <2>1. PICK m \in Bad : \A k \in Bad : m <= k
    <3> HIDE DEF Bad
    <3> QED BY <1>1, <2>0, Least
  <2>2. m # 0
    <3>1. Lines([k \in 0 .. 0 |-> New], f, 0)
      BY DEF Lines
    <3> QED BY <3>1
  <2>3. m - 1 \in Nat /\ m - 1 \notin Bad
    BY <2>1, <2>2
  <2>4. PICK g : Lines(g, f, m - 1)
    BY <2>3
  <2> DEFINE h == [k \in 0 .. m |-> IF k = m THEN Line(g[m - 1], m) ELSE g[k]]
  <2>5. Lines(h, f, m)
    <3>1. ASSUME NEW k \in 0 .. m
          PROVE  h[k] = IF k = 0 THEN New ELSE Line(h[k - 1], k)
      <4>1. CASE k = m
        <5>1. h[k] = Line(g[m - 1], m) /\ h[k - 1] = g[m - 1]
          BY <4>1, <2>2, <2>3
        <5> QED BY <5>1, <4>1, <2>2
      <4>2. CASE k # m
        <5>1. k \in 0 .. m - 1 /\ h[k] = g[k]
          BY <4>2, <2>3
        <5>2. g[k] = IF k = 0 THEN New ELSE Line(g[k - 1], k)
          BY <5>1, <2>4 DEF Lines
        <5>3. k # 0 => k - 1 \in 0 .. m /\ k - 1 # m /\ h[k - 1] = g[k - 1]
          BY <5>1, <2>3
        <5> HIDE DEF Line
        <5> QED BY <5>1, <5>2, <5>3
      <4> QED BY <4>1, <4>2
    <3> QED BY <3>1 DEF Lines
  <2> QED BY <2>1, <2>5
<1> QED BY <1>1

(* The values after each line of f, and what f must be for them *)
After(f) == CHOOSE g : Lines(g, f, Len(f))
File(f) == f \in Seq(Symbols \X (UserValues \ {NoValue}))

(* Fresh is what they are after the last line. *)
LEMMA AfterIs ==
    ASSUME NEW f, File(f)
    PROVE  /\ Fresh(f) = After(f)[Len(f)].u
           /\ After(f)[0] = New
           /\ \A k \in 1 .. Len(f) :
                 After(f)[k] = Assign(After(f)[k - 1].u, After(f)[k - 1].cache,
                                      f[k][1], f[k][2])
<1>1. Len(f) \in Nat
  BY DEF File
<1>2. Lines(After(f), f, Len(f))
  BY <1>1, LinesExist DEF After
<1>3. Fresh(f) = After(f)[Len(f)].u
  BY DEF Fresh, After, Lines, New
<1>4. After(f) = [k \in 0 .. Len(f) |->
          IF k = 0 THEN New
          ELSE Assign(After(f)[k - 1].u, After(f)[k - 1].cache, f[k][1], f[k][2])]
  BY <1>2 DEF Lines
<1> HIDE DEF After
<1> QED BY <1>1, <1>3, <1>4

LEMMA NewIsGood == Good(New) /\ New = [u |-> New.u, cache |-> New.cache]
<1>1. Blank \in Users
  <2>1. Blank \in [val : [Symbols -> UserValues], mode : [ChoiceSet -> UserValues],
                   sel : [ChoiceSet -> Symbols \cup {NoValue}]]
    BY DEF Blank, UserValues
  <2>2. /\ \A s \in Symbols : Blank.val[s] = NoValue
        /\ \A c \in ChoiceSet : Blank.mode[c] = NoValue /\ Blank.sel[c] = NoValue
    BY DEF Blank
  <2> QED BY <2>1, <2>2 DEF Users
<1> QED BY <1>1 DEF Good, New, Holds

LEMMA AssignIsPair ==
    ASSUME NEW u, NEW cache, NEW s, NEW v
    PROVE  LET r == Assign(u, cache, s, v) IN r = [u |-> r.u, cache |-> r.cache]
<1>1. ASSUME NEW x, NEW C
      PROVE  LET r == SetSymbol(x, C, s, v) IN r = [u |-> r.u, cache |-> r.cache]
  BY DEF SetSymbol
<1> QED BY <1>1 DEF Assign

(* Every line leaves user values. *)
LEMMA AfterIsGood ==
    ASSUME NEW f, File(f), NEW n \in 0 .. Len(f)
    PROVE  After(f)[n].u \in Users
<1> DEFINE g == After(f)
           Fine(r) == Good(r) /\ r = [u |-> r.u, cache |-> r.cache]
           Bad == {m \in 0 .. Len(f) : ~ Fine(g[m])}
<1>1. ASSUME Bad # {} PROVE FALSE
  <2>0. Bad \in SUBSET Nat
    OBVIOUS
  <2>1. PICK m \in Bad : \A k \in Bad : m <= k
    <3> HIDE DEF Bad
    <3> QED BY <1>1, <2>0, Least
  <2>2. m # 0
    BY <2>1, AfterIs, NewIsGood
  <2>3. m \in 1 .. Len(f) /\ m - 1 \in 0 .. Len(f) /\ m - 1 \notin Bad
    BY <2>1, <2>2 DEF File
  <2>4. Fine(g[m - 1])
    BY <2>3
  <2>5. f[m][1] \in Symbols
    BY <2>3 DEF File
  <2>6. g[m - 1].u \in Users
    BY <2>4 DEF Good
  <2>7. g[m] = Assign(g[m - 1].u, g[m - 1].cache, f[m][1], f[m][2])
    BY <2>3, AfterIs
  <2> HIDE DEF g
  <2>8. Good(g[m])
    BY <2>4, <2>5, <2>6, <2>7, AssignKeeps
  <2>9. g[m] = [u |-> g[m].u, cache |-> g[m].cache]
    BY <2>7, AssignIsPair
  <2> QED BY <2>1, <2>8, <2>9
<1>2. Fine(g[n])
  BY <1>1
<1> QED BY <1>2 DEF Good

(* The lines behind the first k of the file *)
Rest(k) ==
    /\ k \in 0 .. Len(file)
    /\ Len(todo) = Len(file) - k
    /\ \A j \in 1 .. Len(todo) : todo[j] = file[k + j]

(* How far a load is: its lines so far agree with those in a new Kconfig. *)
LoadInv ==
    /\ pc = "idle" => was_set = {}
    /\ pc = "load" =>
          \E k \in 0 .. Len(file) :
              Rest(k) /\ Agree(user, After(file)[k].u, was_set)
    /\ pc = "unset" => Agree(user, Fresh(file), was_set)
    /\ pc = "loaded" /\ replace =>
          /\ Agree(user, Fresh(file), was_set)
          /\ UnsetSymbols = {} /\ UnsetChoices = {}

(* Each step of a load keeps what is known of it. *)
LEMMA LoadStart ==
    ASSUME Inv, LoadInv, NEW f \in Files, NEW rep \in BOOLEAN, LoadConfig(f, rep)
    PROVE  LoadInv'
<1>1. File(f) /\ Len(f) \in Nat
  BY TreeAssumption DEF File
<1>2. file' = f /\ todo' = f /\ pc' = "load" /\ was_set' = {} /\ user' = user
  BY DEF LoadConfig, LoadInv
<1>3. Agree(user, After(f)[0].u, {})
  <2>1. After(f)[0].u = Blank
    BY <1>1, AfterIs DEF New
  <2> QED BY <2>1 DEF Agree, Blank
<1>4. Rest(0)'
  BY <1>1, <1>2 DEF Rest
<1>5. Agree(user', After(file')[0].u, was_set')
  BY <1>2, <1>3
<1>6. 0 \in 0 .. Len(file')
  BY <1>1, <1>2
<1> HIDE DEF Rest
<1> QED BY <1>2, <1>4, <1>5, <1>6 DEF LoadInv

LEMMA LoadGoesOn ==
    ASSUME Inv, LoadInv, LoadLine
    PROVE  LoadInv'
<1> DEFINE L == Symbols \X (UserValues \ {NoValue})
           s == Head(todo)[1]
           v == Head(todo)[2]
<1>1. File(file) /\ todo \in Seq(L) /\ todo # <<>> /\ user \in Users /\ pc = "load"
  BY DEF LoadLine, Inv, TypeOK, File
<1>2. PICK k \in 0 .. Len(file) : Rest(k) /\ Agree(user, After(file)[k].u, was_set)
  BY <1>1 DEF LoadInv
<1>3. /\ Len(todo) \in Nat /\ Len(todo) > 0 /\ Len(file) \in Nat
      /\ Head(todo) = todo[1] /\ Head(todo) \in L
  BY <1>1 DEF File
<1>4. k + 1 \in 1 .. Len(file) /\ Head(todo) = file[k + 1]
  BY <1>2, <1>3 DEF Rest
<1>5. s \in Symbols
  BY <1>3
<1>6. After(file)[k].u \in Users
  BY <1>1, AfterIsGood
<1>7. After(file)[k + 1] = Assign(After(file)[k].u, After(file)[k].cache, s, v)
  BY <1>1, <1>4, AfterIs
<1>8. /\ user' = Assign(user, cached, s, v).u /\ was_set' = was_set \cup SetBy(s, v)
      /\ todo' = Tail(todo) /\ file' = file /\ pc' = "load"
  BY <1>1 DEF LoadLine, Become
<1>9. Agree(user', After(file')[k + 1].u, was_set')
  BY <1>1, <1>2, <1>5, <1>6, <1>7, <1>8, AssignAgrees
<1>10. Rest(k + 1)'
  <2>1. Len(Tail(todo)) = Len(todo) - 1
        /\ \A j \in 1 .. Len(Tail(todo)) : Tail(todo)[j] = todo[j + 1]
    BY <1>1, <1>3
  <2>2. Len(Tail(todo)) = Len(file) - (k + 1)
    BY <2>1, <1>2, <1>3 DEF Rest
  <2>3. ASSUME NEW j \in 1 .. Len(Tail(todo))
        PROVE  Tail(todo)[j] = file[(k + 1) + j]
    <3>1. j + 1 \in 1 .. Len(todo)
      BY <2>1, <1>3
    <3>2. k + (j + 1) = (k + 1) + j
      BY <2>1, <1>3
    <3> QED BY <2>1, <2>3, <3>1, <3>2, <1>2 DEF Rest
  <2>4. k + 1 \in 0 .. Len(file)
    BY <1>4
  <2> HIDE DEF s, v
  <2> QED BY <2>2, <2>3, <2>4, <1>8 DEF Rest
<1>11. k + 1 \in 0 .. Len(file')
  BY <1>4, <1>8
<1> HIDE DEF Rest
<1> QED BY <1>8, <1>9, <1>10, <1>11 DEF LoadInv

LEMMA LoadReads ==
    ASSUME Inv, LoadInv, LoadEnd
    PROVE  LoadInv'
<1>1. File(file) /\ Len(file) \in Nat /\ pc = "load" /\ todo = <<>>
  BY DEF LoadEnd, Inv, TypeOK, File
<1>2. PICK k \in 0 .. Len(file) : Rest(k) /\ Agree(user, After(file)[k].u, was_set)
  BY <1>1 DEF LoadInv
<1>3. k = Len(file)
  BY <1>1, <1>2 DEF Rest
<1>4. Agree(user, Fresh(file), was_set)
  BY <1>1, <1>2, <1>3, AfterIs
<1>5. pc' \in {"unset", "loaded"} /\ (pc' = "loaded" => ~ replace')
      /\ user' = user /\ file' = file /\ was_set' = was_set
  BY DEF LoadEnd
<1> QED BY <1>4, <1>5 DEF LoadInv

LEMMA LoadUnsets ==
    ASSUME Inv, LoadInv, UnsetRest
    PROVE  LoadInv'
<1>1. Agree(user, Fresh(file), was_set) /\ pc = "unset" /\ user \in Users
      /\ file' = file /\ was_set' = was_set
  BY DEF UnsetRest, LoadInv, Inv, TypeOK
<1>2. ASSUME NEW s \in UnsetSymbols, Become(UnsetSymbol(user, cached, s)), pc' = pc
      PROVE  LoadInv'
  <2>1. s \in Symbols /\ s \notin was_set /\ user' = [user EXCEPT !.val[s] = NoValue]
    BY <1>2 DEF UnsetSymbols, Become, UnsetSymbol
  <2>2. user'.mode = user.mode /\ user'.sel = user.sel
        /\ \A t \in Symbols \ {s} : user'.val[t] = user.val[t]
    BY <2>1, <1>1 DEF Users
  <2>3. Agree(user', Fresh(file), was_set)
    BY <1>1, <2>1, <2>2 DEF Agree
  <2> QED BY <1>1, <1>2, <2>3 DEF LoadInv
<1>3. ASSUME NEW c \in UnsetChoices, Become(UnsetChoice(user, cached, c)), pc' = pc
      PROVE  LoadInv'
  <2>1. c \in ChoiceSet /\ c \notin was_set
        /\ user' = [user EXCEPT !.mode[c] = NoValue, !.sel[c] = NoValue]
    BY <1>3 DEF UnsetChoices, Become, UnsetChoice
  <2>2. user'.val = user.val
        /\ \A d \in ChoiceSet \ {c} :
              user'.mode[d] = user.mode[d] /\ user'.sel[d] = user.sel[d]
    BY <2>1, <1>1 DEF Users
  <2>3. Agree(user', Fresh(file), was_set)
    BY <1>1, <2>1, <2>2 DEF Agree
  <2> QED BY <1>1, <1>3, <2>3 DEF LoadInv
<1>4. CASE UnsetSymbols = {} /\ UnsetChoices = {} /\ pc' = "loaded"
           /\ UNCHANGED <<user, cached>>
  <2>1. UnsetSymbols' = {} /\ UnsetChoices' = {}
    BY <1>1, <1>4 DEF UnsetSymbols, UnsetChoices
  <2> QED BY <1>1, <1>4, <2>1 DEF LoadInv
<1> QED BY <1>2, <1>3, <1>4 DEF UnsetRest

(* Everything else happens between loads. *)
LEMMA NoLoad ==
    ASSUME Inv, LoadInv,
           \/ \E n \in Asked : Get(n)
           \/ \E s \in Symbols : UnsetValue(s) \/ \E v \in UserValues \ {NoValue} : SetValue(s, v)
           \/ \E c \in ChoiceSet :
                 UnsetChoiceValue(c) \/ \E v \in UserValues \ {NoValue} : SetChoiceValue(c, v)
           \/ Return
    PROVE  LoadInv'
<1>1. pc' = "idle" /\ was_set' = {}
  BY DEF Get, UnsetValue, SetValue, UnsetChoiceValue, SetChoiceValue, Call, Return,
         loading, LoadInv
<1> QED BY <1>1 DEF LoadInv

(* A replacing load_config leaves the user values and modes of the file and
   nothing of before, for every Kconfig and any file.  What it can leave is a
   selection, in a choice that the file sets to m without selecting anything. *)
THEOREM ReplacingForgets == Spec => []LoadReplacesValues
<1>1. Init => LoadInv
  BY DEF Init, LoadInv
<1>2. ASSUME Inv, LoadInv, UNCHANGED vars PROVE LoadInv'
  BY <1>2 DEF vars, LoadInv, Rest, UnsetSymbols, UnsetChoices
<1>3. Inv /\ LoadInv /\ [Next]_vars => LoadInv'
  BY <1>2, NoLoad, LoadStart, LoadGoesOn, LoadReads, LoadUnsets DEF Next
<1>4. ASSUME Inv, LoadInv PROVE LoadReplacesValues
  <2> SUFFICES ASSUME pc = "loaded", replace
               PROVE  /\ user.val = Fresh(file).val /\ user.mode = Fresh(file).mode
                      /\ \A c \in ChoiceSet :
                            user.sel[c] # Fresh(file).sel[c] =>
                                Fresh(file).sel[c] = NoValue /\ Fresh(file).mode[c] = 1
    BY DEF LoadReplacesValues
  <2>1. File(file) /\ Len(file) \in 0 .. Len(file) /\ user \in Users
    BY <1>4 DEF Inv, TypeOK, File
  <2>2. Fresh(file) \in Users
    BY <2>1, AfterIs, AfterIsGood
  <2>3. Agree(user, Fresh(file), was_set) /\ UnsetSymbols = {} /\ UnsetChoices = {}
    BY <1>4 DEF LoadInv
  <2>4. \A s \in Symbols : user.val[s] = Fresh(file).val[s]
    BY <2>3 DEF Agree, UnsetSymbols
  <2>5. \A c \in ChoiceSet :
           /\ user.mode[c] = Fresh(file).mode[c]
           /\ user.sel[c] = Fresh(file).sel[c]
              \/ (Fresh(file).sel[c] = NoValue /\ Fresh(file).mode[c] = 1)
    BY <2>3 DEF Agree, UnsetChoices
  <2>6. /\ {user.val, Fresh(file).val} \subseteq [Symbols -> UserValues]
        /\ {user.mode, Fresh(file).mode} \subseteq [ChoiceSet -> UserValues]
    BY <2>1, <2>2 DEF Users
  <2>7. user.val = Fresh(file).val
    BY <2>4, <2>6
  <2>8. user.mode = Fresh(file).mode
    BY <2>5, <2>6
  <2> QED BY <2>5, <2>7, <2>8
<1> QED BY <1>1, <1>3, <1>4, Inductive, PTL DEF Spec
=============================================================================
