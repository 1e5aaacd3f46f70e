---------------------------- MODULE MenuScreenProofs ----------------------------
(***************************************************************************)
(* Proofs about MenuScreen, for any Kconfigs, evaluations, terminals and   *)
(* heights of windows.                                                     *)
(*                                                                         *)
(* The lists are folds over sequences and the menus above a node a         *)
(* recursive function: of the places where something fails there is a      *)
(* first (Least), which stands for induction.                              *)
(***************************************************************************)
EXTENDS MenuScreen, LeastNumber, FunctionTheorems, FiniteSetTheorems, SequenceTheorems

-----------------------------------------------------------------------------
(* Least and greatest *)

LEMMA MaxOfTwo ==
    ASSUME NEW x \in Int, NEW y \in Int
    PROVE  Max({x, y}) = IF x >= y THEN x ELSE y
BY DEF Max

LEMMA MinOfTwo ==
    ASSUME NEW x \in Int, NEW y \in Int
    PROVE  Min({x, y}) = IF x <= y THEN x ELSE y
BY DEF Min

LEMMA MinIsLeast ==
    ASSUME NEW S \in SUBSET Nat, S # {}
    PROVE  Min(S) \in S /\ \A x \in S : Min(S) <= x
BY Least DEF Min

(* A set of numbers up to n has a greatest one. *)
LEMMA MaxIsGreatest ==
    ASSUME NEW n \in Nat, NEW S \in SUBSET (0 .. n), S # {}
    PROVE  Max(S) \in S /\ \A x \in S : x <= Max(S)
<1> DEFINE D == {n - x : x \in S}
<1>1. PICK m \in D : \A d \in D : m <= d
  <2>1. \A x \in S : n - x \in Nat
    OBVIOUS
  <2>2. D \in SUBSET Nat /\ D # {}
    BY <2>1
  <2> HIDE DEF D
  <2> QED BY <2>2, Least
<1>2. PICK y \in S : m = n - y
  OBVIOUS
<1>3. ASSUME NEW x \in S PROVE x <= y
  <2>1. n - x \in D
    OBVIOUS
  <2> QED BY <1>1, <1>2, <2>1
<1> QED BY <1>3 DEF Max

-----------------------------------------------------------------------------
(* Lists: Only *)

(* What Only folds up *)
Sifts(g, list, S, n) ==
    g = [j \in 0 .. n |-> IF j = 0 THEN <<>>
                          ELSE IF list[j] \in S THEN Append(g[j - 1], list[j]) ELSE g[j - 1]]

(* The fold that Only is made of has a value. *)
LEMMA SiftsExist ==
    ASSUME NEW list, NEW S, NEW n \in Nat
    PROVE  \E g : Sifts(g, list, S, n)
<1> DEFINE Bad == {m \in Nat : ~ \E g : Sifts(g, list, S, m)}
<1>1. ASSUME Bad # {} PROVE FALSE
  <2>1. PICK m \in Bad : \A k \in Bad : m <= k
    <3>1. Bad \in SUBSET Nat
      OBVIOUS
    <3> HIDE DEF Bad
    <3> QED BY <1>1, <3>1, Least
  <2>2. m # 0
    <3>1. Sifts([k \in 0 .. 0 |-> <<>>], list, S, 0)
      BY DEF Sifts
    <3> QED BY <3>1
  <2>3. m - 1 \in Nat /\ m - 1 \notin Bad
    BY <2>1, <2>2
  <2>4. PICK g : Sifts(g, list, S, m - 1)
    BY <2>3
  <2> DEFINE F(v, j) == IF list[j] \in S THEN Append(v, list[j]) ELSE v
             h == [k \in 0 .. m |-> IF k = m THEN F(g[m - 1], m) ELSE g[k]]
  <2>5. ASSUME NEW k \in 0 .. m
        PROVE  h[k] = IF k = 0 THEN <<>> ELSE F(h[k - 1], k)
    <3>1. CASE k = m
      <4>1. h[k] = F(g[m - 1], m) /\ h[k - 1] = g[m - 1]
        BY <3>1, <2>2, <2>3
      <4> QED BY <4>1, <3>1, <2>2
    <3>2. CASE k # m
      <4>1. k \in 0 .. m - 1 /\ h[k] = g[k]
        BY <3>2, <2>3
      <4>2. g[k] = IF k = 0 THEN <<>> ELSE F(g[k - 1], k)
        BY <4>1, <2>4 DEF Sifts
      <4>3. k # 0 => k - 1 \in 0 .. m /\ k - 1 # m /\ h[k - 1] = g[k - 1]
        BY <4>1, <2>3
      <4> QED BY <4>1, <4>2, <4>3
    <3> QED BY <3>1, <3>2
  <2>6. Sifts(h, list, S, m)
    BY <2>5 DEF Sifts
  <2> QED BY <2>1, <2>6
<1> QED BY <1>1

(* What an appended element adds. *)
LEMMA AppendHolds ==
    ASSUME NEW T, NEW list \in Seq(T), NEW e \in T
    PROVE  ToSet(Append(list, e)) = ToSet(list) \cup {e}
<1> DEFINE n == Len(list)
           new == Append(list, e)
<1>1. /\ n \in Nat /\ DOMAIN list = 1 .. n /\ DOMAIN new = 1 .. n + 1
      /\ new[n + 1] = e /\ \A x \in 1 .. n : new[x] = list[x]
  OBVIOUS
<1> HIDE DEF n, new
<1>2. ASSUME NEW y \in ToSet(new) PROVE y \in ToSet(list) \cup {e}
  <2>1. PICK x \in 1 .. n + 1 : y = new[x]
    BY <1>1, <1>2 DEF ToSet
  <2>2. x \in 1 .. n \/ x = n + 1
    BY <1>1
  <2> QED BY <1>1, <2>1, <2>2 DEF ToSet
<1>3. ASSUME NEW y \in ToSet(list) \cup {e} PROVE y \in ToSet(new)
  <2>1. CASE y = e
    <3>1. n + 1 \in 1 .. n + 1
      BY <1>1
    <3> QED BY <1>1, <2>1, <3>1 DEF ToSet
  <2>2. CASE y \in ToSet(list)
    <3>1. PICK x \in 1 .. n : y = list[x]
      BY <1>1, <2>2 DEF ToSet
    <3>2. x \in 1 .. n + 1
      BY <1>1
    <3> QED BY <1>1, <3>1, <3>2 DEF ToSet
  <2> QED BY <1>3, <2>1, <2>2
<1> QED BY <1>2, <1>3 DEF new

(* What Only leaves of a list is a list of those of its elements that are in S. *)
LEMMA OnlyThose ==
    ASSUME NEW T, NEW list \in Seq(T), NEW S
    PROVE  /\ Only(list, S) \in Seq(T)
           /\ ToSet(Only(list, S)) = ToSet(list) \cap S
<1> DEFINE n == Len(list)
           g == CHOOSE f : Sifts(f, list, S, n)
           Upto(j) == {list[x] : x \in 1 .. j}
           Held(j) == g[j] \in Seq(T) /\ ToSet(g[j]) = Upto(j) \cap S
           Bad == {j \in 0 .. n : ~ Held(j)}
<1>0. n \in Nat /\ list \in [1 .. n -> T] /\ ToSet(list) = Upto(n)
  BY DEF ToSet
<1>1. Sifts(g, list, S, n)
  BY <1>0, SiftsExist
<1>2. Only(list, S) = g[n]
  BY DEF Only, Sifts
<1>3. \A j \in 0 .. n : g[j] = IF j = 0 THEN <<>>
          ELSE IF list[j] \in S THEN Append(g[j - 1], list[j]) ELSE g[j - 1]
  <2> HIDE DEF g
  <2> QED BY <1>1 DEF Sifts
<1> HIDE DEF g, n
<1>4. Held(0)
  <2>1. g[0] = <<>>
    BY <1>0, <1>3
  <2>2. ToSet(<<>>) = {} /\ Upto(0) = {}
    BY DEF ToSet
  <2> QED BY <2>1, <2>2
<1>5. ASSUME NEW m \in 1 .. n, Held(m - 1) PROVE Held(m)
  <2>1. list[m] \in T /\ m \in 0 .. n /\ m # 0
    BY <1>0
  <2>2. g[m] = IF list[m] \in S THEN Append(g[m - 1], list[m]) ELSE g[m - 1]
    BY <1>3, <2>1
  <2>3. Upto(m) = Upto(m - 1) \cup {list[m]}
    <3>1. 1 .. m = (1 .. m - 1) \cup {m}
      BY <1>0
    <3> QED BY <3>1
  <2> HIDE DEF Upto
  <2>4. CASE list[m] \in S
    <3>1. ToSet(g[m]) = ToSet(g[m - 1]) \cup {list[m]}
      BY <1>5, <2>1, <2>2, <2>4, AppendHolds
    <3> QED BY <1>5, <2>1, <2>2, <2>3, <2>4, <3>1
  <2>5. CASE list[m] \notin S
    BY <1>5, <2>1, <2>2, <2>3, <2>5
  <2> QED BY <2>4, <2>5
<1> HIDE DEF Held
<1>6. ASSUME Bad # {} PROVE FALSE
  <2>1. PICK m \in Bad : \A k \in Bad : m <= k
    <3>1. Bad \in SUBSET Nat
      OBVIOUS
    <3> HIDE DEF Bad
    <3> QED BY <1>6, <3>1, Least
  <2>2. m \in 1 .. n /\ m - 1 \in 0 .. n
    BY <1>0, <1>4, <2>1
  <2>3. Held(m - 1)
    BY <2>1, <2>2
  <2> QED BY <1>5, <2>1, <2>2, <2>3
<1>7. Held(n)
  BY <1>0, <1>6
<1> QED BY <1>0, <1>2, <1>7 DEF Held

(* Number k of a list that holds k is there. *)
LEMMA Place ==
    ASSUME NEW T, NEW list \in Seq(T), NEW k
    PROVE  k \in ToSet(list) <=> \E j \in 1 .. Len(list) : list[j] = k
BY DEF ToSet

-----------------------------------------------------------------------------
(* The tree *)

Nodes(c) == 1 .. Len(Tree[c])

LEMMA TreeType ==
    ASSUME NEW c \in Kconfigs
    PROVE  /\ Len(Tree[c]) \in Nat \ {0} /\ DOMAIN Tree[c] = Nodes(c)
           /\ \A k \in Nodes(c) : Tree[c][k].parent \in 0 .. k - 1
BY TreeAssumption DEF Nodes

(* What Ancestors is up to node n *)
Climbs(g, c, n) ==
    g = [k \in 0 .. n |-> IF k = 0 THEN {} ELSE {Tree[c][k].parent} \cup g[Tree[c][k].parent]]

(* The recursive function Ancestors has a value. *)
LEMMA ClimbsExist ==
    ASSUME NEW c \in Kconfigs, NEW n \in 0 .. Len(Tree[c])
    PROVE  \E g : Climbs(g, c, n)
<1> DEFINE Bad == {m \in 0 .. n : ~ \E g : Climbs(g, c, m)}
<1>0. /\ n \in Nat /\ \A k \in 1 .. n : Tree[c][k].parent \in 0 .. k - 1
      /\ Len(Tree[c]) \in Nat
  BY TreeType DEF Nodes
<1>1. ASSUME Bad # {} PROVE FALSE
  <2>1. PICK m \in Bad : \A k \in Bad : m <= k
    <3>1. Bad \in SUBSET Nat
      OBVIOUS
    <3> HIDE DEF Bad
    <3> QED BY <1>1, <3>1, Least
  <2>2. m # 0
    <3>1. Climbs([k \in 0 .. 0 |-> {}], c, 0)
      BY DEF Climbs
    <3> QED BY <3>1
  <2>3. m - 1 \in 0 .. n /\ m - 1 \notin Bad /\ m \in 1 .. n
    BY <1>0, <2>1, <2>2
  <2>4. PICK g : Climbs(g, c, m - 1)
    BY <2>3
  <2> DEFINE F(v, k) == {Tree[c][k].parent} \cup v[Tree[c][k].parent]
             h == [k \in 0 .. m |-> IF k = m THEN F(g, m) ELSE g[k]]
  <2>5. ASSUME NEW k \in 0 .. m
        PROVE  h[k] = IF k = 0 THEN {} ELSE F(h, k)
    <3>1. k # 0 => /\ Tree[c][k].parent \in 0 .. m /\ Tree[c][k].parent # m
                   /\ h[Tree[c][k].parent] = g[Tree[c][k].parent]
      <4>1. k # 0 => Tree[c][k].parent \in 0 .. m /\ Tree[c][k].parent # m
        BY <1>0, <2>3
      <4> QED BY <4>1
    <3>2. CASE k = m
      <4>1. h[k] = F(g, m)
        BY <3>2, <2>3
      <4> QED BY <4>1, <3>1, <3>2, <2>2
    <3>3. CASE k # m
      <4>1. k \in 0 .. m - 1 /\ h[k] = g[k]
        BY <3>3, <2>3, <1>0
      <4>2. g[k] = IF k = 0 THEN {} ELSE F(g, k)
        BY <4>1, <2>4 DEF Climbs
      <4> QED BY <4>1, <4>2, <3>1
    <3> QED BY <3>2, <3>3
  <2>6. Climbs(h, c, m)
    BY <2>5 DEF Climbs
  <2> QED BY <2>1, <2>6
<1> QED BY <1>1

(* Above a node are its parent and what is above that. *)
LEMMA AncestorsOf ==
    ASSUME NEW c \in Kconfigs
    PROVE  /\ Ancestors[c][0] = {}
           /\ \A k \in Nodes(c) : Ancestors[c][k] =
                 {Tree[c][k].parent} \cup Ancestors[c][Tree[c][k].parent]
<1> DEFINE n == Len(Tree[c])
           g == CHOOSE f : Climbs(f, c, n)
<1>0. n \in Nat /\ n \in 0 .. n /\ Nodes(c) = 1 .. n
  BY TreeType DEF Nodes
<1>1. Climbs(g, c, n)
  BY <1>0, ClimbsExist
<1>2. Ancestors[c] = g
  BY DEF Ancestors, Climbs
<1> HIDE DEF g, n
<1>3. \A k \in 0 .. n : g[k] =
        IF k = 0 THEN {} ELSE {Tree[c][k].parent} \cup g[Tree[c][k].parent]
  BY <1>1 DEF Climbs
<1>4. 0 \in 0 .. n /\ \A k \in 1 .. n : k \in 0 .. n /\ k # 0
  BY <1>0
<1>5. g[0] = {}
  BY <1>3, <1>4
<1> QED BY <1>0, <1>2, <1>3, <1>4, <1>5

(* What holds of the nodes above one: they come before it, the top is among
   them, and what is above them too.                                          *)
Climb(c, k) ==
    /\ Ancestors[c][k] \subseteq 0 .. k - 1 /\ 0 \in Ancestors[c][k]
    /\ \A a \in Ancestors[c][k] : Ancestors[c][a] \subseteq Ancestors[c][k]
    /\ \A a, b \in Ancestors[c][k] : a < b => a \in Ancestors[c][b]

(* What is above a node comes before it, from the top menu down. *)
LEMMA ClimbHolds ==
    ASSUME NEW c \in Kconfigs
    PROVE  \A k \in Nodes(c) : Climb(c, k)
<1> DEFINE Bad == {k \in Nodes(c) : ~ Climb(c, k)}
           P(k) == Tree[c][k].parent
<1>1. ASSUME Bad # {} PROVE FALSE
  <2>1. PICK m \in Bad : \A k \in Bad : m <= k
    <3>1. Bad \in SUBSET Nat
      BY DEF Nodes
    <3> HIDE DEF Bad
    <3> QED BY <1>1, <3>1, Least
  <2>2. /\ m \in Nodes(c) /\ m \in Nat /\ P(m) \in 0 .. m - 1
        /\ Ancestors[c][m] = {P(m)} \cup Ancestors[c][P(m)]
        /\ Ancestors[c][0] = {}
    BY <2>1, AncestorsOf, TreeType DEF Nodes
  <2>3. CASE P(m) = 0
    <3>1. Ancestors[c][m] = {0}
      BY <2>2, <2>3
    <3>2. Climb(c, m)
      BY <2>2, <3>1 DEF Climb
    <3> QED BY <2>1, <3>2
  <2>4. CASE P(m) # 0
    <3>1. P(m) \in Nodes(c) /\ P(m) < m
      BY <2>2, <2>4, TreeType DEF Nodes
    <3>2. P(m) \notin Bad
      BY <2>1, <2>2, <3>1 DEF Nodes
    <3>3. Climb(c, P(m))
      BY <3>1, <3>2
    <3> HIDE DEF Bad, P
    <3>4. Ancestors[c][m] \subseteq 0 .. m - 1 /\ 0 \in Ancestors[c][m]
      BY <2>2, <3>1, <3>3 DEF Climb
    <3>5. \A a \in Ancestors[c][m] : Ancestors[c][a] \subseteq Ancestors[c][m]
      BY <2>2, <3>3 DEF Climb
    <3>6. \A x \in Ancestors[c][P(m)] : x \in Int /\ x < P(m)
      BY <2>2, <3>3 DEF Climb
    <3>7. ASSUME NEW a \in Ancestors[c][m], NEW b \in Ancestors[c][m], a < b
          PROVE  a \in Ancestors[c][b]
      <4>1. CASE b = P(m)
        BY <2>2, <3>7, <4>1
      <4>2. CASE b # P(m)
        <5>1. b \in Ancestors[c][P(m)] /\ b < P(m)
          BY <2>2, <3>6, <4>2
        <5>2. a # P(m)
          BY <2>2, <3>6, <3>7, <5>1
        <5> QED BY <2>2, <3>3, <3>7, <5>1, <5>2 DEF Climb
      <4> QED BY <4>1, <4>2
    <3>8. Climb(c, m)
      BY <3>4, <3>5, <3>7 DEF Climb
    <3> QED BY <2>1, <3>8 DEF Bad
  <2> QED BY <2>3, <2>4
<1> QED BY <1>1

(* The menu of a node is the last above it that is one. *)
LEMMA ParentMenuOf ==
    ASSUME NEW c \in Kconfigs, NEW k \in Nodes(c)
    PROVE  /\ ParentMenus[c][k] \in Ancestors[c][k]
           /\ ParentMenus[c][k] = 0 \/ Tree[c][ParentMenus[c][k]].is_menuconfig
           /\ \A a \in Ancestors[c][k] :
                 a = 0 \/ Tree[c][a].is_menuconfig => a <= ParentMenus[c][k]
<1> DEFINE S == {a \in Ancestors[c][k] : a = 0 \/ Tree[c][a].is_menuconfig}
<1>1. /\ k \in DOMAIN Tree[c] /\ k - 1 \in Nat
      /\ Ancestors[c][k] \subseteq 0 .. k - 1 /\ 0 \in Ancestors[c][k]
  BY TreeType, ClimbHolds DEF Climb, Nodes
<1>2. ParentMenus[c][k] = Max(S)
  BY <1>1 DEF ParentMenus
<1>3. S \in SUBSET (0 .. k - 1) /\ S # {}
  BY <1>1
<1> HIDE DEF S
<1>4. Max(S) \in S /\ \A x \in S : x <= Max(S)
  BY <1>1, <1>3, MaxIsGreatest
<1> QED BY <1>2, <1>4 DEF S

-----------------------------------------------------------------------------
(* The list on the screen *)

(* The nodes in the order of the tree. *)
LEMMA OrderHolds ==
    ASSUME kconf \in Kconfigs
    PROVE  /\ DOMAIN Order = Nodes(kconf) /\ Order \in Seq(Nodes(kconf))
           /\ ToSet(Order) = Nodes(kconf)
<1>1. Order = [k \in 1 .. Len(Tree[kconf]) |-> k] /\ Len(Tree[kconf]) \in Nat
  BY TreeType DEF Order, Nodes
<1>2. Order \in [1 .. Len(Tree[kconf]) -> Nodes(kconf)]
  BY <1>1 DEF Nodes
<1>3. Order \in Seq(Nodes(kconf))
  BY <1>1, <1>2
<1>4. ToSet(Order) = Nodes(kconf)
  BY <1>1 DEF ToSet, Nodes
<1> QED BY <1>1, <1>3, <1>4 DEF Nodes

(* The list has the listed nodes that are not repeated. *)
LEMMA ShownHolds ==
    ASSUME kconf \in Kconfigs, NEW menu, NEW w, NEW all
    PROVE  /\ ShownNodes(menu, w, all) \in Seq(Nodes(kconf))
           /\ ToSet(ShownNodes(menu, w, all)) =
                {k \in Listed(menu, w, all) : ~ Repeated(k, menu, Listed(menu, w, all))}
           /\ Listed(menu, w, all) \subseteq Nodes(kconf)
<1> DEFINE L == Listed(menu, w, all)
           S == {k \in L : ~ Repeated(k, menu, L)}
<1>1. L \subseteq Nodes(kconf)
  BY OrderHolds DEF Listed
<1>2. ShownNodes(menu, w, all) = Only(Order, S)
  BY DEF ShownNodes
<1> HIDE DEF L
<1>3. Only(Order, S) \in Seq(Nodes(kconf)) /\ ToSet(Only(Order, S)) = ToSet(Order) \cap S
  <2> HIDE DEF S
  <2> QED BY OrderHolds, OnlyThose
<1> QED BY <1>1, <1>2, <1>3, OrderHolds DEF L

-----------------------------------------------------------------------------
(* Moving the cursor *)

(* Element a of n is in the list and in a window of height h that starts at b. *)
InView(a, b, n, h) == b <= a /\ a < b + h /\ a < n

Put(p, a, b) == [p EXCEPT !.sel = a, !.scroll = b]

(* Where the keys may bring the cursor p: into the list, if it was there, and
   into the window, if it was there                                           *)
Reach(p, n, h) ==
    {Put(p, x[1], x[2]) : x \in {y \in Int \X Nat :
        /\ p.sel \in 0 .. n - 1 => y[1] \in 0 .. n - 1
        /\ InView(p.sel, p.scroll, n, h) => InView(y[1], y[2], n, h)}}

(* A display or a list of matches, as far as the cursor keys know it. *)
IsCursor(p) ==
    /\ p = [f \in DOMAIN p |-> p[f]] /\ "sel" \in DOMAIN p /\ "scroll" \in DOMAIN p
    /\ p.sel \in Int /\ p.scroll \in Nat

(* Of a cursor that is put somewhere. *)
LEMMA PutHolds ==
    ASSUME NEW p, IsCursor(p), NEW a \in Int, NEW b \in Nat
    PROVE  /\ IsCursor(Put(p, a, b)) /\ Put(p, a, b).sel = a /\ Put(p, a, b).scroll = b
           /\ Put(p, p.sel, p.scroll) = p
           /\ \A x \in Int, y \in Nat : Put(Put(p, a, b), x, y) = Put(p, x, y)
BY DEF IsCursor, Put

(* A step down, a step up, and the ends of the list. *)
LEMMA DownReaches ==
    ASSUME NEW p, IsCursor(p), NEW n \in Nat, NEW h \in Nat \ {0}
    PROVE  Down(p, n, h) \in Reach(p, n, h)
<1>1. p \in Reach(p, n, h)
  <2>1. p = Put(p, p.sel, p.scroll)
    BY PutHolds DEF IsCursor
  <2>2. <<p.sel, p.scroll>> \in Int \X Nat
    BY DEF IsCursor
  <2> HIDE DEF IsCursor
  <2> QED BY <2>1, <2>2 DEF Reach
<1>2. CASE p.sel # n - 1
  <2> DEFINE a == p.sel + 1
             b == IF p.sel + 1 >= p.scroll + h - SCROLL_OFFSET /\ p.scroll < MaxScroll(n, h)
                  THEN p.scroll + 1 ELSE p.scroll
  <2>1. Down(p, n, h) = Put(p, a, b)
    BY <1>2 DEF Down, Put, IsCursor
  <2>2. MaxScroll(n, h) = IF n - h >= 0 THEN n - h ELSE 0
    BY MaxOfTwo DEF MaxScroll, AtLeast0
  <2>3. /\ a \in Int /\ b \in Nat
        /\ p.sel \in 0 .. n - 1 => a \in 0 .. n - 1
        /\ InView(p.sel, p.scroll, n, h) => InView(a, b, n, h)
    BY <1>2, <2>2, ScreenAssumption DEF IsCursor, InView
  <2> HIDE DEF a, b
  <2>4. <<a, b>> \in Int \X Nat /\ <<a, b>>[1] = a /\ <<a, b>>[2] = b
    BY <2>3
  <2> QED BY <2>1, <2>3, <2>4 DEF Reach
<1> QED BY <1>1, <1>2 DEF Down

LEMMA UpReaches ==
    ASSUME NEW p, IsCursor(p), NEW n \in Nat, NEW h \in Nat \ {0}
    PROVE  Up(p, n, h) \in Reach(p, n, h)
<1>1. p \in Reach(p, n, h)
  <2>1. p = Put(p, p.sel, p.scroll)
    BY PutHolds DEF IsCursor
  <2>2. <<p.sel, p.scroll>> \in Int \X Nat
    BY DEF IsCursor
  <2> HIDE DEF IsCursor
  <2> QED BY <2>1, <2>2 DEF Reach
<1>2. CASE p.sel # 0
  <2> DEFINE a == p.sel - 1
             b == IF p.sel - 1 < p.scroll + SCROLL_OFFSET THEN AtLeast0(p.scroll - 1)
                  ELSE p.scroll
  <2>1. Up(p, n, h) = Put(p, a, b)
    BY <1>2 DEF Up, Put, IsCursor
  <2>2. AtLeast0(p.scroll - 1) = IF p.scroll - 1 >= 0 THEN p.scroll - 1 ELSE 0
    BY MaxOfTwo DEF AtLeast0, IsCursor
  <2>3. /\ a \in Int /\ b \in Nat
        /\ p.sel \in 0 .. n - 1 => a \in 0 .. n - 1
        /\ InView(p.sel, p.scroll, n, h) => InView(a, b, n, h)
    BY <1>2, <2>2, ScreenAssumption DEF IsCursor, InView
  <2> HIDE DEF a, b
  <2>4. <<a, b>> \in Int \X Nat /\ <<a, b>>[1] = a /\ <<a, b>>[2] = b
    BY <2>3
  <2> QED BY <2>1, <2>3, <2>4 DEF Reach
<1> QED BY <1>1, <1>2 DEF Up

LEMMA EndsReach ==
    ASSUME NEW p, IsCursor(p), NEW n \in Nat, NEW h \in Nat \ {0}
    PROVE  /\ ToFirst(p) \in Reach(p, n, h) /\ ToLast(p, n, h) \in Reach(p, n, h)
           /\ p \in Reach(p, n, h)
<1>1. MaxScroll(n, h) = IF n - h >= 0 THEN n - h ELSE 0
  BY MaxOfTwo DEF MaxScroll, AtLeast0
<1>2. p = Put(p, p.sel, p.scroll) /\ p.sel \in Int /\ p.scroll \in Nat
  BY PutHolds DEF IsCursor
<1>3. ToFirst(p) = Put(p, 0, 0) /\ ToLast(p, n, h) = Put(p, n - 1, MaxScroll(n, h))
  BY DEF ToFirst, ToLast, Put
<1>4. ASSUME NEW a \in Int, NEW b \in Nat,
             p.sel \in 0 .. n - 1 => a \in 0 .. n - 1,
             InView(p.sel, p.scroll, n, h) => InView(a, b, n, h)
      PROVE  Put(p, a, b) \in Reach(p, n, h)
  <2>1. <<a, b>> \in Int \X Nat /\ <<a, b>>[1] = a /\ <<a, b>>[2] = b
    OBVIOUS
  <2> QED BY <1>4, <2>1 DEF Reach
<1>5. Put(p, 0, 0) \in Reach(p, n, h)
  <2>1. InView(p.sel, p.scroll, n, h) => InView(0, 0, n, h)
    BY <1>2 DEF InView
  <2>2. p.sel \in 0 .. n - 1 => 0 \in 0 .. n - 1
    OBVIOUS
  <2> QED BY <1>4, <2>1, <2>2
<1>6. Put(p, n - 1, MaxScroll(n, h)) \in Reach(p, n, h)
  <2>1. InView(p.sel, p.scroll, n, h) => InView(n - 1, MaxScroll(n, h), n, h)
    BY <1>1, <1>2 DEF InView
  <2>2. p.sel \in 0 .. n - 1 => n - 1 \in 0 .. n - 1
    OBVIOUS
  <2>3. MaxScroll(n, h) \in Nat
    BY <1>1
  <2> QED BY <1>4, <2>1, <2>2, <2>3
<1> QED BY <1>2, <1>3, <1>4, <1>5, <1>6

(* Steps can be taken one after the other: a page is some of them. *)
LEMMA ReachOn ==
    ASSUME NEW p, IsCursor(p), NEW n \in Nat, NEW h \in Nat \ {0},
           NEW q \in Reach(p, n, h)
    PROVE  IsCursor(q) /\ Reach(q, n, h) \subseteq Reach(p, n, h)
<1>1. PICK x \in Int \X Nat :
          /\ q = Put(p, x[1], x[2])
          /\ p.sel \in 0 .. n - 1 => x[1] \in 0 .. n - 1
          /\ InView(p.sel, p.scroll, n, h) => InView(x[1], x[2], n, h)
  BY DEF Reach
<1>2. x[1] \in Int /\ x[2] \in Nat
  OBVIOUS
<1>3. IsCursor(q) /\ q.sel = x[1] /\ q.scroll = x[2]
  BY <1>1, <1>2, PutHolds
<1>4. ASSUME NEW r \in Reach(q, n, h) PROVE r \in Reach(p, n, h)
  <2>1. PICK y \in Int \X Nat :
            /\ r = Put(q, y[1], y[2])
            /\ q.sel \in 0 .. n - 1 => y[1] \in 0 .. n - 1
            /\ InView(q.sel, q.scroll, n, h) => InView(y[1], y[2], n, h)
    BY <1>4 DEF Reach
  <2>2. y[1] \in Int /\ y[2] \in Nat
    OBVIOUS
  <2>3. r = Put(p, y[1], y[2])
    BY <1>1, <1>2, <2>1, <2>2, PutHolds
  <2> QED BY <1>1, <1>3, <2>1, <2>3 DEF Reach
<1> QED BY <1>3, <1>4

(* What a page is after k steps *)
Pages(g, p, n, h, k, down) ==
    g = [j \in 0 .. k |-> IF j = 0 THEN p
                          ELSE IF down THEN Down(g[j - 1], n, h) ELSE Up(g[j - 1], n, h)]

(* The fold that a page is made of has a value. *)
LEMMA PagesExist ==
    ASSUME NEW p, NEW n, NEW h, NEW down, NEW last \in Nat
    PROVE  \E g : Pages(g, p, n, h, last, down)
<1> DEFINE Bad == {m \in Nat : ~ \E g : Pages(g, p, n, h, m, down)}
           F(v) == IF down THEN Down(v, n, h) ELSE Up(v, n, h)
<1>1. ASSUME Bad # {} PROVE FALSE
  <2>1. PICK m \in Bad : \A k \in Bad : m <= k
    <3>1. Bad \in SUBSET Nat
      OBVIOUS
    <3> HIDE DEF Bad
    <3> QED BY <1>1, <3>1, Least
  <2>2. m # 0
    <3>1. Pages([k \in 0 .. 0 |-> p], p, n, h, 0, down)
      BY DEF Pages
    <3> QED BY <3>1
  <2>3. m - 1 \in Nat /\ m - 1 \notin Bad
    BY <2>1, <2>2
  <2>4. PICK g : Pages(g, p, n, h, m - 1, down)
    BY <2>3
  <2>5. g = [j \in 0 .. m - 1 |-> IF j = 0 THEN p ELSE F(g[j - 1])]
    BY <2>4 DEF Pages
  <2> DEFINE new == [k \in 0 .. m |-> IF k = m THEN F(g[m - 1]) ELSE g[k]]
  <2> HIDE DEF F
  <2>6. ASSUME NEW k \in 0 .. m
        PROVE  new[k] = IF k = 0 THEN p ELSE F(new[k - 1])
    <3>1. CASE k = m
      <4>1. new[k] = F(g[m - 1]) /\ new[k - 1] = g[m - 1]
        BY <3>1, <2>2, <2>3
      <4> QED BY <4>1, <3>1, <2>2
    <3>2. CASE k # m
      <4>1. k \in 0 .. m - 1 /\ new[k] = g[k]
        BY <3>2, <2>3
      <4>2. g[k] = IF k = 0 THEN p ELSE F(g[k - 1])
        BY <4>1, <2>5
      <4>3. k # 0 => k - 1 \in 0 .. m /\ k - 1 # m /\ new[k - 1] = g[k - 1]
        BY <4>1, <2>3
      <4> QED BY <4>1, <4>2, <4>3
    <3> QED BY <3>1, <3>2
  <2>7. new = [j \in 0 .. m |-> IF j = 0 THEN p ELSE F(new[j - 1])]
    BY <2>6
  <2>8. Pages(new, p, n, h, m, down)
    BY <2>7 DEF Pages, F
  <2> HIDE DEF new
  <2> QED BY <2>1, <2>8
<1> QED BY <1>1

LEMMA PagesReach ==
    ASSUME NEW p, IsCursor(p), NEW n \in Nat, NEW h \in Nat \ {0}, NEW down,
           NEW last \in Nat, NEW g, Pages(g, p, n, h, last, down)
    PROVE  g[last] \in Reach(p, n, h)
<1> DEFINE Bad == {m \in 0 .. last : g[m] \notin Reach(p, n, h)}
<1>1. ASSUME Bad # {} PROVE FALSE
  <2>1. PICK m \in Bad : \A k \in Bad : m <= k
    <3>1. Bad \in SUBSET Nat
      OBVIOUS
    <3> HIDE DEF Bad
    <3> QED BY <1>1, <3>1, Least
  <2>2. g[m] = IF m = 0 THEN p
               ELSE IF down THEN Down(g[m - 1], n, h) ELSE Up(g[m - 1], n, h)
    BY <2>1 DEF Pages
  <2>3. m # 0
    BY <2>1, <2>2, EndsReach
  <2>4. m - 1 \in 0 .. last /\ m - 1 \notin Bad
    BY <2>1, <2>3
  <2>5. g[m - 1] \in Reach(p, n, h)
    BY <2>4
  <2>6. g[m] \in Reach(g[m - 1], n, h)
    <3>1. IsCursor(g[m - 1])
      BY <2>5, ReachOn
    <3>2. /\ Down(g[m - 1], n, h) \in Reach(g[m - 1], n, h)
          /\ Up(g[m - 1], n, h) \in Reach(g[m - 1], n, h)
      BY <3>1, DownReaches, UpReaches
    <3> QED BY <2>2, <2>3, <3>2
  <2> QED BY <2>1, <2>5, <2>6, ReachOn
<1> QED BY <1>1

(* Every key that moves the cursor keeps it in the list and in the window. *)
LEMMA MovesReach ==
    ASSUME NEW p, IsCursor(p), NEW n \in Nat, NEW h \in Nat \ {0}
    PROVE  Moves(p, n, h) \subseteq Reach(p, n, h)
<1>1. PageDown(p, n, h) \in Reach(p, n, h)
  <2> DEFINE at == CHOOSE f : Pages(f, p, n, h, PG_JUMP, TRUE)
  <2>1. PG_JUMP \in Nat
    BY ScreenAssumption
  <2>2. Pages(at, p, n, h, PG_JUMP, TRUE)
    BY <2>1, PagesExist
  <2>3. PageDown(p, n, h) = at[PG_JUMP]
    BY DEF PageDown, Pages
  <2> HIDE DEF at
  <2> QED BY <2>1, <2>2, <2>3, PagesReach
<1>2. PageUp(p, n, h) \in Reach(p, n, h)
  <2> DEFINE at == CHOOSE f : Pages(f, p, n, h, PG_JUMP, FALSE)
  <2>1. PG_JUMP \in Nat
    BY ScreenAssumption
  <2>2. Pages(at, p, n, h, PG_JUMP, FALSE)
    BY <2>1, PagesExist
  <2>3. PageUp(p, n, h) = at[PG_JUMP]
    BY DEF PageUp, Pages
  <2> HIDE DEF at
  <2> QED BY <2>1, <2>2, <2>3, PagesReach
<1> QED BY <1>1, <1>2, DownReaches, UpReaches, EndsReach DEF Moves

-----------------------------------------------------------------------------
(* The main display *)

(* The display, with nodes of the Kconfig on the screen. *)
Displays ==
    [cur : 0 .. Len(Tree[kconf]), shown : Seq(Nodes(kconf)), sel : Nat, scroll : Nat,
     rows : Seq(Int), all : BOOLEAN, lost : BOOLEAN]

(* A display without an error has a selected node. *)
Whole(s) == s \in Displays /\ (~ s.lost => s.sel < Len(s.shown))

Static ==
    /\ kconf \in Kconfigs /\ show_help \in BOOLEAN
    /\ terminal \in Terminals[kconf] /\ height \in Nat \ {0}

(* Every window has a row, however small the terminal. *)
LEMMA HeightHolds ==
    ASSUME NEW c \in Kconfigs, NEW t \in Terminals[c], NEW help
    PROVE  /\ MainHeight(t, help) \in Nat \ {0} /\ MatchesHeight(t) \in Nat \ {0}
           /\ TextHeight(t) \in Nat \ {0} /\ JumpWidth(t) \in Int /\ InputWidth(t) \in Int
<1>1. /\ t[1] \in Nat /\ t[2] \in Nat /\ SHOW_HELP_HEIGHT \in Nat /\ MainHelp \in Nat
      /\ InfoHelp \in Nat /\ JumpToHelp \in Nat /\ DialogWidth \in Nat
  BY ScreenAssumption
<1>2. \A x \in Int : Max({1, x}) \in Nat \ {0}
  BY MaxOfTwo
<1>3. Min({DialogWidth, t[2]}) \in Int
  BY <1>1, MinOfTwo
<1> QED BY <1>1, <1>2, <1>3 DEF MainHeight, MatchesHeight, TextHeight, JumpWidth, InputWidth

(* Select finds a node that is in the list. *)
LEMMA SelectHolds ==
    ASSUME kconf \in Kconfigs, NEW s \in Displays, NEW k
    PROVE  /\ Whole(Select(s, k))
           /\ k \in ToSet(s.shown) =>
                \E j \in 0 .. Len(s.shown) - 1 :
                    Select(s, k) = [s EXCEPT !.sel = j] /\ s.shown[j + 1] = k
<1>1. s.shown \in Seq(Nodes(kconf)) /\ Len(s.shown) \in Nat /\ DOMAIN s.shown = 1 .. Len(s.shown)
  BY DEF Displays
<1>2. CASE k \in ToSet(s.shown)
  <2> DEFINE i == CHOOSE j \in DOMAIN s.shown : s.shown[j] = k
  <2>1. i \in 1 .. Len(s.shown) /\ s.shown[i] = k
    BY <1>1, <1>2 DEF ToSet
  <2>2. Select(s, k) = [s EXCEPT !.sel = i - 1]
    BY <1>2 DEF Select
  <2> HIDE DEF i
  <2>3. i - 1 \in 0 .. Len(s.shown) - 1 /\ i - 1 + 1 = i
    BY <1>1, <2>1
  <2>4. Whole([s EXCEPT !.sel = i - 1])
    <3>1. i - 1 \in Nat /\ i - 1 < Len(s.shown)
      BY <1>1, <2>1
    <3>2. [s EXCEPT !.sel = i - 1] \in Displays
      BY <3>1 DEF Displays
    <3>3. [s EXCEPT !.sel = i - 1].shown = s.shown /\ [s EXCEPT !.sel = i - 1].sel = i - 1
      BY DEF Displays
    <3> QED BY <3>1, <3>2, <3>3 DEF Whole
  <2> QED BY <2>1, <2>2, <2>3, <2>4
<1>3. CASE k \notin ToSet(s.shown)
  BY <1>3 DEF Select, Whole, Displays
<1> QED BY <1>2, <1>3

(* Scrolling changes nothing else, and keeps the cursor on the screen. *)
LEMMA CenterHolds ==
    ASSUME NEW s \in Displays, NEW h \in Nat \ {0}
    PROVE  \E b \in Nat : /\ Center(s, h) = [s EXCEPT !.scroll = b]
                          /\ s.sel < Len(s.shown) => InView(s.sel, b, Len(s.shown), h)
<1> DEFINE n == Len(s.shown)
           mid == h \div 2
           b == Min({AtLeast0(s.sel - mid), MaxScroll(n, h)})
<1>1. n \in Nat /\ mid \in Nat /\ mid < h /\ s.sel \in Nat
  BY DEF Displays
<1>2. Center(s, h) = [s EXCEPT !.scroll = b]
  BY DEF Center
<1> HIDE DEF n, mid
<1>3. AtLeast0(s.sel - mid) = IF s.sel - mid >= 0 THEN s.sel - mid ELSE 0
  BY <1>1, MaxOfTwo DEF AtLeast0
<1>4. MaxScroll(n, h) = IF n - h >= 0 THEN n - h ELSE 0
  BY <1>1, MaxOfTwo DEF AtLeast0, MaxScroll
<1>5. b = IF AtLeast0(s.sel - mid) <= MaxScroll(n, h) THEN AtLeast0(s.sel - mid)
          ELSE MaxScroll(n, h)
  BY <1>1, <1>3, <1>4, MinOfTwo
<1> HIDE DEF b
<1>6. b \in Nat /\ (s.sel < n => InView(s.sel, b, n, h))
  BY <1>1, <1>3, <1>4, <1>5 DEF InView
<1> QED BY <1>2, <1>6 DEF n

(* The cursor is kept on its row, or the list starts at its top. *)
LEMMA KeepRowHolds ==
    ASSUME NEW s \in Displays, NEW row \in Int
    PROVE  \E b \in Nat :
              /\ KeepRow(s, row) = [s EXCEPT !.scroll = b] /\ (s.sel - b = row \/ b = 0)
              /\ \A h \in Nat : row \in 0 .. h - 1 /\ s.sel < Len(s.shown)
                                => InView(s.sel, b, Len(s.shown), h)
<1>1. s.sel \in Nat /\ Len(s.shown) \in Nat
  BY DEF Displays
<1>2. AtLeast0(s.sel - row) = IF s.sel - row >= 0 THEN s.sel - row ELSE 0
  BY <1>1, MaxOfTwo DEF AtLeast0
<1>3. /\ AtLeast0(s.sel - row) \in Nat
      /\ s.sel - AtLeast0(s.sel - row) = row \/ AtLeast0(s.sel - row) = 0
      /\ \A h \in Nat : row \in 0 .. h - 1 /\ s.sel < Len(s.shown)
                        => InView(s.sel, AtLeast0(s.sel - row), Len(s.shown), h)
  BY <1>1, <1>2 DEF InView
<1> QED BY <1>3 DEF KeepRow

(* A window of any height shows a cursor that was not above it. *)
LEMMA FitHolds ==
    ASSUME NEW p, IsCursor(p), NEW h \in Nat \ {0}
    PROVE  \E b \in Nat :
              /\ Fit(p, h) = Put(p, p.sel, b)
              /\ \A n \in Nat : p.sel < n /\ p.scroll <= p.sel => InView(p.sel, b, n, h)
<1>1. p = Put(p, p.sel, p.scroll) /\ p.sel \in Int /\ p.scroll \in Nat
  BY PutHolds DEF IsCursor
<1>2. CASE p.sel - p.scroll >= h
  <2>1. Fit(p, h) = Put(p, p.sel, p.sel - h + 1)
    BY <1>1, <1>2 DEF Fit, Put, IsCursor
  <2>2. p.sel - h + 1 \in Nat /\ \A n \in Nat : p.sel < n => InView(p.sel, p.sel - h + 1, n, h)
    BY <1>1, <1>2 DEF InView
  <2> QED BY <2>1, <2>2
<1>3. CASE ~ (p.sel - p.scroll >= h)
  BY <1>1, <1>3 DEF Fit, InView
<1> QED BY <1>2, <1>3

(* Nothing but the cursor is another. *)
Moved(s, t) ==
    /\ t \in Displays /\ t.cur = s.cur /\ t.shown = s.shown /\ t.rows = s.rows
    /\ t.all = s.all /\ t.lost = s.lost

Seen(s, h) == InView(s.sel, s.scroll, Len(s.shown), h)

LEMMA SelMoves ==
    ASSUME NEW s \in Displays, NEW j \in Nat
    PROVE  /\ Moved(s, [s EXCEPT !.sel = j])
           /\ [s EXCEPT !.sel = j].sel = j /\ [s EXCEPT !.sel = j].scroll = s.scroll
BY DEF Moved, Displays

LEMMA ScrollMoves ==
    ASSUME NEW s \in Displays, NEW b \in Nat
    PROVE  /\ Moved(s, [s EXCEPT !.scroll = b])
           /\ [s EXCEPT !.scroll = b].sel = s.sel /\ [s EXCEPT !.scroll = b].scroll = b
BY DEF Moved, Displays

LEMMA MovedOn ==
    ASSUME NEW s, NEW t, NEW u, Moved(s, t), Moved(t, u)
    PROVE  Moved(s, u)
BY DEF Moved

LEMMA CenterMoves ==
    ASSUME NEW s \in Displays, NEW h \in Nat \ {0}
    PROVE  /\ Moved(s, Center(s, h)) /\ Center(s, h).sel = s.sel
           /\ s.sel < Len(s.shown) => Seen(Center(s, h), h)
<1>1. PICK b \in Nat : /\ Center(s, h) = [s EXCEPT !.scroll = b]
                       /\ s.sel < Len(s.shown) => InView(s.sel, b, Len(s.shown), h)
  BY CenterHolds
<1> DEFINE t == Center(s, h)
<1>2. Moved(s, t) /\ t.sel = s.sel /\ t.scroll = b
  BY <1>1, ScrollMoves
<1>3. t.shown = s.shown
  BY <1>2 DEF Moved
<1> HIDE DEF t
<1> QED BY <1>1, <1>2, <1>3 DEF Seen, t

LEMMA KeepRowMoves ==
    ASSUME NEW s \in Displays, NEW row \in Int
    PROVE  /\ Moved(s, KeepRow(s, row)) /\ KeepRow(s, row).sel = s.sel
           /\ Row(KeepRow(s, row)) = row \/ KeepRow(s, row).scroll = 0
           /\ \A h \in Nat : row \in 0 .. h - 1 /\ s.sel < Len(s.shown)
                             => Seen(KeepRow(s, row), h)
<1>1. PICK b \in Nat :
          /\ KeepRow(s, row) = [s EXCEPT !.scroll = b] /\ (s.sel - b = row \/ b = 0)
          /\ \A h \in Nat : row \in 0 .. h - 1 /\ s.sel < Len(s.shown)
                            => InView(s.sel, b, Len(s.shown), h)
  BY KeepRowHolds
<1> DEFINE t == KeepRow(s, row)
<1>2. Moved(s, t) /\ t.sel = s.sel /\ t.scroll = b
  BY <1>1, ScrollMoves
<1>3. t.shown = s.shown
  BY <1>2 DEF Moved
<1> HIDE DEF t
<1>4. Row(t) = row \/ t.scroll = 0
  BY <1>1, <1>2 DEF Row
<1> QED BY <1>1, <1>2, <1>3, <1>4 DEF Seen, t

LEMMA SelectMoves ==
    ASSUME kconf \in Kconfigs, NEW s \in Displays, NEW k \in ToSet(s.shown)
    PROVE  /\ Moved(s, Select(s, k)) /\ Select(s, k).sel < Len(s.shown)
           /\ Selected(Select(s, k)) = k
<1>1. PICK j \in 0 .. Len(s.shown) - 1 :
          Select(s, k) = [s EXCEPT !.sel = j] /\ s.shown[j + 1] = k
  BY SelectHolds
<1>2. j \in Nat /\ j < Len(s.shown)
  BY DEF Displays
<1> DEFINE t == Select(s, k)
<1>3. Moved(s, t) /\ t.sel = j
  BY <1>1, <1>2, SelMoves
<1>4. t.shown = s.shown
  BY <1>3 DEF Moved
<1> HIDE DEF t
<1> QED BY <1>1, <1>2, <1>3, <1>4 DEF Selected, t

LEMMA DisplayIsCursor ==
    ASSUME NEW s \in Displays
    PROVE  IsCursor(s)
<1>1. s = [f \in DOMAIN s |-> s[f]] /\ "sel" \in DOMAIN s /\ "scroll" \in DOMAIN s
  BY DEF Displays
<1> QED BY <1>1 DEF IsCursor, Displays

LEMMA PutMoves ==
    ASSUME NEW s \in Displays, NEW a \in Nat, NEW b \in Nat
    PROVE  Moved(s, Put(s, a, b)) /\ Put(s, a, b).sel = a /\ Put(s, a, b).scroll = b
BY DEF Moved, Put, Displays

LEMMA FitMoves ==
    ASSUME NEW s \in Displays, NEW h \in Nat \ {0}
    PROVE  /\ Moved(s, Fit(s, h)) /\ Fit(s, h).sel = s.sel
           /\ s.sel < Len(s.shown) /\ s.scroll <= s.sel => Seen(Fit(s, h), h)
<1>1. PICK b \in Nat :
          /\ Fit(s, h) = Put(s, s.sel, b)
          /\ \A n \in Nat : s.sel < n /\ s.scroll <= s.sel => InView(s.sel, b, n, h)
  BY DisplayIsCursor, FitHolds
<1>2. s.sel \in Nat /\ Len(s.shown) \in Nat
  BY DEF Displays
<1> DEFINE t == Fit(s, h)
<1>3. Moved(s, t) /\ t.sel = s.sel /\ t.scroll = b
  BY <1>1, <1>2, PutMoves
<1>4. t.shown = s.shown
  BY <1>3 DEF Moved
<1> HIDE DEF t
<1> QED BY <1>1, <1>2, <1>3, <1>4 DEF Seen, t

(* The cursor at the selection of a choice *)
LEMMA AtSelectionMoves ==
    ASSUME kconf \in Kconfigs, NEW s \in Displays, NEW w, NEW h \in Nat \ {0}
    PROVE  /\ Moved(s, AtSelection(s, w, h))
           /\ s.sel < Len(s.shown) => AtSelection(s, w, h).sel < Len(s.shown)
           /\ Seen(s, h) => Seen(AtSelection(s, w, h), h)
<1>1. CASE ~ IsChoice(s.cur) \/ Chosen(s, w) = {}
  BY <1>1 DEF AtSelection, Moved
<1>2. CASE IsChoice(s.cur) /\ Chosen(s, w) # {}
  <2>1. Chosen(s, w) \subseteq ToSet(s.shown) /\ ToSet(s.shown) \subseteq Nat
    BY DEF Chosen, ToSet, Displays, Nodes
  <2> DEFINE k == Min(Chosen(s, w))
             t == Select(s, k)
  <2>2. k \in ToSet(s.shown)
    BY <1>2, <2>1, MinIsLeast
  <2> HIDE DEF k
  <2>3. Moved(s, t) /\ t.sel < Len(s.shown)
    BY <2>2, SelectMoves
  <2>4. AtSelection(s, w, h) = Center(t, h)
    BY <1>2 DEF AtSelection, k
  <2> HIDE DEF t
  <2>5. t \in Displays /\ t.shown = s.shown
    BY <2>3 DEF Moved
  <2>6. /\ Moved(t, Center(t, h)) /\ Center(t, h).sel = t.sel
        /\ t.sel < Len(t.shown) => Seen(Center(t, h), h)
    BY <2>5, CenterMoves
  <2> QED BY <2>3, <2>4, <2>5, <2>6, MovedOn
<1> QED BY <1>1, <1>2

-----------------------------------------------------------------------------
(* The way up *)

(* The menus above a node, of the Kconfig on the screen. *)
LEMMA TreeHolds ==
    ASSUME kconf \in Kconfigs
    PROVE  /\ Above(0) = {}
           /\ \A k \in Nodes(kconf) :
                 /\ k \in Nat /\ k > 0 /\ Above(k) \subseteq 0 .. k - 1 /\ 0 \in Above(k)
                 /\ Above(k) \subseteq 0 .. Len(Tree[kconf])
                 /\ Above(k) \ {0} \subseteq Nodes(kconf)
                 /\ \A a \in Above(k) : Above(a) \subseteq Above(k)
                 /\ \A a, b \in Above(k) : a < b => a \in Above(b)
<1>1. /\ Above(0) = {} /\ Len(Tree[kconf]) \in Nat
      /\ \A k \in Nodes(kconf) : Climb(kconf, k)
  BY AncestorsOf, ClimbHolds, TreeType DEF Above
<1>2. ASSUME NEW k \in Nodes(kconf)
      PROVE  /\ k \in Nat /\ k > 0 /\ Above(k) \subseteq 0 .. k - 1 /\ 0 \in Above(k)
             /\ Above(k) \subseteq 0 .. Len(Tree[kconf])
             /\ Above(k) \ {0} \subseteq Nodes(kconf)
  BY <1>1 DEF Climb, Nodes, Above
<1>3. \A k \in Nodes(kconf) : /\ \A a \in Above(k) : Above(a) \subseteq Above(k)
                              /\ \A a, b \in Above(k) : a < b => a \in Above(b)
  BY <1>1 DEF Climb, Above
<1> QED BY <1>1, <1>2, <1>3

(* The parent menu is the nearest menu above a node. *)
LEMMA ParentHolds ==
    ASSUME kconf \in Kconfigs, NEW k \in Nodes(kconf)
    PROVE  /\ ParentMenu(k) \in Above(k) /\ IsMenu(ParentMenu(k))
           /\ ParentMenu(k) \in 0 .. Len(Tree[kconf]) /\ ParentMenu(k) < k
           /\ \A a \in Above(k) : IsMenu(a) => a <= ParentMenu(k)
<1>1. /\ ParentMenu(k) \in Above(k) /\ IsMenu(ParentMenu(k))
      /\ \A a \in Above(k) : IsMenu(a) => a <= ParentMenu(k)
  BY ParentMenuOf DEF ParentMenu, Above, IsMenu, Node
<1> QED BY <1>1, TreeHolds

LEMMA IsLocation ==
    ASSUME kconf \in Kconfigs, NEW a \in 0 .. Len(Tree[kconf])
    PROVE  a \in Locations(a)
BY OrderHolds DEF Locations, IsChoice, Nodes

(* What is above a visible node appears. *)
LEMMA AppearsAbove ==
    ASSUME kconf \in Kconfigs, NEW w, MenusFollow(w),
           NEW d \in Nodes(kconf) \cap w.visible, NEW a \in Above(d) \ {0}, NEW all
    PROVE  Appears(a, w, all)
<1>1. \A x \in Above(d) \ {0} : x \in Nodes(kconf) /\ (IsSymbol(x) \/ x \in w.visible)
  <2>1. \A x \in Above(d) \ {0} : x \in Nodes(kconf) /\ x \in 0 .. Len(Tree[kconf])
    BY TreeHolds
  <2> QED BY <2>1, IsLocation DEF MenusFollow
<1>2. a \in Nodes(kconf) /\ Nodes(kconf) = DOMAIN Tree[kconf]
  BY <1>1, TreeType
<1>3. \A x \in Nodes(kconf) :
        x \in Bearers[kconf][a] <=> \/ a = x
                                    \/ a \in Above(x) /\ \A b \in Above(x) : b >= a => IsSymbol(b)
  BY <1>2 DEF Bearers, Above, IsSymbol, Node
<1>4. CASE ~ IsSymbol(a)
  BY <1>1, <1>2, <1>3, <1>4 DEF Appears
<1>5. CASE IsSymbol(a)
  <2> DEFINE S == {x \in Above(d) : x > a /\ ~ IsSymbol(x)}
  <2>1. Above(d) \subseteq Nat /\ a \in Nat /\ a > 0
    BY <1>2, TreeHolds
  <2>2. CASE S = {}
    <3>1. \A b \in Above(d) : b >= a => IsSymbol(b)
      BY <1>5, <2>1, <2>2
    <3> QED BY <1>3, <3>1 DEF Appears
  <2>3. CASE S # {}
    <3>1. PICK m \in S : \A x \in S : m <= x
      <4>1. S \in SUBSET Nat
        BY <2>1
      <4> HIDE DEF S
      <4> QED BY <2>3, <4>1, Least
    <3>2. m \in Nodes(kconf) \cap w.visible /\ a \in Above(m) /\ m \in Nat
      BY <1>1, <2>1, <3>1, TreeHolds
    <3>3. ASSUME NEW b \in Above(m), b >= a PROVE IsSymbol(b)
      <4>1. b \in Above(d) /\ b < m /\ b \in Nat
        <5>1. b \in Above(d)
          BY <3>1, <3>3, TreeHolds
        <5>2. b \in 0 .. m - 1
          BY <3>2, <3>3, TreeHolds
        <5> QED BY <3>2, <5>1, <5>2
      <4>2. b \notin S
        BY <2>1, <3>1, <4>1
      <4> QED BY <1>5, <2>1, <3>3, <4>1, <4>2
    <3> QED BY <1>3, <3>2, <3>3 DEF Appears
  <2> QED BY <2>2, <2>3
<1> QED BY <1>4, <1>5

(* Where a menu shows something, it and the menus above it are shown. *)
LEMMA WayUp ==
    ASSUME kconf \in Kconfigs, NEW w, MenusFollow(w), NEW menu \in 0 .. Len(Tree[kconf]),
           NEW all, ShownNodes(menu, w, all) # <<>>,
           NEW m \in ({menu} \cup Above(menu)) \ {0}
    PROVE  m \in ToSet(ShownNodes(ParentMenu(m), w, all))
<1>1. menu \in Nodes(kconf) /\ m \in Nodes(kconf)
  BY TreeHolds DEF Nodes
<1>2. Appears(m, w, all)
  <2>1. CASE all
    BY <2>1 DEF Appears
  <2>2. CASE ~ all
    <3>1. PICK k \in Listed(menu, w, all) : TRUE
      <4>1. /\ ShownNodes(menu, w, all) \in Seq(Nodes(kconf))
            /\ ToSet(ShownNodes(menu, w, all)) \subseteq Listed(menu, w, all)
        BY ShownHolds
      <4>2. ShownNodes(menu, w, all)[1] \in ToSet(ShownNodes(menu, w, all))
        <5> DEFINE list == ShownNodes(menu, w, all)
        <5> HIDE DEF list
        <5>1. list \in Seq(Nodes(kconf)) /\ list # <<>> => 1 \in DOMAIN list
          OBVIOUS
        <5> QED BY <4>1, <5>1 DEF ToSet, list
      <4> QED BY <4>1, <4>2
    <3>2. k \in Nodes(kconf) /\ ParentMenu(k) \in Locations(menu) /\ Appears(k, w, all)
      BY <3>1, OrderHolds DEF Listed
    <3>3. PICK d \in Bearers[kconf][k] : d \in w.visible
      BY <2>2, <3>2 DEF Appears
    <3>4. d \in Nodes(kconf) /\ (k = d \/ k \in Above(d))
      BY <3>2, <3>3, TreeType DEF Bearers, Above
    <3>5. ParentMenu(k) \in Above(d)
      BY <3>2, <3>4, ParentHolds, TreeHolds
    <3>6. \E x \in Nodes(kconf) \cap w.visible : menu \in {x} \cup Above(x)
      <4>1. CASE IsChoice(menu)
        <5>1. ParentMenu(k) \in Nodes(kconf) /\ Node(ParentMenu(k)).item = Node(menu).item
          BY <3>2, <4>1, OrderHolds DEF Locations
        <5>2. ParentMenu(k) # 0 /\ IsChoice(ParentMenu(k)) /\ Locations(ParentMenu(k)) = Locations(menu)
          BY <4>1, <5>1, TreeHolds DEF Locations, IsChoice
        <5>3. menu \in Locations(menu)
          BY IsLocation
        <5>4. ~ IsSymbol(ParentMenu(k))
          BY <5>2, TreeAssumption DEF IsChoice, IsSymbol
        <5>5. menu \in w.visible
          BY <3>3, <3>4, <3>5, <5>2, <5>3, <5>4 DEF MenusFollow
        <5> QED BY <1>1, <5>5
      <4>2. CASE ~ IsChoice(menu)
        BY <3>2, <3>3, <3>4, <3>5, <4>2 DEF Locations
      <4> QED BY <4>1, <4>2
    <3>7. PICK x \in Nodes(kconf) \cap w.visible : menu \in {x} \cup Above(x)
      BY <3>6
    <3>8. m \in {x} \cup Above(x)
      BY <3>7, TreeHolds
    <3>9. CASE m = x
      <4>1. m \in Bearers[kconf][m]
        BY <1>1, TreeType DEF Bearers
      <4> QED BY <3>7, <3>9, <4>1 DEF Appears
    <3>10. CASE m # x
      BY <3>7, <3>8, <3>10, AppearsAbove
    <3> QED BY <3>9, <3>10
  <2> QED BY <2>1, <2>2
<1>3. ParentMenu(m) \in Locations(ParentMenu(m))
  BY <1>1, ParentHolds, IsLocation
<1>4. m \in Listed(ParentMenu(m), w, all)
  BY <1>1, <1>2, <1>3, OrderHolds DEF Listed
<1>5. ~ Repeated(m, ParentMenu(m), Listed(ParentMenu(m), w, all))
  BY DEF Repeated
<1> QED BY <1>4, <1>5, ShownHolds

-----------------------------------------------------------------------------
(* The operations on the main display, for their types *)

(* A selected node that is seen has a row of the window. *)
LEMMA RowType ==
    ASSUME NEW s \in Displays
    PROVE  /\ Row(s) \in Int
           /\ \A h \in Nat : Seen(s, h) => Row(s) \in 0 .. h - 1
BY DEF Row, Displays, Seen, InView

(* The selected node is a node of the list. *)
LEMMA SelectedType ==
    ASSUME NEW s \in Displays, s.sel < Len(s.shown)
    PROVE  /\ Selected(s) \in Nodes(kconf) /\ Selected(s) \in ToSet(s.shown)
           /\ s.sel + 1 \in 1 .. Len(s.shown)
<1>1. s.shown \in Seq(Nodes(kconf)) /\ s.sel + 1 \in 1 .. Len(s.shown)
  BY DEF Displays
<1> QED BY <1>1 DEF Selected, ToSet

(* What _update_menu makes of a display: the new list, with the cursor on the
   node on which it was, if the list has it.                                  *)
LEMMA UpdateHolds ==
    ASSUME Static, NEW s \in Displays, s.sel < Len(s.shown), NEW w
    PROVE  /\ Whole(UpdateMenu(s, w))
           /\ Selected(s) \in ToSet(ShownNodes(s.cur, w, s.all)) =>
                \E t : /\ t = UpdateMenu(s, w) /\ t \in Displays
                       /\ t.cur = s.cur /\ t.rows = s.rows /\ t.all = s.all /\ t.lost = s.lost
                       /\ t.shown = ShownNodes(s.cur, w, s.all) /\ t.sel < Len(t.shown)
                       /\ Selected(t) = Selected(s)
                       /\ Seen(s, height) => Seen(t, height)
                       /\ Row(t) = Row(s) \/ t.scroll = 0
<1> DEFINE new == ShownNodes(s.cur, w, s.all)
           u == [s EXCEPT !.shown = new]
           v == Select(u, Selected(s))
           t == KeepRow(v, Row(s))
<1>1. new \in Seq(Nodes(kconf))
  BY ShownHolds DEF Static
<1>2. /\ u \in Displays /\ u.cur = s.cur /\ u.rows = s.rows /\ u.all = s.all
      /\ u.lost = s.lost /\ u.shown = new
  BY <1>1 DEF Displays
<1>3. t = UpdateMenu(s, w)
  BY DEF UpdateMenu
<1> HIDE DEF new, u
<1>4. Whole(v) /\ v \in Displays
  BY <1>2, SelectHolds DEF Static, Whole
<1> HIDE DEF v
<1>5. /\ Moved(v, t) /\ t.sel = v.sel /\ (Row(t) = Row(s) \/ t.scroll = 0)
      /\ Row(s) \in 0 .. height - 1 /\ v.sel < Len(v.shown) => Seen(t, height)
  BY <1>4, RowType, KeepRowMoves DEF Static
<1> HIDE DEF t
<1>6. Whole(t)
  BY <1>4, <1>5 DEF Whole, Moved
<1>7. ASSUME Selected(s) \in ToSet(new)
      PROVE  /\ t \in Displays
             /\ t.cur = s.cur /\ t.rows = s.rows /\ t.all = s.all /\ t.lost = s.lost
             /\ t.shown = new /\ t.sel < Len(t.shown)
             /\ Selected(t) = Selected(s)
             /\ Seen(s, height) => Seen(t, height)
  <2>1. Moved(u, v) /\ v.sel < Len(u.shown) /\ Selected(v) = Selected(s)
    BY <1>2, <1>7, SelectMoves DEF Static, v
  <2>2. /\ t.cur = s.cur /\ t.rows = s.rows /\ t.all = s.all /\ t.lost = s.lost
        /\ t.shown = new /\ t \in Displays /\ v.shown = new /\ t.sel < Len(t.shown)
    BY <1>2, <1>5, <2>1 DEF Moved
  <2>3. Selected(t) = Selected(s)
    BY <1>5, <2>1, <2>2 DEF Selected
  <2>4. Seen(s, height) => Seen(t, height)
    BY <1>2, <1>5, <2>1, <2>2, RowType DEF Static
  <2> QED BY <2>2, <2>3, <2>4
<1> QED BY <1>3, <1>5, <1>6, <1>7 DEF new

(* What turning show-all on or off makes of a display *)
LEMMA InsteadHolds ==
    ASSUME Static, NEW s \in Displays, NEW new \in Seq(Nodes(kconf)),
           ToSet(s.shown) \cap ToSet(new) # {}
    PROVE  \E t : /\ t = ShowInstead(s, new) /\ t \in Displays
                  /\ t.cur = s.cur /\ t.rows = s.rows /\ t.all = ~ s.all /\ t.lost = s.lost
                  /\ t.shown = new /\ t.sel < Len(t.shown)
                  /\ Seen(s, height) => Seen(t, height)
<1> DEFINE left == {j \in DOMAIN s.shown : s.shown[j] \in ToSet(new)}
           u == [s EXCEPT !.all = ~ @, !.shown = new]
           k == Nearest(s, left)
           v == Select(u, k)
           t == KeepRow(v, Row(s))
<1>1. left # {} /\ left \subseteq DOMAIN s.shown /\ DOMAIN s.shown = 1 .. Len(s.shown)
      /\ Len(s.shown) \in Nat
  BY DEF ToSet, Displays
<1>2. t = ShowInstead(s, new)
  BY <1>1 DEF ShowInstead
<1>3. k \in ToSet(new)
  <2> DEFINE before == {j \in left : j <= s.sel + 1}
  <2>1. before \in SUBSET (0 .. Len(s.shown)) /\ left \in SUBSET Nat
    BY <1>1
  <2>2. \A j \in left : s.shown[j] \in ToSet(new)
    OBVIOUS
  <2>3. k = s.shown[IF before # {} THEN Max(before) ELSE Min(left)]
    BY DEF Nearest
  <2>4. before \subseteq left
    OBVIOUS
  <2> HIDE DEF before, left, k
  <2>5. before # {} => Max(before) \in before
    BY <1>1, <2>1, MaxIsGreatest
  <2>6. Min(left) \in left
    BY <1>1, <2>1, MinIsLeast
  <2> QED BY <2>2, <2>3, <2>4, <2>5, <2>6
<1>4. /\ u \in Displays /\ u.cur = s.cur /\ u.rows = s.rows /\ u.all = ~ s.all
      /\ u.lost = s.lost /\ u.shown = new
  BY DEF Displays
<1> HIDE DEF u, k, left
<1>5. Moved(u, v) /\ v.sel < Len(u.shown)
  BY <1>3, <1>4, SelectMoves DEF Static
<1>6. v \in Displays /\ v.shown = new
  BY <1>4, <1>5 DEF Moved
<1> HIDE DEF v
<1>7. /\ Moved(v, t) /\ t.sel = v.sel
      /\ Row(s) \in 0 .. height - 1 /\ v.sel < Len(v.shown) => Seen(t, height)
  BY <1>6, RowType, KeepRowMoves DEF Static
<1> HIDE DEF t
<1>8. /\ t \in Displays
      /\ t.cur = s.cur /\ t.rows = s.rows /\ t.all = ~ s.all /\ t.lost = s.lost
      /\ t.shown = new /\ t.sel < Len(t.shown)
  BY <1>4, <1>5, <1>6, <1>7 DEF Moved
<1>9. Seen(s, height) => Seen(t, height)
  BY <1>4, <1>5, <1>6, <1>7, RowType DEF Static
<1> QED BY <1>2, <1>8, <1>9

(* ... and where nothing of the list is left *)
LEMMA InsteadStays ==
    ASSUME NEW s \in Displays, NEW new, ToSet(s.shown) \cap ToSet(new) = {}
    PROVE  ShowInstead(s, new) = [s EXCEPT !.all = TRUE]
<1>1. {j \in DOMAIN s.shown : s.shown[j] \in ToSet(new)} = {}
  BY DEF ToSet
<1> QED BY <1>1 DEF ShowInstead

(* With show-all turned, the cursor is on a node or no node was found. *)
LEMMA ToggleType ==
    ASSUME Static, NEW s \in Displays, Whole(s), NEW w
    PROVE  Whole(ToggleShowAll(s, w))
<1> DEFINE new == ShownNodes(s.cur, w, ~ s.all)
<1>1. new \in Seq(Nodes(kconf)) /\ ToggleShowAll(s, w) = ShowInstead(s, new)
  BY ShownHolds DEF Static, ToggleShowAll
<1> HIDE DEF new
<1>2. CASE ToSet(s.shown) \cap ToSet(new) # {}
  BY <1>1, <1>2, InsteadHolds DEF Whole
<1>3. CASE ToSet(s.shown) \cap ToSet(new) = {}
  <2>1. Whole([s EXCEPT !.all = TRUE])
    BY DEF Whole, Displays
  <2> QED BY <1>1, <1>3, <2>1, InsteadStays
<1> QED BY <1>2, <1>3

(* What a menu that is entered looks like. *)
LEMMA EnterHolds ==
    ASSUME Static, main \in Displays, NEW menu \in Nodes(kconf),
           ShownNodes(menu, now, main.all) # <<>>, EnterMenu(menu)
    PROVE  /\ main' \in Displays /\ main'.cur = menu /\ main'.all = main.all
           /\ main'.shown = ShownNodes(menu, now, main.all) /\ main'.lost = main.lost
           /\ main'.rows = Append(main.rows, Row(main))
           /\ main'.sel < Len(main'.shown) /\ Seen(main', height)
<1> DEFINE new == ShownNodes(menu, now, main.all)
           u == [main EXCEPT !.cur = menu, !.shown = new,
                             !.sel = 0, !.scroll = 0, !.rows = Append(@, Row(main))]
           t == AtSelection(u, now, height)
<1>1. new \in Seq(Nodes(kconf)) /\ new # <<>>
  BY ShownHolds DEF Static
<1>2. main' = t
  BY DEF EnterMenu
<1> HIDE DEF new
<1>3. Append(main.rows, Row(main)) \in Seq(Int) /\ menu \in 0 .. Len(Tree[kconf])
  BY RowType DEF Displays, Nodes
<1>4. /\ u \in Displays /\ u.cur = menu /\ u.all = main.all /\ u.shown = new
      /\ u.lost = main.lost /\ u.rows = Append(main.rows, Row(main)) /\ u.sel = 0 /\ u.scroll = 0
  BY <1>1, <1>3 DEF Displays
<1> HIDE DEF u
<1>5. Len(new) \in Nat /\ 0 < Len(new)
  BY <1>1
<1>6. u.sel < Len(u.shown) /\ Seen(u, height)
  BY <1>4, <1>5 DEF Seen, InView, Static
<1>7. /\ Moved(u, t) /\ Seen(t, height) /\ t.sel < Len(u.shown)
  BY <1>4, <1>6, AtSelectionMoves DEF Static
<1> HIDE DEF t
<1>8. /\ t \in Displays /\ t.cur = menu /\ t.all = main.all /\ t.shown = new
      /\ t.lost = main.lost /\ t.rows = Append(main.rows, Row(main))
  BY <1>4, <1>7 DEF Moved
<1> QED BY <1>2, <1>4, <1>7, <1>8 DEF new

LEMMA LastOf ==
    ASSUME NEW T, NEW list \in Seq(T), list # <<>>
    PROVE  /\ Last(list) \in T /\ Front(list) \in Seq(T) /\ Len(Front(list)) = Len(list) - 1
           /\ \A j \in 1 .. Len(list) - 1 : Front(list)[j] = list[j]
           /\ Last(list) = list[Len(list)] /\ Len(list) \in Nat \ {0}
<1> DEFINE n == Len(list)
<1>1. n \in Nat \ {0} /\ \A j \in 1 .. n : list[j] \in T
  OBVIOUS
<1>2. Last(list) = list[n] /\ Front(list) = SubSeq(list, 1, n - 1)
  BY DEF Last, Front
<1> HIDE DEF n
<1>3. /\ SubSeq(list, 1, n - 1) \in Seq(T)
      /\ Len(SubSeq(list, 1, n - 1)) = IF 1 <= n - 1 THEN n - 1 - 1 + 1 ELSE 0
      /\ \A j \in 1 .. n - 1 - 1 + 1 : SubSeq(list, 1, n - 1)[j] = list[1 + j - 1]
  <2>1. 1 \in Int /\ n - 1 \in Int /\ \A j \in 1 .. n - 1 : list[j] \in T
    BY <1>1
  <2> QED BY <2>1, SubSeqProperties
<1>4. (IF 1 <= n - 1 THEN n - 1 - 1 + 1 ELSE 0) = n - 1 /\ n - 1 - 1 + 1 = n - 1
  BY <1>1
<1>5. \A j \in 1 .. n - 1 : SubSeq(list, 1, n - 1)[j] = list[j]
  BY <1>1, <1>3, <1>4
<1> QED BY <1>1, <1>2, <1>3, <1>4, <1>5 DEF n

(* Where a menu is left for, if the node of the menu is found there. *)
LEMMA LeaveHolds ==
    ASSUME Static, NEW s \in Displays, s.cur # 0, NEW w, LeaveMenu(s, w)
    PROVE  /\ Whole(main')
           /\ s.cur \in ToSet(ShownNodes(ParentMenu(s.cur), w, s.all)) =>
                /\ main' \in Displays /\ main'.cur = ParentMenu(s.cur) /\ main'.all = s.all
                /\ main'.shown = ShownNodes(ParentMenu(s.cur), w, s.all) /\ main'.lost = s.lost
                /\ main'.rows = IF s.rows = <<>> THEN <<>> ELSE Front(s.rows)
                /\ main'.sel < Len(main'.shown)
                /\ s.rows \in Seq(Nat) => Seen(main', height)
<1> DEFINE menu == ParentMenu(s.cur)
           new == ShownNodes(menu, w, s.all)
           u == [s EXCEPT !.cur = menu, !.shown = new]
           v == Select(u, s.cur)
           back == [v EXCEPT !.rows = Front(@)]
           row == Min({Last(s.rows), height - 1})
           t == IF s.rows = <<>> THEN Center(v, height) ELSE KeepRow(back, row)
<1>1. new \in Seq(Nodes(kconf)) /\ menu \in 0 .. Len(Tree[kconf])
  <2>1. s.cur \in Nodes(kconf)
    BY DEF Displays, Nodes
  <2> QED BY <2>1, ShownHolds, ParentHolds DEF Static
<1> HIDE DEF menu, new
<1>2. /\ u \in Displays /\ u.cur = menu /\ u.all = s.all /\ u.shown = new
      /\ u.lost = s.lost /\ u.rows = s.rows
  BY <1>1 DEF Displays
<1>3. \E out \in {v} : main' = IF s.rows = <<>> THEN Center(out, height)
                    ELSE KeepRow([out EXCEPT !.rows = Front(@)], row)
  BY DEF LeaveMenu, menu, new
<1>4. main' = t
  BY <1>3
<1> HIDE DEF u
<1>5. Whole(v) /\ v \in Displays /\ v.rows = s.rows
  <2>1. Whole(v) /\ v \in Displays
    BY <1>2, SelectHolds DEF Whole, Static
  <2>2. v.rows = u.rows
    BY <1>2 DEF Select, Displays
  <2> QED BY <1>2, <2>1, <2>2
<1>6. s.cur \in ToSet(new) => Moved(u, v) /\ v.sel < Len(u.shown)
  BY <1>2, SelectMoves DEF Static
<1> HIDE DEF v
<1>7. s.rows = <<>> => /\ Moved(v, t) /\ t.sel = v.sel
                       /\ v.sel < Len(v.shown) => Seen(t, height)
  BY <1>5, CenterMoves DEF Static
<1>8. CASE s.rows = <<>>
  <2> HIDE DEF t
  <2>1. Whole(t)
    BY <1>5, <1>7, <1>8 DEF Whole, Moved
  <2>2. s.cur \in ToSet(new) =>
            /\ t \in Displays /\ t.cur = menu /\ t.all = s.all /\ t.shown = new
            /\ t.lost = s.lost /\ t.rows = <<>> /\ t.sel < Len(t.shown) /\ Seen(t, height)
    BY <1>2, <1>6, <1>7, <1>8 DEF Moved
  <2> QED BY <1>4, <1>8, <2>1, <2>2 DEF new, menu
<1>9. CASE s.rows # <<>>
  <2>1. /\ Front(s.rows) \in Seq(Int) /\ Last(s.rows) \in Int
        /\ s.rows \in Seq(Nat) => Last(s.rows) \in Nat
    BY <1>9, LastOf DEF Displays
  <2>2. row \in Int /\ (s.rows \in Seq(Nat) => row \in 0 .. height - 1)
    BY <2>1, MinOfTwo DEF Static
  <2>3. /\ back \in Displays /\ back.cur = v.cur /\ back.all = v.all /\ back.shown = v.shown
        /\ back.lost = v.lost /\ back.rows = Front(s.rows) /\ back.sel = v.sel
    BY <1>5, <2>1 DEF Displays
  <2> HIDE DEF back, row
  <2>4. t = KeepRow(back, row)
    BY <1>9
  <2>5. /\ Moved(back, t) /\ t.sel = back.sel
        /\ row \in 0 .. height - 1 /\ back.sel < Len(back.shown) => Seen(t, height)
    BY <2>2, <2>3, <2>4, KeepRowMoves DEF Static
  <2> HIDE DEF t
  <2>6. Whole(t)
    BY <1>5, <2>3, <2>5 DEF Whole, Moved
  <2>7. s.cur \in ToSet(new) =>
            /\ t \in Displays /\ t.cur = menu /\ t.all = s.all /\ t.shown = new
            /\ t.lost = s.lost /\ t.rows = Front(s.rows) /\ t.sel < Len(t.shown)
            /\ s.rows \in Seq(Nat) => Seen(t, height)
    BY <1>2, <1>6, <2>2, <2>3, <2>5 DEF Moved
  <2> QED BY <1>4, <1>9, <2>6, <2>7 DEF new, menu
<1> QED BY <1>8, <1>9

LEMMA LeaveType ==
    ASSUME Static, NEW s, Whole(s), NEW w, LeaveMenu(s, w)
    PROVE  Whole(main')
<1>1. CASE s.cur = 0
  BY <1>1 DEF LeaveMenu
<1>2. CASE s.cur # 0
  BY <1>2, LeaveHolds DEF Whole
<1> QED BY <1>1, <1>2

-----------------------------------------------------------------------------
(* A step does not change the tree *)

(* The tree stays, so that what is said of it can be said of the next state. *)
LEMMA SameTree ==
    ASSUME kconf' = kconf
    PROVE  /\ \A menu, w, all : ShownNodes(menu, w, all)' = ShownNodes(menu, w, all)
           /\ \A k : Above(k)' = Above(k) /\ Node(k)' = Node(k)
           /\ \A k : IsMenu(k)' = IsMenu(k) /\ ParentMenu(k)' = ParentMenu(k)
           /\ Displays' = Displays
<1>1. \A menu, w, all : ShownNodes(menu, w, all)' = ShownNodes(menu, w, all)
  BY DEF ShownNodes, Listed, Locations, IsChoice, Node, ParentMenu, Appears, Order, Repeated,
         IsSymbol
<1>2. \A k : Above(k)' = Above(k) /\ Node(k)' = Node(k)
  BY DEF Above, Node
<1>3. \A k : IsMenu(k)' = IsMenu(k) /\ ParentMenu(k)' = ParentMenu(k)
  BY DEF IsMenu, Node, ParentMenu
<1>4. Displays' = Displays
  BY DEF Displays, Nodes
<1> QED BY <1>1, <1>2, <1>3, <1>4

-----------------------------------------------------------------------------
(* Lists without repetition, and depths *)

(* PlainChoices, of the Kconfig on the screen. *)
LEMMA PlainHere ==
    ASSUME kconf \in Kconfigs, PlainChoices, NEW k \in Nodes(kconf), NEW q \in Nodes(kconf),
           ParentMenu(k) # 0, ParentMenu(k) # q, Node(q).item \in ChoiceSet,
           Node(ParentMenu(k)).item = Node(q).item
    PROVE  /\ ~ Node(k).is_menuconfig
           /\ Node(k).item \in Symbols =>
                 \A j \in Nodes(kconf) \ {k} : Node(j).item # Node(k).item
<1>1. DOMAIN Tree[kconf] = Nodes(kconf)
  BY TreeType
<1> QED BY <1>1 DEF PlainChoices, ParentMenu, Node

(* No choice at several locations repeats a node: a list has what is listed. *)
LEMMA ListedShown ==
    ASSUME kconf \in Kconfigs, PlainChoices, NEW menu \in 0 .. Len(Tree[kconf]),
           NEW w, NEW all
    PROVE  ToSet(ShownNodes(menu, w, all)) = Listed(menu, w, all)
<1> DEFINE L == Listed(menu, w, all)
<1>1. ASSUME NEW k \in L, Repeated(k, menu, L) PROVE FALSE
  <2>1. k \in Nodes(kconf) /\ ParentMenu(k) \in Locations(menu)
    BY <1>1, OrderHolds DEF Listed
  <2>2. PICK j \in L \ {k} : Node(j).item = Node(k).item
    BY <1>1 DEF Repeated
  <2>3. j \in Nodes(kconf) /\ j # k
    BY <2>2, OrderHolds DEF Listed
  <2>4. IsSymbol(k) /\ ParentMenu(k) # menu
    BY <1>1 DEF Repeated
  <2>5. /\ IsChoice(menu) /\ ParentMenu(k) \in Nodes(kconf)
        /\ Node(ParentMenu(k)).item = Node(menu).item
    BY <2>1, <2>4, OrderHolds DEF Locations
  <2>6. menu \in Nodes(kconf) /\ Node(menu).item \in ChoiceSet /\ ParentMenu(k) # 0
    BY <2>5 DEF IsChoice, Nodes
  <2> QED BY <2>1, <2>2, <2>3, <2>4, <2>5, <2>6, PlainHere DEF IsSymbol
<1> QED BY <1>1, ShownHolds

(* ... and a menu in it lies in the menu that is shown, not in another
   location of it.                                                      *)
LEMMA MenuListed ==
    ASSUME kconf \in Kconfigs, PlainChoices, NEW menu \in 0 .. Len(Tree[kconf]),
           NEW w, NEW all, NEW k \in Listed(menu, w, all), IsMenu(k)
    PROVE  ParentMenu(k) = menu
<1>1. k \in Nodes(kconf) /\ ParentMenu(k) \in Locations(menu) /\ k # 0
  BY OrderHolds DEF Listed, Nodes
<1>2. ASSUME ParentMenu(k) # menu PROVE FALSE
  <2>1. /\ IsChoice(menu) /\ ParentMenu(k) \in Nodes(kconf)
        /\ Node(ParentMenu(k)).item = Node(menu).item
    BY <1>1, <1>2, OrderHolds DEF Locations
  <2>2. menu \in Nodes(kconf) /\ Node(menu).item \in ChoiceSet /\ ParentMenu(k) # 0
    BY <2>1 DEF IsChoice, Nodes
  <2> QED BY <1>1, <1>2, <2>1, <2>2, PlainHere DEF IsMenu
<1> QED BY <1>2

(* The menus above a node *)
Depth(k) == Cardinality({m \in Above(k) : IsMenu(m)})

(* A node is one menu deeper than its parent menu. *)
LEMMA DepthHolds ==
    ASSUME kconf \in Kconfigs
    PROVE  /\ \A k \in 0 .. Len(Tree[kconf]) : Depth(k) \in Nat
           /\ \A k \in Nodes(kconf) : Depth(k) = Depth(ParentMenu(k)) + 1
<1> DEFINE Menus(k) == {m \in Above(k) : IsMenu(m)}
<1>1. ASSUME NEW k \in 0 .. Len(Tree[kconf])
      PROVE  IsFiniteSet(Menus(k)) /\ Depth(k) \in Nat
  <2>1. Menus(k) \in SUBSET (0 .. k - 1) /\ k \in Int
    <3>1. k = 0 \/ k \in Nodes(kconf)
      BY DEF Nodes
    <3> QED BY <3>1, TreeHolds
  <2>2. IsFiniteSet(0 .. k - 1)
    BY <2>1, FS_Interval
  <2>3. IsFiniteSet(Menus(k))
    BY <2>1, <2>2, FS_Subset
  <2> QED BY <2>3, FS_CardinalityType DEF Depth
<1>2. ASSUME NEW k \in Nodes(kconf) PROVE Depth(k) = Depth(ParentMenu(k)) + 1
  <2> DEFINE p == ParentMenu(k)
  <2>1. /\ p \in Above(k) /\ IsMenu(p) /\ p \in 0 .. Len(Tree[kconf]) /\ p \in Nat
        /\ \A a \in Above(k) : a \in Nat
        /\ \A a \in Above(k) : IsMenu(a) => a <= p
    BY ParentHolds, TreeHolds
  <2>2. Above(p) \subseteq Above(k) /\ p \notin Above(p)
    <3>1. p = 0 \/ p \in Nodes(kconf)
      BY <2>1 DEF Nodes
    <3>2. p \notin Above(p)
      BY <3>1, TreeHolds
    <3> QED BY <2>1, <3>2, TreeHolds
  <2> HIDE DEF p
  <2>3. ASSUME NEW a \in Menus(k), a # p PROVE a \in Menus(p)
    <3>1. a \in Above(k) /\ IsMenu(a) /\ a < p
      BY <2>1, <2>3
    <3> QED BY <2>1, <3>1, TreeHolds
  <2>4. Menus(k) = Menus(p) \cup {p} /\ p \notin Menus(p)
    BY <2>1, <2>2, <2>3
  <2>5. IsFiniteSet(Menus(p)) /\ Depth(p) = Cardinality(Menus(p))
        /\ Depth(k) = Cardinality(Menus(k))
    BY <1>1, <2>1 DEF Depth
  <2> HIDE DEF Menus
  <2>6. Depth(k) = Depth(p) + 1
    BY <2>4, <2>5, FS_AddElement
  <2> QED BY <2>6 DEF p
<1> QED BY <1>1, <1>2

-----------------------------------------------------------------------------
(* The main display as it should be: current, with a node selected, and with
   no more rows remembered than there are menus above.                        *)

Fine(s, w) ==
    /\ Whole(s) /\ ~ s.lost /\ IsMenu(s.cur) /\ s.shown = ShownNodes(s.cur, w, s.all)
    /\ s.rows \in Seq(Nat) /\ Len(s.rows) <= Depth(s.cur)

(* What a display as it should be gives the provers. *)
LEMMA FineType ==
    ASSUME NEW s, NEW w, Fine(s, w)
    PROVE  /\ s \in Displays /\ s.sel \in Nat /\ s.sel < Len(s.shown) /\ s.shown # <<>>
           /\ s.cur \in 0 .. Len(Tree[kconf]) /\ s.shown \in Seq(Nodes(kconf))
           /\ s.all \in BOOLEAN
BY DEF Fine, Whole, Displays

(* A cursor that moves in its list leaves a display as it should be. *)
LEMMA FineMoved ==
    ASSUME NEW s, NEW w, Fine(s, w), NEW t, Moved(s, t), t.sel < Len(s.shown)
    PROVE  Fine(t, w)
BY DEF Fine, Moved, Whole

(* A node that still appears keeps the cursor. *)
LEMMA UpdateFine ==
    ASSUME Static, PlainChoices, NEW s, NEW w, Fine(s, w), NEW v,
           Appears(Selected(s), v, s.all)
    PROVE  \E t : /\ t = UpdateMenu(s, v) /\ Fine(t, v) /\ t.cur = s.cur /\ t.all = s.all
                  /\ Selected(t) = Selected(s)
                  /\ Seen(s, height) => Seen(t, height)
                  /\ Row(t) = Row(s) \/ t.scroll = 0
<1>1. /\ s \in Displays /\ s.sel < Len(s.shown) /\ s.cur \in 0 .. Len(Tree[kconf])
      /\ kconf \in Kconfigs
  BY FineType DEF Static
<1>2. Selected(s) \in ToSet(ShownNodes(s.cur, v, s.all))
  <2>1. Selected(s) \in ToSet(ShownNodes(s.cur, w, s.all))
    BY <1>1, SelectedType DEF Fine
  <2>2. Selected(s) \in Listed(s.cur, w, s.all)
    BY <1>1, <2>1, ListedShown
  <2>3. Selected(s) \in Listed(s.cur, v, s.all)
    BY <2>2 DEF Listed
  <2> QED BY <1>1, <2>3, ListedShown
<1>3. PICK t : /\ t = UpdateMenu(s, v) /\ t \in Displays
               /\ t.cur = s.cur /\ t.rows = s.rows /\ t.all = s.all /\ t.lost = s.lost
               /\ t.shown = ShownNodes(s.cur, v, s.all) /\ t.sel < Len(t.shown)
               /\ Selected(t) = Selected(s)
               /\ Seen(s, height) => Seen(t, height)
               /\ Row(t) = Row(s) \/ t.scroll = 0
  BY <1>1, <1>2, UpdateHolds
<1>4. Fine(t, v)
  BY <1>3 DEF Fine, Whole
<1> QED BY <1>3, <1>4

(* Show-all is turned on without losing a node, and not off where nothing
   would be left.                                                          *)
LEMMA ToggleFine ==
    ASSUME Static, PlainChoices, NEW s, NEW w, Fine(s, w)
    PROVE  \E t : /\ t = ToggleShowAll(s, w) /\ Fine(t, w) /\ t.cur = s.cur
                  /\ Seen(s, height) => Seen(t, height)
<1> DEFINE new == ShownNodes(s.cur, w, ~ s.all)
<1>1. /\ s \in Displays /\ s.sel < Len(s.shown) /\ s.cur \in 0 .. Len(Tree[kconf])
      /\ kconf \in Kconfigs /\ s.all \in BOOLEAN
  BY FineType DEF Static
<1>2. new \in Seq(Nodes(kconf)) /\ ToggleShowAll(s, w) = ShowInstead(s, new)
  BY <1>1, ShownHolds DEF ToggleShowAll
<1>3. CASE ToSet(s.shown) \cap ToSet(new) # {}
  <2> HIDE DEF new
  <2>1. PICK t : /\ t = ShowInstead(s, new) /\ t \in Displays
                 /\ t.cur = s.cur /\ t.rows = s.rows /\ t.all = ~ s.all /\ t.lost = s.lost
                 /\ t.shown = new /\ t.sel < Len(t.shown)
                 /\ Seen(s, height) => Seen(t, height)
    BY <1>1, <1>2, <1>3, InsteadHolds
  <2>2. t.shown = ShownNodes(t.cur, w, t.all)
    BY <2>1 DEF new
  <2>3. Fine(t, w)
    BY <2>1, <2>2 DEF Fine, Whole
  <2> QED BY <1>2, <2>1, <2>3
<1>4. CASE ToSet(s.shown) \cap ToSet(new) = {}
  <2>1. s.all = TRUE
    <3>1. ASSUME s.all = FALSE PROVE FALSE
      <4>1. Selected(s) \in ToSet(s.shown) /\ Selected(s) \in ToSet(ShownNodes(s.cur, w, FALSE))
        BY <1>1, <3>1, SelectedType DEF Fine
      <4>2. Selected(s) \in Listed(s.cur, w, FALSE)
        BY <1>1, <4>1, ListedShown
      <4>3. Selected(s) \in Listed(s.cur, w, TRUE)
        BY <4>2 DEF Listed, Appears
      <4>4. Selected(s) \in ToSet(new)
        BY <1>1, <3>1, <4>3, ListedShown
      <4> QED BY <1>4, <4>1, <4>4
    <3> QED BY <1>1, <3>1
  <2>2. [s EXCEPT !.all = TRUE] = s
    BY <1>1, <2>1 DEF Displays
  <2>3. ToggleShowAll(s, w) = s
    BY <1>1, <1>2, <1>4, <2>2, InsteadStays
  <2> QED BY <2>3
<1> QED BY <1>3, <1>4

(* A menu that is entered shows what it should. *)
LEMMA EnterFine ==
    ASSUME Static, PlainChoices, Fine(main, now), Seen(main, height),
           IsMenu(Selected(main)), ShownNodes(Selected(main), now, main.all) # <<>>,
           EnterMenu(Selected(main))
    PROVE  Fine(main', now) /\ Seen(main', height)
<1> DEFINE k == Selected(main)
<1>1. /\ main \in Displays /\ main.sel < Len(main.shown) /\ main.cur \in 0 .. Len(Tree[kconf])
      /\ kconf \in Kconfigs
  BY FineType DEF Static
<1>2. k \in Nodes(kconf) /\ k \in ToSet(main.shown)
  BY <1>1, SelectedType
<1>3. ParentMenu(k) = main.cur
  <2>1. k \in Listed(main.cur, now, main.all)
    BY <1>1, <1>2, ListedShown DEF Fine
  <2> QED BY <1>1, <2>1, MenuListed
<1>4. /\ main' \in Displays /\ main'.cur = k /\ main'.all = main.all
      /\ main'.shown = ShownNodes(k, now, main.all) /\ main'.lost = main.lost
      /\ main'.rows = Append(main.rows, Row(main))
      /\ main'.sel < Len(main'.shown) /\ Seen(main', height)
  BY <1>1, <1>2, EnterHolds
<1> HIDE DEF k
<1>5. Depth(k) = Depth(main.cur) + 1 /\ Depth(main.cur) \in Nat
  BY <1>1, <1>2, <1>3, DepthHolds
<1>6. main'.rows \in Seq(Nat) /\ Len(main'.rows) <= Depth(k)
  <2>1. Row(main) \in Nat
    <3>1. height \in Nat
      BY DEF Static
    <3> QED BY <1>1, <3>1, RowType
  <2>2. main.rows \in Seq(Nat) /\ Len(main.rows) <= Depth(main.cur)
    BY DEF Fine
  <2> QED BY <1>4, <1>5, <2>1, <2>2
<1> QED BY <1>4, <1>6 DEF Fine, Whole, k

(* The way out is there, as nothing is shown in a menu that is not. *)
LEMMA LeaveFine ==
    ASSUME Static, NEW s, NEW w, Fine(s, w), Seen(s, height),
           MenusFollow(w), LeaveMenu(s, w)
    PROVE  Fine(main', w) /\ Seen(main', height) /\ (main'.cur = s.cur => main' = s)
<1>1. /\ s \in Displays /\ s.cur \in 0 .. Len(Tree[kconf]) /\ s.shown # <<>>
      /\ kconf \in Kconfigs
  BY FineType DEF Static
<1>2. CASE s.cur = 0
  BY <1>2 DEF LeaveMenu
<1>3. CASE s.cur # 0
  <2>1. s.cur \in Nodes(kconf)
    BY <1>1, <1>3 DEF Nodes
  <2>2. s.cur \in ToSet(ShownNodes(ParentMenu(s.cur), w, s.all))
    <3>1. s.cur \in ({s.cur} \cup Above(s.cur)) \ {0} /\ ShownNodes(s.cur, w, s.all) # <<>>
      BY <1>1, <1>3 DEF Fine
    <3> QED BY <1>1, <3>1, WayUp
  <2>3. s.rows \in Seq(Nat) /\ Len(s.rows) <= Depth(s.cur) /\ s.lost = FALSE
    BY <1>1 DEF Fine, Displays
  <2>4. /\ main' \in Displays /\ main'.cur = ParentMenu(s.cur) /\ main'.all = s.all
        /\ main'.shown = ShownNodes(ParentMenu(s.cur), w, s.all) /\ main'.lost = s.lost
        /\ main'.rows = IF s.rows = <<>> THEN <<>> ELSE Front(s.rows)
        /\ main'.sel < Len(main'.shown) /\ Seen(main', height)
    BY <1>1, <1>3, <2>2, <2>3, LeaveHolds
  <2>5. /\ IsMenu(ParentMenu(s.cur)) /\ ParentMenu(s.cur) < s.cur
        /\ ParentMenu(s.cur) \in 0 .. Len(Tree[kconf])
    BY <1>1, <2>1, ParentHolds
  <2>6. Depth(s.cur) = Depth(ParentMenu(s.cur)) + 1 /\ Depth(ParentMenu(s.cur)) \in Nat
    BY <1>1, <2>1, <2>5, DepthHolds
  <2>7. main'.rows \in Seq(Nat) /\ Len(main'.rows) <= Depth(ParentMenu(s.cur))
    <3>1. CASE s.rows = <<>>
      BY <2>4, <2>6, <3>1
    <3>2. CASE s.rows # <<>>
      <4>1. Front(s.rows) \in Seq(Nat) /\ Len(Front(s.rows)) = Len(s.rows) - 1
        BY <2>3, <3>2, LastOf
      <4> QED BY <2>3, <2>4, <2>6, <3>2, <4>1
    <3> QED BY <3>1, <3>2
  <2>8. main'.cur # s.cur
    BY <1>1, <2>4, <2>5
  <2> QED BY <2>3, <2>4, <2>5, <2>7, <2>8 DEF Fine, Whole
<1> QED BY <1>2, <1>3

-----------------------------------------------------------------------------
(* Jumping to a match *)

(* The node that a jump selects lies in the menu that it opens. *)
LEMMA JumpsThere ==
    ASSUME kconf \in Kconfigs, NEW k \in Nodes(kconf),
           NEW menu, menu = IF JumpsInto(k) THEN k ELSE ParentMenu(k),
           NEW to, to = IF JumpsInto(k) THEN Min(Children(k)) ELSE k
    PROVE  /\ menu \in 0 .. Len(Tree[kconf]) /\ IsMenu(menu)
           /\ to \in Nodes(kconf) /\ ParentMenu(to) = menu
           /\ \A w : to \in ToSet(ShownNodes(menu, w, TRUE))
<1>1. /\ menu \in 0 .. Len(Tree[kconf]) /\ IsMenu(menu)
      /\ to \in Nodes(kconf) /\ ParentMenu(to) = menu
  <2>1. CASE JumpsInto(k)
    <3>1. Children(k) # {} /\ Children(k) \subseteq Nodes(kconf) /\ Children(k) \in SUBSET Nat
      BY <2>1, OrderHolds DEF JumpsInto, Children, Nodes
    <3>2. to \in Children(k)
      BY <2>1, <3>1, MinIsLeast
    <3>3. to \in Nodes(kconf) /\ Node(to).parent = k
      BY <3>1, <3>2 DEF Children
    <3>4. IsMenu(k)
      BY <2>1, TreeType, TreeAssumption DEF JumpsInto, IsMenu, IsChoice, Node
    <3>5. k \in Above(to) /\ Above(to) = {k} \cup Above(k)
      BY <3>3, AncestorsOf DEF Above, Node
    <3>6. ParentMenu(to) \in Above(to) /\ k <= ParentMenu(to) /\ k \in Nat
      BY <3>3, <3>4, <3>5, ParentHolds, TreeHolds
    <3>7. ParentMenu(to) = k
      <4>1. \A a \in Above(k) : a \in 0 .. k - 1
        BY TreeHolds
      <4>2. ASSUME ParentMenu(to) \in Above(k) PROVE FALSE
        <5>1. ParentMenu(to) \in 0 .. k - 1
          BY <4>1, <4>2
        <5> QED BY <3>6, <5>1
      <4> QED BY <3>5, <3>6, <4>2
    <3>8. k \in 0 .. Len(Tree[kconf])
      BY DEF Nodes
    <3> QED BY <2>1, <3>3, <3>4, <3>7, <3>8
  <2>2. CASE ~ JumpsInto(k)
    BY <2>2, ParentHolds
  <2> QED BY <2>1, <2>2
<1>2. ASSUME NEW w PROVE to \in ToSet(ShownNodes(menu, w, TRUE))
  <2>1. to \in Listed(menu, w, TRUE)
    BY <1>1, IsLocation, OrderHolds DEF Listed, Appears
  <2>2. ~ Repeated(to, menu, Listed(menu, w, TRUE))
    BY <1>1 DEF Repeated
  <2> QED BY <2>1, <2>2, ShownHolds
<1> QED BY <1>1, <1>2

(* Show-all does not lose its way in a display without an error. *)
LEMMA ToggleWhole ==
    ASSUME Static, NEW s, Whole(s), ~ s.lost, NEW w
    PROVE  Whole(ToggleShowAll(s, w)) /\ ~ ToggleShowAll(s, w).lost
<1> DEFINE new == ShownNodes(s.cur, w, ~ s.all)
<1>1. new \in Seq(Nodes(kconf)) /\ ToggleShowAll(s, w) = ShowInstead(s, new) /\ s \in Displays
  BY ShownHolds DEF Static, ToggleShowAll, Whole
<1> HIDE DEF new
<1>2. CASE ToSet(s.shown) \cap ToSet(new) # {}
  BY <1>1, <1>2, InsteadHolds DEF Whole
<1>3. CASE ToSet(s.shown) \cap ToSet(new) = {}
  <2>1. Whole([s EXCEPT !.all = TRUE]) /\ ~ [s EXCEPT !.all = TRUE].lost
    BY DEF Whole, Displays
  <2> QED BY <1>1, <1>3, <2>1, InsteadStays
<1> QED BY <1>2, <1>3

(* A jump ends on a display without an error, and one as it should be. *)
LEMMA JumpHolds ==
    ASSUME Static, Whole(main), ~ main.lost, NEW k \in Nodes(kconf), JumpTo(k)
    PROVE  /\ Whole(main') /\ ~ main'.lost /\ dialogs' = <<>>
           /\ height' = MainHeight(terminal, show_help)
           /\ UNCHANGED <<config, show_help, terminal>>
           /\ PlainChoices => Fine(main', now) /\ Seen(main', height')
<1> DEFINE menu == IF JumpsInto(k) THEN k ELSE ParentMenu(k)
           to == IF JumpsInto(k) THEN Min(Children(k)) ELSE k
           all == main.all \/ to \notin ToSet(ShownNodes(menu, now, main.all))
           shown == ShownNodes(menu, now, all)
           u == [Forget(main) EXCEPT !.cur = menu, !.all = all, !.shown = shown]
           there == Select(u, to)
           back == IF JumpsInto(k) /\ all # main.all THEN ToggleShowAll(there, now) ELSE there
           s == Center(back, height)
           at == IF JumpsInto(k) THEN AtSelection(s, now, height) ELSE s
<1>1. BackTo(<<>>, at)
  BY DEF JumpTo
<1>2. /\ menu \in 0 .. Len(Tree[kconf]) /\ IsMenu(menu) /\ kconf \in Kconfigs
      /\ to \in ToSet(ShownNodes(menu, now, TRUE)) /\ main \in Displays
  BY JumpsThere DEF Static, Whole
<1> HIDE DEF menu, to
<1>3. all \in BOOLEAN /\ to \in ToSet(shown)
  <2>1. main.all \in BOOLEAN
    BY <1>2 DEF Displays
  <2>2. CASE all = TRUE
    BY <1>2, <2>2
  <2>3. CASE all = FALSE
    <3>1. main.all = FALSE /\ to \in ToSet(ShownNodes(menu, now, main.all))
      BY <2>1, <2>3
    <3> QED BY <2>3, <3>1
  <2> QED BY <2>1, <2>2, <2>3
<1>4. shown = ShownNodes(menu, now, all) /\ shown \in Seq(Nodes(kconf))
  BY <1>2, ShownHolds
<1> HIDE DEF all, shown
<1>5. /\ u \in Displays /\ u.cur = menu /\ u.all = all /\ u.shown = shown /\ u.rows = <<>>
      /\ u.lost = FALSE
  <2> DEFINE f == Forget(main)
  <2>1. f \in Displays /\ f.rows = <<>> /\ f.lost = FALSE
    <3>1. main.lost = FALSE
      BY <1>2 DEF Displays
    <3>2. <<>> \in Seq(Int)
      OBVIOUS
    <3>3. f \in Displays
      BY <1>2, <3>2 DEF Displays, Forget
    <3> QED BY <1>2, <3>1, <3>3 DEF Displays, Forget
  <2>2. u = [f EXCEPT !.cur = menu, !.all = all, !.shown = shown]
    OBVIOUS
  <2> HIDE DEF f, u
  <2> QED BY <1>2, <1>3, <1>4, <2>1, <2>2 DEF Displays
<1> HIDE DEF u
<1>6. Moved(u, there) /\ there.sel < Len(u.shown)
  BY <1>2, <1>3, <1>5, SelectMoves
<1>7. Whole(there) /\ ~ there.lost /\ (PlainChoices => Fine(there, now))
  <2>1. /\ there \in Displays /\ there.cur = menu /\ there.all = all /\ there.shown = shown
        /\ there.rows = <<>> /\ there.lost = FALSE /\ there.sel < Len(there.shown)
    BY <1>5, <1>6 DEF Moved
  <2>2. there.rows \in Seq(Nat) /\ Len(there.rows) = 0 /\ Depth(menu) \in Nat
    BY <1>2, <2>1, DepthHolds
  <2> HIDE DEF there
  <2> QED BY <1>2, <1>4, <2>1, <2>2 DEF Fine, Whole
<1> HIDE DEF there
<1>8. Whole(back) /\ ~ back.lost /\ (PlainChoices => Fine(back, now))
  BY <1>7, ToggleWhole, ToggleFine
<1> HIDE DEF back
<1>9. /\ Moved(back, s) /\ s.sel = back.sel
      /\ back.sel < Len(back.shown) => Seen(s, height)
  BY <1>8, CenterMoves DEF Static, Whole
<1>10. s \in Displays /\ s.shown = back.shown /\ s.sel < Len(s.shown) /\ Seen(s, height)
  BY <1>8, <1>9 DEF Moved, Whole
<1> HIDE DEF s
<1>11. Moved(s, at) /\ at.sel < Len(s.shown) /\ Seen(at, height)
  <2>1. CASE JumpsInto(k)
    BY <1>10, <2>1, AtSelectionMoves DEF Static
  <2>2. CASE ~ JumpsInto(k)
    BY <1>10, <2>2 DEF Moved
  <2> QED BY <2>1, <2>2
<1> HIDE DEF at
<1>12. at \in Displays /\ at.shown = back.shown /\ at.sel < Len(at.shown) /\ Moved(back, at)
  <2>1. Moved(back, at)
    BY <1>9, <1>11, MovedOn
  <2> QED BY <1>10, <1>11, <2>1 DEF Moved
<1>13. /\ height' = MainHeight(terminal, show_help) /\ main' = Fit(at, height')
       /\ dialogs' = <<>> /\ UNCHANGED <<config, show_help, terminal>>
  BY <1>1 DEF BackTo
<1>14. height' \in Nat \ {0}
  BY <1>13, HeightHolds DEF Static
<1>15. at.scroll <= at.sel
  BY <1>11 DEF Seen, InView
<1> DEFINE t == Fit(at, height')
<1>16. Moved(at, t) /\ t.sel = at.sel /\ Seen(t, height')
  BY <1>12, <1>14, <1>15, FitMoves
<1> HIDE DEF t
<1>17. Moved(back, t) /\ t.sel < Len(back.shown)
  <2>1. Moved(back, t)
    BY <1>12, <1>16, MovedOn
  <2> QED BY <1>12, <1>16, <2>1 DEF Moved
<1>18. Whole(t) /\ ~ t.lost
  BY <1>8, <1>17 DEF Moved, Whole
<1>19. PlainChoices => Fine(t, now)
  BY <1>8, <1>17, FineMoved
<1> QED BY <1>13, <1>16, <1>18, <1>19 DEF t

-----------------------------------------------------------------------------
(* Edit boxes *)

Boxes == {b \in [n : Nat, i : Nat, h : Nat] : b.i <= b.n}

(* An edit box keeps its cursor inside its text, and clear of its edges. *)
LEMMA NewBoxHolds ==
    ASSUME NEW n \in Nat, NEW width \in Int
    PROVE  NewBox(n, width) \in Boxes
<1>1. AtLeast0(n - width + 1) \in Nat
  BY MaxOfTwo DEF AtLeast0
<1> QED BY <1>1 DEF NewBox, Boxes

LEMMA AdjustHolds ==
    ASSUME NEW b \in Boxes, NEW width \in Int
    PROVE  /\ Adjust(b, width) \in Boxes
           /\ width >= SCROLL_OFFSET + 2 => Clear(Adjust(b, width), width)
<1>1. b.n \in Nat /\ b.i \in Nat /\ b.h \in Nat /\ b.i <= b.n
  BY DEF Boxes
<1>2. SCROLL_OFFSET \in Nat \ {0}
  BY ScreenAssumption
<1>3. ASSUME NEW x \in Int PROVE AtLeast0(x) = IF x >= 0 THEN x ELSE 0
  BY MaxOfTwo DEF AtLeast0
<1>4. ASSUME NEW h \in Nat
      PROVE  /\ [b EXCEPT !.h = h] \in Boxes
             /\ [b EXCEPT !.h = h].n = b.n /\ [b EXCEPT !.h = h].i = b.i
             /\ [b EXCEPT !.h = h].h = h
  BY DEF Boxes
<1>5. CASE b.i < b.h + SCROLL_OFFSET
  <2> DEFINE h == AtLeast0(b.i - SCROLL_OFFSET)
  <2>1. h = (IF b.i - SCROLL_OFFSET >= 0 THEN b.i - SCROLL_OFFSET ELSE 0) /\ h \in Nat
    BY <1>1, <1>2, <1>3
  <2>2. Adjust(b, width) = [b EXCEPT !.h = h]
    BY <1>5 DEF Adjust
  <2> HIDE DEF h
  <2> QED BY <1>1, <1>2, <1>4, <2>1, <2>2 DEF Clear
<1>6. CASE ~ (b.i < b.h + SCROLL_OFFSET) /\ b.i >= b.h + width - SCROLL_OFFSET
  <2> DEFINE m == AtLeast0(b.n - width + 1)
             h == Min({b.i - width + SCROLL_OFFSET + 1, m})
  <2>1. m = (IF b.n - width + 1 >= 0 THEN b.n - width + 1 ELSE 0) /\ m \in Nat
    BY <1>1, <1>3
  <2>2. Adjust(b, width) = [b EXCEPT !.h = h]
    BY <1>6 DEF Adjust
  <2> HIDE DEF m
  <2>3. /\ h = IF b.i - width + SCROLL_OFFSET + 1 <= m
               THEN b.i - width + SCROLL_OFFSET + 1 ELSE m
        /\ b.i - width + SCROLL_OFFSET + 1 \in Nat
    BY <1>1, <1>2, <1>6, <2>1, MinOfTwo
  <2> HIDE DEF h
  <2>4. h \in Nat
    BY <2>1, <2>3
  <2>5. width >= SCROLL_OFFSET + 2 =>
          /\ b.i - h \in 0 .. width - 1 /\ (b.i - h = 0 => b.i = 0)
          /\ (b.i - h = width - 1 => b.i = b.n)
    BY <1>1, <1>2, <2>1, <2>3
  <2> QED BY <1>4, <2>2, <2>4, <2>5 DEF Clear
<1>7. CASE ~ (b.i < b.h + SCROLL_OFFSET) /\ ~ (b.i >= b.h + width - SCROLL_OFFSET)
  BY <1>1, <1>2, <1>7 DEF Adjust, Clear
<1> QED BY <1>5, <1>6, <1>7

(* What a key makes of a box is a box, with the cursor clear of its edges. *)
LEMMA EditHolds ==
    ASSUME NEW b \in Boxes, NEW width \in Int, NEW e \in EditText(b, width)
    PROVE  e \in Boxes /\ (width >= SCROLL_OFFSET + 2 => Clear(e, width))
<1> DEFINE At(n, i) == Adjust([b EXCEPT !.n = n, !.i = i], width)
<1>1. b.n \in Nat /\ b.i \in Nat /\ b.i <= b.n
  BY DEF Boxes
<1>2. ASSUME NEW n \in Nat, NEW i \in Nat, i <= n
      PROVE  At(n, i) \in Boxes /\ (width >= SCROLL_OFFSET + 2 => Clear(At(n, i), width))
  <2>1. [b EXCEPT !.n = n, !.i = i] \in Boxes
    BY <1>2 DEF Boxes
  <2> QED BY <2>1, AdjustHolds
<1>3. \E n, i \in Nat : i <= n /\ e = At(n, i)
  <2>1. AtLeast0(b.i - 1) = IF b.i - 1 >= 0 THEN b.i - 1 ELSE 0
    BY <1>1, MaxOfTwo DEF AtLeast0
  <2>2. Min({b.i + 1, b.n}) = IF b.i + 1 <= b.n THEN b.i + 1 ELSE b.n
    BY <1>1, MinOfTwo
  <2>3. Min({1, b.n - b.i}) = IF 1 <= b.n - b.i THEN 1 ELSE b.n - b.i
    BY <1>1, MinOfTwo
  <2>4. e \in {At(b.n, i) : i \in {AtLeast0(b.i - 1), Min({b.i + 1, b.n}), 0, b.n}}
             \cup {At(b.n - k, b.i - k) : k \in 0 .. b.i}
             \cup {At(b.n - k, b.i) : k \in {Min({1, b.n - b.i}), b.n - b.i}}
             \cup {At(b.n + 1, b.i + 1) : k \in {j \in {1} : b.n < TextLength[kconf]}}
    BY DEF EditText
  <2> HIDE DEF At
  <2>5. CASE \E i \in {AtLeast0(b.i - 1), Min({b.i + 1, b.n}), 0, b.n} : e = At(b.n, i)
    BY <1>1, <2>1, <2>2, <2>5
  <2>6. CASE \E k \in 0 .. b.i : e = At(b.n - k, b.i - k)
    <3>1. PICK k \in 0 .. b.i : e = At(b.n - k, b.i - k)
      BY <2>6
    <3>2. b.n - k \in Nat /\ b.i - k \in Nat /\ b.i - k <= b.n - k
      BY <1>1
    <3> QED BY <3>1, <3>2
  <2>7. CASE \E k \in {Min({1, b.n - b.i}), b.n - b.i} : e = At(b.n - k, b.i)
    <3>1. PICK k \in {Min({1, b.n - b.i}), b.n - b.i} : e = At(b.n - k, b.i)
      BY <2>7
    <3>2. b.n - k \in Nat /\ b.i <= b.n - k
      BY <1>1, <2>3
    <3> QED BY <1>1, <3>1, <3>2
  <2>8. CASE e = At(b.n + 1, b.i + 1)
    <3>1. b.n + 1 \in Nat /\ b.i + 1 \in Nat /\ b.i + 1 <= b.n + 1
      BY <1>1
    <3> QED BY <2>8, <3>1
  <2> QED BY <2>4, <2>5, <2>6, <2>7, <2>8
<1> QED BY <1>2, <1>3

-----------------------------------------------------------------------------
(* The dialogs above one another.  T: what input dialogs may ask for         *)

Jumps ==
    {f \in [kind : {"jump"}, box : Boxes, found : Seq(Nodes(kconf)), sel : Int, scroll : Nat] :
        f.found # <<>> => f.sel \in 0 .. Len(f.found) - 1 /\ f.scroll <= f.sel}
Inputs(T) == [kind : {"input"}, of : T, box : Boxes]
Infos == [kind : {"info"}, scroll : Nat]
KeyDialogs == [kind : {"key", "quit", "over"}]
Held(T) == Jumps \cup Inputs(T) \cup Infos \cup KeyDialogs

(* Which dialog can lie where: a help text over another or a search over it, a
   message over an edit box. *)
Lies(kind, j, first) ==
    /\ j \in 1 .. 3
    /\ kind = "jump" => j = 1 \/ (j = 2 /\ first = "info")
    /\ kind \in {"input", "quit", "over"} => j = 1
    /\ kind = "key" => j = 1 \/ (j = 2 /\ first = "input")

Stack(d, T) == d \in Seq(Held(T)) /\ \A j \in 1 .. Len(d) : Lies(d[j].kind, j, d[1].kind)

(* The dialogs by their kind. *)
LEMMA FrameKinds ==
    ASSUME NEW T, NEW f \in Held(T)
    PROVE  /\ f.kind \in {"jump", "input", "info", "key", "quit", "over"}
           /\ f.kind = "jump" => f \in Jumps
           /\ f.kind = "input" => f \in Inputs(T)
           /\ f.kind = "info" => f \in Infos
<1>1. f \in Jumps => f.kind = "jump"
  BY DEF Jumps
<1>2. f \in Inputs(T) => f.kind = "input"
  BY DEF Inputs
<1>3. f \in Infos => f.kind = "info"
  BY DEF Infos
<1>4. f \in KeyDialogs => f.kind \in {"key", "quit", "over"}
  BY DEF KeyDialogs
<1> QED BY <1>1, <1>2, <1>3, <1>4 DEF Held

(* A dialog is opened, and closed again. *)
LEMMA StackPush ==
    ASSUME NEW T, NEW d, Stack(d, T), NEW f \in Held(T),
           Lies(f.kind, Len(d) + 1, IF d = <<>> THEN f.kind ELSE d[1].kind)
    PROVE  /\ Stack(Append(d, f), T) /\ Append(d, f) # <<>> /\ Last(Append(d, f)) = f
           /\ Len(Append(d, f)) = Len(d) + 1
<1> DEFINE e == Append(d, f)
<1>1. /\ d \in Seq(Held(T)) /\ Len(d) \in Nat
      /\ \A j \in 1 .. Len(d) : Lies(d[j].kind, j, d[1].kind)
  BY DEF Stack
<1>2. /\ e \in Seq(Held(T)) /\ Len(e) = Len(d) + 1 /\ e[Len(d) + 1] = f
      /\ \A j \in 1 .. Len(d) : e[j] = d[j]
  BY <1>1
<1> HIDE DEF e
<1>3. e[1] = IF d = <<>> THEN f ELSE d[1]
  <2>1. CASE d = <<>>
    <3>1. Len(d) = 0
      BY <2>1
    <3> QED BY <1>2, <2>1, <3>1
  <2>2. CASE d # <<>>
    <3>1. 1 \in 1 .. Len(d)
      BY <1>1, <2>2
    <3> QED BY <1>2, <2>2, <3>1
  <2> QED BY <2>1, <2>2
<1>4. ASSUME NEW j \in 1 .. Len(e) PROVE Lies(e[j].kind, j, e[1].kind)
  <2>1. CASE j = Len(d) + 1
    BY <1>2, <1>3, <2>1
  <2>2. CASE j # Len(d) + 1
    <3>1. j \in 1 .. Len(d) /\ d # <<>>
      BY <1>1, <1>2, <2>2
    <3> QED BY <1>1, <1>2, <1>3, <3>1
  <2> QED BY <2>1, <2>2
<1>5. e # <<>> /\ Last(e) = f
  BY <1>1, <1>2 DEF Last
<1> QED BY <1>2, <1>4, <1>5 DEF Stack, e

LEMMA StackPop ==
    ASSUME NEW T, NEW d, Stack(d, T), d # <<>>
    PROVE  /\ Stack(Front(d), T) /\ Last(d) \in Held(T) /\ Len(d) \in 1 .. 3
           /\ Lies(Last(d).kind, Len(d), d[1].kind)
           /\ Len(Front(d)) = Len(d) - 1 /\ (Len(d) = 1 <=> Front(d) = <<>>)
           /\ Front(d) # <<>> => Front(d)[1] = d[1]
           /\ Last(Front(d)) = Front(d)[Len(d) - 1]
           /\ Last(d) = d[Len(d)]
           /\ \A j \in 1 .. Len(d) - 1 : Front(d)[j] = d[j]
<1>1. /\ d \in Seq(Held(T)) /\ \A j \in 1 .. Len(d) : Lies(d[j].kind, j, d[1].kind)
  BY DEF Stack
<1>2. /\ Last(d) \in Held(T) /\ Front(d) \in Seq(Held(T)) /\ Len(Front(d)) = Len(d) - 1
      /\ \A j \in 1 .. Len(d) - 1 : Front(d)[j] = d[j]
      /\ Last(d) = d[Len(d)] /\ Len(d) \in Nat \ {0}
  BY <1>1, LastOf
<1>3. Lies(Last(d).kind, Len(d), d[1].kind) /\ Len(d) \in 1 .. 3
  BY <1>1, <1>2 DEF Lies
<1> DEFINE e == Front(d)
<1>4. e = <<>> <=> Len(d) = 1
  <2> HIDE DEF e
  <2>1. e \in Seq(Held(T)) /\ Len(e) = Len(d) - 1
    BY <1>2 DEF e
  <2> QED BY <1>2, <2>1
<1>5. e # <<>> => e[1] = d[1]
  BY <1>2, <1>3, <1>4
<1>6. ASSUME NEW j \in 1 .. Len(e) PROVE Lies(e[j].kind, j, e[1].kind)
  BY <1>1, <1>2, <1>5, <1>4
<1>7. Last(e) = e[Len(d) - 1]
  BY <1>2 DEF Last
<1> QED BY <1>2, <1>3, <1>4, <1>5, <1>6, <1>7 DEF Stack

(* Another frame on top, of the same kind or, if alone, of any *)
LEMMA StackTop ==
    ASSUME NEW T, NEW d, Stack(d, T), d # <<>>, NEW f \in Held(T),
           f.kind = Last(d).kind \/ Len(d) = 1
    PROVE  /\ Stack(Append(Front(d), f), T) /\ Append(Front(d), f) # <<>>
           /\ Last(Append(Front(d), f)) = f
<1>1. /\ Stack(Front(d), T) /\ Lies(Last(d).kind, Len(d), d[1].kind) /\ Len(d) \in 1 .. 3
      /\ Len(Front(d)) = Len(d) - 1 /\ (Len(d) = 1 <=> Front(d) = <<>>)
      /\ Front(d) # <<>> => Front(d)[1] = d[1]
  BY StackPop
<1>2. Len(Front(d)) + 1 = Len(d)
  BY <1>1
<1>3. Lies(f.kind, Len(Front(d)) + 1, IF Front(d) = <<>> THEN f.kind ELSE Front(d)[1].kind)
  <2>1. CASE Len(d) = 1
    BY <1>1, <1>2, <2>1 DEF Lies
  <2>2. CASE Len(d) # 1
    BY <1>1, <1>2, <2>2
  <2> QED BY <2>1, <2>2
<1> QED BY <1>1, <1>3, StackPush

-----------------------------------------------------------------------------
(* Frames and what the keys make of them *)

(* The selected match is in the window. *)
MatchSeen(f, h) ==
    f.kind = "jump" /\ f.found # <<>> => InView(f.sel, f.scroll, Len(f.found), h)

(* The list of matches: its cursor moves, the window or the text changes. *)
LEMMA JumpPut ==
    ASSUME NEW f \in Jumps, NEW a \in Int, NEW b \in Nat,
           f.found # <<>> => a \in 0 .. Len(f.found) - 1 /\ b <= a
    PROVE  /\ Put(f, a, b) \in Jumps /\ Put(f, a, b).kind = "jump"
           /\ Put(f, a, b).sel = a /\ Put(f, a, b).scroll = b
           /\ Put(f, a, b).found = f.found /\ IsCursor(f)
BY DEF Jumps, Put, IsCursor

LEMMA JumpType ==
    ASSUME NEW f \in Jumps
    PROVE  /\ IsCursor(f) /\ f.kind = "jump" /\ f.box \in Boxes /\ f.found \in Seq(Nodes(kconf))
           /\ Len(f.found) \in Nat /\ f.sel \in Int /\ f.scroll \in Nat
           /\ f.found # <<>> => f.sel \in 0 .. Len(f.found) - 1 /\ f.scroll <= f.sel
BY DEF Jumps, IsCursor

LEMMA JumpMoves ==
    ASSUME NEW f \in Jumps, NEW h \in Nat \ {0}, MatchSeen(f, h),
           NEW p \in Moves(f, Len(f.found), h)
    PROVE  p \in Jumps /\ p.kind = "jump" /\ MatchSeen(p, h)
<1>1. /\ IsCursor(f) /\ f.kind = "jump" /\ Len(f.found) \in Nat /\ f.sel \in Int
      /\ f.scroll \in Nat
      /\ f.found # <<>> => f.sel \in 0 .. Len(f.found) - 1
  BY JumpType
<1>2. p \in Reach(f, Len(f.found), h)
  BY <1>1, MovesReach
<1>3. PICK x \in Int \X Nat :
          /\ p = Put(f, x[1], x[2])
          /\ f.sel \in 0 .. Len(f.found) - 1 => x[1] \in 0 .. Len(f.found) - 1
          /\ InView(f.sel, f.scroll, Len(f.found), h) => InView(x[1], x[2], Len(f.found), h)
  BY <1>2 DEF Reach
<1>4. x[1] \in Int /\ x[2] \in Nat
  OBVIOUS
<1>5. f.found # <<>> => InView(x[1], x[2], Len(f.found), h)
  BY <1>1, <1>3 DEF MatchSeen
<1>6. f.found # <<>> => x[1] \in 0 .. Len(f.found) - 1 /\ x[2] <= x[1]
  BY <1>1, <1>3, <1>5 DEF InView
<1>7. /\ p \in Jumps /\ p.kind = "jump" /\ p.sel = x[1] /\ p.scroll = x[2]
      /\ p.found = f.found
  BY <1>3, <1>4, <1>6, JumpPut
<1> QED BY <1>5, <1>7 DEF MatchSeen

LEMMA JumpFits ==
    ASSUME NEW f \in Jumps, NEW h \in Nat \ {0}
    PROVE  Fit(f, h) \in Jumps /\ Fit(f, h).kind = "jump" /\ MatchSeen(Fit(f, h), h)
<1>1. /\ IsCursor(f) /\ Len(f.found) \in Nat /\ f.sel \in Int
      /\ f.found # <<>> => f.sel \in 0 .. Len(f.found) - 1 /\ f.scroll <= f.sel
  BY JumpType
<1>2. PICK b \in Nat :
          /\ Fit(f, h) = Put(f, f.sel, b)
          /\ \A n \in Nat : f.sel < n /\ f.scroll <= f.sel => InView(f.sel, b, n, h)
  BY <1>1, FitHolds
<1>3. f.found # <<>> => InView(f.sel, b, Len(f.found), h)
  BY <1>1, <1>2
<1>4. f.found # <<>> => b <= f.sel
  BY <1>3 DEF InView
<1> DEFINE p == Fit(f, h)
<1>5. /\ p \in Jumps /\ p.kind = "jump" /\ p.sel = f.sel /\ p.scroll = b
      /\ p.found = f.found
  BY <1>1, <1>2, <1>4, JumpPut
<1> HIDE DEF p
<1> QED BY <1>3, <1>5 DEF MatchSeen, p

LEMMA JumpTyped ==
    ASSUME NEW f \in Jumps, NEW b \in Boxes
    PROVE  /\ [f EXCEPT !.box = b] \in Jumps /\ [f EXCEPT !.box = b].kind = "jump"
           /\ [f EXCEPT !.box = b].box = b
           /\ \A h : MatchSeen(f, h) => MatchSeen([f EXCEPT !.box = b], h)
           /\ \A found \in Seq(Nodes(kconf)) :
                 LET p == [f EXCEPT !.box = b, !.found = found, !.sel = 0, !.scroll = 0]
                 IN p \in Jumps /\ p.kind = "jump" /\ p.box = b
                    /\ \A h \in Nat \ {0} : MatchSeen(p, h)
<1>1. /\ [f EXCEPT !.box = b] \in Jumps /\ [f EXCEPT !.box = b].kind = "jump"
      /\ [f EXCEPT !.box = b].box = b
  BY DEF Jumps
<1>2. \A h : MatchSeen(f, h) => MatchSeen([f EXCEPT !.box = b], h)
  BY DEF Jumps, MatchSeen
<1>3. ASSUME NEW found \in Seq(Nodes(kconf))
      PROVE  LET p == [f EXCEPT !.box = b, !.found = found, !.sel = 0, !.scroll = 0]
             IN p \in Jumps /\ p.kind = "jump" /\ p.box = b
                /\ \A h \in Nat \ {0} : MatchSeen(p, h)
  <2> DEFINE p == [f EXCEPT !.box = b, !.found = found, !.sel = 0, !.scroll = 0]
  <2>1. Len(found) \in Nat /\ (found # <<>> => 0 \in 0 .. Len(found) - 1 /\ 0 < Len(found))
    OBVIOUS
  <2>2. /\ p \in Jumps /\ p.kind = "jump" /\ p.box = b /\ p.found = found
        /\ p.sel = 0 /\ p.scroll = 0
    <3> DEFINE Frame == [kind : {"jump"}, box : Boxes, found : Seq(Nodes(kconf)), sel : Int,
                         scroll : Nat]
    <3>1. f \in Frame
      BY DEF Jumps
    <3> DEFINE q == [f EXCEPT !.box = b, !.found = found]
    <3>2. q \in Frame /\ q.found = found /\ q.box = b
      BY <3>1
    <3>3. p = [q EXCEPT !.sel = 0, !.scroll = 0]
      BY <3>1
    <3> HIDE DEF p, q
    <3>4. p \in Frame
      <4>1. ASSUME NEW x \in Int, NEW y \in Nat PROVE [q EXCEPT !.sel = x, !.scroll = y] \in Frame
        BY <3>2
      <4>2. 0 \in Int /\ 0 \in Nat
        OBVIOUS
      <4>3. [q EXCEPT !.sel = 0, !.scroll = 0] \in Frame
        BY <4>1, <4>2
      <4> QED BY <3>3, <4>3
    <3>5. p.found = found /\ p.box = b /\ p.sel = 0 /\ p.scroll = 0 /\ p.kind = "jump"
      BY <3>2, <3>3
    <3> QED BY <2>1, <3>4, <3>5 DEF Jumps
  <2> HIDE DEF p
  <2>3. \A h \in Nat \ {0} : MatchSeen(p, h)
    BY <2>1, <2>2 DEF MatchSeen, InView
  <2> QED BY <2>2, <2>3 DEF p
<1> QED BY <1>1, <1>2, <1>3

LEMMA JumpOpens ==
    ASSUME NEW found \in Seq(Nodes(kconf)), NEW b \in Boxes, NEW h \in Nat \ {0}
    PROVE  LET p == [kind |-> "jump", box |-> b, found |-> found, sel |-> 0, scroll |-> 0]
           IN p \in Jumps /\ p.kind = "jump" /\ MatchSeen(p, h)
<1> DEFINE p == [kind |-> "jump", box |-> b, found |-> found, sel |-> 0, scroll |-> 0]
<1>1. Len(found) \in Nat /\ (found # <<>> => 0 \in 0 .. Len(found) - 1 /\ 0 < Len(found))
  OBVIOUS
<1>2. p \in Jumps /\ p.kind = "jump" /\ p.found = found /\ p.sel = 0 /\ p.scroll = 0
  BY <1>1 DEF Jumps
<1> HIDE DEF p
<1> QED BY <1>1, <1>2 DEF MatchSeen, InView, p

(* Matches are nodes. *)
LEMMA MatchesHold ==
    ASSUME kconf \in Kconfigs, NEW n, NEW found \in Matches(n)
    PROVE  found \in Seq(Nodes(kconf))
<1> DEFINE Part(S) == Only(Order, S)
<1>1. \A S : Part(S) \in Seq(Nodes(kconf))
  BY OrderHolds, OnlyThose
<1>2. SearchOrder = Part({k \in DOMAIN Order : Node(k).item \in Symbols})
        \o Part({k \in DOMAIN Order : Node(k).item \in ChoiceSet})
        \o Part({k \in DOMAIN Order : Node(k).item \in {MENU}})
        \o Part({k \in DOMAIN Order : Node(k).item \notin Items \cup {MENU}})
  BY DEF SearchOrder
<1> HIDE DEF Part
<1>3. SearchOrder \in Seq(Nodes(kconf))
  BY <1>1, <1>2
<1>4. PICK S : found = Only(SearchOrder, S)
  BY DEF Matches
<1> QED BY <1>3, <1>4, OnlyThose

(* No key scrolls a text above its first line. *)
LEMMA ScrollHolds ==
    ASSUME Static, NEW at \in Nat
    PROVE  LET most == MaxScroll(InfoLines[kconf], TextHeight(terminal))
           IN {IF at < most THEN at + 1 ELSE at, AtLeast0(at - 1), most, 0,
                     Min({at + PG_JUMP, most}), AtLeast0(at - PG_JUMP)} \subseteq Nat
<1> DEFINE most == MaxScroll(InfoLines[kconf], TextHeight(terminal))
<1>1. PG_JUMP \in Nat /\ InfoLines[kconf] \in Nat /\ TextHeight(terminal) \in Nat
  BY ScreenAssumption, HeightHolds DEF Static
<1>2. \A x \in Int : AtLeast0(x) \in Nat
  BY MaxOfTwo DEF AtLeast0
<1>3. most \in Nat
  BY <1>1, <1>2 DEF MaxScroll
<1> HIDE DEF most
<1>4. Min({at + PG_JUMP, most}) \in Nat
  BY <1>1, <1>3, MinOfTwo
<1> QED BY <1>1, <1>2, <1>3, <1>4 DEF most

-----------------------------------------------------------------------------
(* The dialogs in a step *)

TopSeen == MatchSeen(Top, MatchesHeight(terminal))

(* The dialog on top of the stack. *)
LEMMA TopHolds ==
    ASSUME NEW T, Stack(dialogs, T)
    PROVE  /\ Top.kind = "main" <=> dialogs = <<>>
           /\ dialogs # <<>> => /\ Top = Last(dialogs) /\ Top \in Held(T)
                                /\ Len(dialogs) \in 1 .. 3
                                /\ Lies(Top.kind, Len(dialogs), dialogs[1].kind)
           /\ Len(dialogs) \in Nat
<1>1. CASE dialogs = <<>>
  BY <1>1 DEF Top
<1>2. CASE dialogs # <<>>
  <2>1. Top = Last(dialogs) /\ Top \in Held(T) /\ Len(dialogs) \in 1 .. 3
        /\ Lies(Top.kind, Len(dialogs), dialogs[1].kind)
    BY <1>2, StackPop DEF Top
  <2>2. Top.kind # "main"
    BY <2>1, FrameKinds
  <2> QED BY <1>2, <2>1, <2>2
<1> QED BY <1>1, <1>2

(* One more frame, another one on top, one less *)
LEMMA PushKeeps ==
    ASSUME NEW T, Stack(dialogs, T), NEW f \in Held(T), Push(f),
           Lies(f.kind, Len(dialogs) + 1, IF dialogs = <<>> THEN f.kind ELSE dialogs[1].kind),
           MatchSeen(f, MatchesHeight(terminal)), terminal' = terminal
    PROVE  Stack(dialogs', T) /\ TopSeen'
<1>1. dialogs' = Append(dialogs, f)
  BY DEF Push
<1>2. Stack(dialogs', T) /\ dialogs' # <<>> /\ Last(dialogs') = f
  BY <1>1, StackPush
<1>3. Top' = f
  BY <1>2 DEF Top
<1> QED BY <1>2, <1>3 DEF TopSeen, MatchSeen, MatchesHeight

(* The dialog on top is replaced by another, or nothing is left open. *)
LEMMA OnTopKeeps ==
    ASSUME NEW T, Stack(dialogs, T), dialogs # <<>>, NEW f \in Held(T), OnTop(f),
           f.kind = Top.kind \/ Len(dialogs) = 1, MatchSeen(f, MatchesHeight(terminal'))
    PROVE  Stack(dialogs', T) /\ TopSeen'
<1>1. dialogs' = Append(Front(dialogs), f) /\ Top = Last(dialogs)
  BY TopHolds DEF OnTop, Below
<1>2. Stack(dialogs', T) /\ dialogs' # <<>> /\ Last(dialogs') = f
  BY <1>1, StackTop
<1>3. Top' = f
  BY <1>2 DEF Top
<1> QED BY <1>2, <1>3 DEF TopSeen, MatchSeen, MatchesHeight

LEMMA NothingAbove ==
    ASSUME dialogs' = <<>>
    PROVE  TopSeen'
<1>1. Top' = [kind |-> "main"]
  BY DEF Top
<1>2. Top'.kind # "jump"
  BY <1>1
<1> QED BY <1>2 DEF TopSeen, MatchSeen

LEMMA EmptyStack ==
    ASSUME NEW T
    PROVE  Stack(<<>>, T)
BY DEF Stack

(* A dialog with a key dialog above it, or alone *)
LEMMA KeyAbove ==
    ASSUME NEW T
    PROVE  /\ Stack(<<[kind |-> "key"]>>, T) /\ Last(<<[kind |-> "key"]>>) = [kind |-> "key"]
           /\ \A f \in Inputs(T) : /\ Stack(<<f, [kind |-> "key"]>>, T)
                                   /\ Last(<<f, [kind |-> "key"]>>) = [kind |-> "key"]
<1> DEFINE key == [kind |-> "key"]
<1>1. key \in Held(T) /\ key.kind = "key"
  BY DEF Held, KeyDialogs
<1> HIDE DEF key
<1>2. Stack(<<key>>, T) /\ Last(<<key>>) = key
  BY <1>1 DEF Stack, Lies, Last
<1>3. ASSUME NEW f \in Inputs(T) PROVE Stack(<<f, key>>, T) /\ Last(<<f, key>>) = key
  <2>1. f \in Held(T) /\ f.kind = "input"
    BY DEF Held, Inputs
  <2> DEFINE d == <<f, key>>
  <2>2. d \in Seq(Held(T)) /\ Len(d) = 2 /\ d[1] = f /\ d[2] = key
    BY <1>1, <2>1
  <2> HIDE DEF d
  <2>3. \A j \in 1 .. Len(d) : Lies(d[j].kind, j, d[1].kind)
    BY <1>1, <2>1, <2>2 DEF Lies
  <2>4. Last(d) = key
    BY <2>2 DEF Last
  <2> QED BY <2>2, <2>3, <2>4 DEF Stack, d
<1> QED BY <1>2, <1>3 DEF key

(* An edit box is opened, and text typed into it. *)
LEMMA InputOpens ==
    ASSUME Static, NEW T, NEW of \in T, NEW n \in Nat
    PROVE  LET f == [kind |-> "input", of |-> of, box |-> NewBox(n, InputWidth(terminal))]
           IN f \in Inputs(T) /\ f \in Held(T) /\ f.kind = "input"
<1>1. NewBox(n, InputWidth(terminal)) \in Boxes
  BY HeightHolds, NewBoxHolds DEF Static
<1> QED BY <1>1 DEF Inputs, Held

LEMMA InputTyped ==
    ASSUME NEW T, NEW f \in Inputs(T), NEW b \in Boxes
    PROVE  /\ [f EXCEPT !.box = b] \in Inputs(T) /\ [f EXCEPT !.box = b] \in Held(T)
           /\ [f EXCEPT !.box = b].kind = "input" /\ f.kind = "input"
           /\ [f EXCEPT !.box = b].box = b /\ f.box \in Boxes /\ f.of \in T /\ f.box.n \in Nat
BY DEF Inputs, Held, Boxes

(* What lies below a full-screen dialog takes the size of the terminal. *)
LEMMA BackKeeps ==
    ASSUME Static, NEW T, Stack(dialogs, T), dialogs # <<>>, BackTo(Below, main)
    PROVE  Stack(dialogs', T) /\ TopSeen'
<1> DEFINE frames == Front(dialogs)
<1>1. /\ Stack(frames, T) /\ terminal' = terminal
      /\ dialogs' = IF frames # <<>> /\ Last(frames).kind = "jump"
                    THEN Append(Front(frames), Fit(Last(frames), MatchesHeight(terminal)))
                    ELSE frames
  BY StackPop DEF BackTo, Below
<1> HIDE DEF frames
<1>2. CASE frames # <<>> /\ Last(frames).kind = "jump"
  <2> DEFINE f == Fit(Last(frames), MatchesHeight(terminal))
  <2>1. Last(frames) \in Held(T)
    BY <1>1, <1>2, StackPop
  <2>2. MatchesHeight(terminal) \in Nat \ {0}
    BY HeightHolds DEF Static
  <2>3. f \in Jumps /\ f.kind = "jump" /\ MatchSeen(f, MatchesHeight(terminal))
    BY <1>2, <2>1, <2>2, FrameKinds, JumpFits
  <2> HIDE DEF f
  <2>4. f \in Held(T)
    BY <2>3 DEF Held
  <2>5. dialogs' = Append(Front(frames), f)
    BY <1>1, <1>2 DEF f
  <2>6. Stack(dialogs', T) /\ dialogs' # <<>> /\ Last(dialogs') = f
    BY <1>1, <1>2, <2>3, <2>4, <2>5, StackTop
  <2>7. Top' = f
    BY <2>6 DEF Top
  <2> QED BY <1>1, <2>3, <2>6, <2>7 DEF TopSeen, MatchSeen, MatchesHeight
<1>3. CASE ~ (frames # <<>> /\ Last(frames).kind = "jump")
  <2>1. dialogs' = frames
    BY <1>1, <1>3
  <2>2. Top'.kind # "jump"
    BY <1>3, <2>1 DEF Top
  <2> QED BY <1>1, <2>1, <2>2 DEF TopSeen, MatchSeen
<1> QED BY <1>2, <1>3

(* While the terminal keeps its size, a list of matches keeps its window. *)
LEMMA SameTop ==
    ASSUME TopSeen, dialogs' = dialogs, terminal' = terminal \/ Top.kind # "jump"
    PROVE  TopSeen'
<1>1. Top' = Top
  BY DEF Top
<1>2. CASE terminal' = terminal
  BY <1>1, <1>2 DEF TopSeen, MatchSeen, MatchesHeight
<1>3. CASE Top.kind # "jump"
  BY <1>1, <1>3 DEF TopSeen, MatchSeen
<1> QED BY <1>2, <1>3

(* Every step keeps the dialogs a stack of what can be open. *)
LEMMA DialogsStep ==
    ASSUME Static, Whole(main), NEW T, NoValue \in T, Stack(dialogs, T), TopSeen,
           ChangeText => Node(Selected(main)).item \in T, Next
    PROVE  Stack(dialogs', T) /\ TopSeen'
<1>1. /\ Top.kind = "main" <=> dialogs = <<>>
      /\ dialogs # <<>> => /\ Top = Last(dialogs) /\ Top \in Held(T)
                           /\ Len(dialogs) \in 1 .. 3
                           /\ Lies(Top.kind, Len(dialogs), dialogs[1].kind)
      /\ Len(dialogs) \in Nat /\ (dialogs = <<>> => Len(dialogs) = 0)
  BY TopHolds
<1>2. dialogs # <<>> =>
        /\ Top.kind = "jump" => Top \in Jumps
        /\ Top.kind = "input" => Top \in Inputs(T) /\ Len(dialogs) = 1
        /\ Top.kind = "info" => Top \in Infos
        /\ Top.kind = "quit" => Len(dialogs) = 1
  BY <1>1, FrameKinds DEF Lies
<1>3. JumpWidth(terminal) \in Int /\ InputWidth(terminal) \in Int
      /\ MatchesHeight(terminal) \in Nat \ {0}
  BY HeightHolds DEF Static
<1>4. ASSUME NEW t \in Terminals[kconf], Resize(t) PROVE Stack(dialogs', T) /\ TopSeen'
  <2>1. terminal' = t
    BY <1>4 DEF Resize
  <2>2. CASE Top.kind = "jump"
    <3>1. OnTop(Fit(Top, MatchesHeight(t))) /\ dialogs # <<>>
      BY <1>1, <1>4, <2>2 DEF Resize
    <3>2. MatchesHeight(t) \in Nat \ {0}
      BY HeightHolds DEF Static
    <3> DEFINE f == Fit(Top, MatchesHeight(t))
    <3>3. f \in Jumps /\ f.kind = "jump" /\ MatchSeen(f, MatchesHeight(t))
      BY <1>2, <2>2, <3>1, <3>2, JumpFits
    <3> HIDE DEF f
    <3>4. f \in Held(T) /\ f.kind = Top.kind
      BY <2>2, <3>3 DEF Held
    <3>5. MatchSeen(f, MatchesHeight(terminal'))
      BY <2>1, <3>3
    <3> QED BY <3>1, <3>4, <3>5, OnTopKeeps DEF f
  <2>3. CASE Top.kind # "jump"
    BY <1>4, <2>3, SameTop DEF Resize
  <2> QED BY <2>2, <2>3
<1>5. CASE MoveCursor \/ EnterSelected \/ LeaveCurrent \/ ShowAll \/ ShowHelp
  BY <1>5, SameTop DEF MoveCursor, EnterSelected, LeaveCurrent, ShowAll, ShowHelp
<1>6. CASE ChangeSelected \/ SetSelected
  BY <1>6, SameTop DEF ChangeSelected, SetSelected
<1>7. ASSUME NEW of \in T, AskFor(of), Showing("main") PROVE Stack(dialogs', T) /\ TopSeen'
  <2>1. PICK n \in 0 .. TextLength[kconf] :
            Push([kind |-> "input", of |-> of, box |-> NewBox(n, InputWidth(terminal))])
    BY <1>7 DEF AskFor
  <2>2. n \in Nat /\ terminal' = terminal
    BY <1>7 DEF AskFor
  <2> DEFINE f == [kind |-> "input", of |-> of, box |-> NewBox(n, InputWidth(terminal))]
  <2>3. f \in Held(T) /\ f.kind = "input"
    BY <2>2, InputOpens
  <2> HIDE DEF f
  <2>4. Push(f) /\ dialogs = <<>> /\ MatchSeen(f, MatchesHeight(terminal))
    BY <1>1, <1>7, <2>1, <2>3 DEF Showing, MatchSeen, f
  <2>5. Lies(f.kind, Len(dialogs) + 1, IF dialogs = <<>> THEN f.kind ELSE dialogs[1].kind)
    BY <1>1, <2>3, <2>4 DEF Lies
  <2> QED BY <2>2, <2>3, <2>4, <2>5, PushKeeps
<1>8. CASE ChangeText
  <2>1. AskFor(Node(Selected(main)).item) /\ Showing("main") /\ Node(Selected(main)).item \in T
    BY <1>8 DEF ChangeText
  <2> QED BY <1>7, <2>1
<1>9. CASE AskForFile
  BY <1>7, <1>9 DEF AskForFile
<1>10. CASE TypeInput
  <2>1. PICK b \in EditText(Top.box, InputWidth(terminal)) : OnTop([Top EXCEPT !.box = b])
    BY <1>10 DEF TypeInput
  <2>2. Top \in Inputs(T) /\ dialogs # <<>> /\ terminal' = terminal /\ Len(dialogs) = 1
    BY <1>1, <1>2, <1>10 DEF TypeInput, Showing
  <2>3. b \in Boxes
    <3>1. Top.box \in Boxes
      BY <2>2 DEF Inputs
    <3> QED BY <1>3, <2>1, <3>1, EditHolds
  <2> DEFINE f == [Top EXCEPT !.box = b]
  <2>4. f \in Held(T) /\ f.kind = "input"
    BY <2>2, <2>3, InputTyped
  <2> HIDE DEF f
  <2>5. OnTop(f) /\ MatchSeen(f, MatchesHeight(terminal'))
    BY <2>1, <2>4 DEF f, MatchSeen
  <2> QED BY <2>2, <2>4, <2>5, OnTopKeeps
<1>11. CASE EnterText
  BY <1>11, EmptyStack, NothingAbove DEF EnterText
<1>12. ASSUME dialogs' # <<>>, Last(dialogs') = [kind |-> "key"] PROVE TopSeen'
  <2>1. Top' = [kind |-> "key"]
    BY <1>12 DEF Top
  <2>2. Top'.kind # "jump"
    BY <2>1
  <2> QED BY <2>2 DEF TopSeen, MatchSeen
<1>13. CASE RefuseInput
  <2>1. Top \in Inputs(T)
    BY <1>1, <1>2, <1>13 DEF RefuseInput, Showing
  <2>2. NewBox(Top.box.n, InputWidth(terminal)) \in Boxes
    <3>1. Top.box.n \in Nat
      BY <2>1 DEF Inputs, Boxes
    <3> QED BY <1>3, <3>1, NewBoxHolds
  <2> DEFINE f == [Top EXCEPT !.box = NewBox(Top.box.n, InputWidth(terminal))]
  <2>3. f \in Inputs(T)
    BY <2>1, <2>2, InputTyped
  <2>4. dialogs' = <<f, [kind |-> "key"]>>
    BY <1>13 DEF RefuseInput
  <2> HIDE DEF f
  <2>5. Stack(dialogs', T) /\ Last(dialogs') = [kind |-> "key"] /\ dialogs' # <<>>
    BY <2>3, <2>4, KeyAbove
  <2> QED BY <1>12, <2>5
<1>14. CASE LoadFile
  <2>1. dialogs' = <<[kind |-> "key"]>>
    BY <1>14 DEF LoadFile
  <2>2. Stack(dialogs', T) /\ Last(dialogs') = [kind |-> "key"] /\ dialogs' # <<>>
    BY <2>1, KeyAbove
  <2> QED BY <1>12, <2>2
<1>15. CASE AskToQuit
  <2> DEFINE f == [kind |-> "quit"]
  <2>1. f \in Held(T) /\ f.kind = "quit"
    BY DEF Held, KeyDialogs
  <2> HIDE DEF f
  <2>2. Push(f) /\ dialogs = <<>> /\ terminal' = terminal
    BY <1>1, <1>15 DEF AskToQuit, Showing, f
  <2>3. /\ Lies(f.kind, Len(dialogs) + 1, IF dialogs = <<>> THEN f.kind ELSE dialogs[1].kind)
        /\ MatchSeen(f, MatchesHeight(terminal))
    BY <1>1, <2>1, <2>2 DEF Lies, MatchSeen
  <2> QED BY <2>1, <2>2, <2>3, PushKeeps
<1>16. CASE Quit
  <2> DEFINE f == [kind |-> "over"]
  <2>1. f \in Held(T) /\ f.kind = "over"
    BY DEF Held, KeyDialogs
  <2> HIDE DEF f
  <2>2. OnTop(f) /\ dialogs # <<>> /\ terminal' = terminal /\ Len(dialogs) = 1
    BY <1>1, <1>2, <1>16 DEF Quit, Showing, f
  <2>3. MatchSeen(f, MatchesHeight(terminal'))
    BY <2>1 DEF MatchSeen
  <2> QED BY <2>1, <2>2, <2>3, OnTopKeeps
<1>17. CASE CloseDialog
  <2>1. Top.kind \in {"input", "key", "quit"} /\ dialogs' = Front(dialogs) /\ dialogs # <<>>
    BY <1>1, <1>17 DEF CloseDialog, Below
  <2>2. /\ Stack(Front(dialogs), T) /\ Last(dialogs) \in Held(T)
        /\ Len(Front(dialogs)) = Len(dialogs) - 1 /\ (Len(dialogs) = 1 <=> Front(dialogs) = <<>>)
        /\ Front(dialogs) # <<>> => Front(dialogs)[1] = dialogs[1]
        /\ Last(Front(dialogs)) = Front(dialogs)[Len(dialogs) - 1]
    BY <2>1, StackPop
  <2>3. CASE Front(dialogs) = <<>>
    BY <2>1, <2>2, <2>3, NothingAbove
  <2>4. CASE Front(dialogs) # <<>>
    <3>1. Len(dialogs) = 2 /\ dialogs[1].kind = "input"
      BY <1>1, <2>1, <2>2, <2>4 DEF Lies
    <3>2. Last(dialogs') = dialogs[1]
      BY <2>1, <2>2, <2>4, <3>1
    <3>3. Top'.kind # "jump"
      BY <2>1, <2>4, <3>1, <3>2 DEF Top
    <3> QED BY <2>1, <2>2, <3>3 DEF TopSeen, MatchSeen
  <2> QED BY <2>3, <2>4
<1>18. CASE OpenInfo
  <2> DEFINE f == [kind |-> "info", scroll |-> 0]
  <2>1. f \in Held(T) /\ f.kind = "info"
    BY DEF Held, Infos
  <2> HIDE DEF f
  <2>2. Push(f) /\ terminal' = terminal /\ (dialogs = <<>> \/ Top.kind = "jump")
    BY <1>1, <1>18 DEF OpenInfo, Showing, f
  <2>3. Len(dialogs) + 1 \in 1 .. 3
    <3>1. CASE dialogs = <<>>
      BY <1>1, <3>1
    <3>2. CASE dialogs # <<>>
      <4>1. Len(dialogs) = 1 \/ Len(dialogs) = 2
        BY <1>1, <2>2, <3>2 DEF Lies
      <4> DEFINE n == Len(dialogs)
      <4> HIDE DEF n
      <4>2. n = 1 \/ n = 2
        BY <4>1 DEF n
      <4>3. n + 1 \in 1 .. 3
        BY <4>2
      <4> QED BY <4>3 DEF n
    <3> QED BY <3>1, <3>2
  <2>4. /\ Lies(f.kind, Len(dialogs) + 1, IF dialogs = <<>> THEN f.kind ELSE dialogs[1].kind)
        /\ MatchSeen(f, MatchesHeight(terminal))
    BY <2>1, <2>3 DEF Lies, MatchSeen
  <2> QED BY <2>1, <2>2, <2>4, PushKeeps
<1>19. CASE OpenJump
  <2>1. PICK found \in Matches(0) :
            Push([kind |-> "jump", box |-> NewBox(0, 1), found |-> found, sel |-> 0, scroll |-> 0])
    BY <1>19 DEF OpenJump
  <2> DEFINE f == [kind |-> "jump", box |-> NewBox(0, 1), found |-> found, sel |-> 0,
                   scroll |-> 0]
  <2>2. f \in Jumps /\ f.kind = "jump" /\ MatchSeen(f, MatchesHeight(terminal))
    <3>1. found \in Seq(Nodes(kconf)) /\ NewBox(0, 1) \in Boxes
      <4>1. found \in Seq(Nodes(kconf))
        BY MatchesHold DEF Static
      <4>2. 0 \in Nat /\ 1 \in Int
        OBVIOUS
      <4> QED BY <4>1, <4>2, NewBoxHolds
    <3> QED BY <1>3, <3>1, JumpOpens
  <2> HIDE DEF f
  <2>3. f \in Held(T)
    BY <2>2 DEF Held
  <2>4. Push(f) /\ terminal' = terminal
        /\ (dialogs = <<>> \/ (Top.kind = "info" /\ dialogs # <<>> /\ Front(dialogs) = <<>>))
    <3>1. Push(f) /\ terminal' = terminal
      BY <1>19, <2>1 DEF OpenJump, f
    <3>2. dialogs = <<>> \/ (Top.kind = "info" /\ Below = <<>>)
      BY <1>1, <1>19 DEF OpenJump, Showing
    <3> QED BY <1>1, <3>1, <3>2 DEF Below
  <2>5. dialogs # <<>> => Len(dialogs) = 1 /\ dialogs[1].kind = "info"
    BY <1>1, <2>4, StackPop
  <2>6. Lies(f.kind, Len(dialogs) + 1, IF dialogs = <<>> THEN f.kind ELSE dialogs[1].kind)
    <3>1. CASE dialogs = <<>>
      <4>1. Len(dialogs) + 1 = 1
        BY <1>1, <3>1
      <4> QED BY <4>1 DEF Lies
    <3>2. CASE dialogs # <<>>
      <4>1. Len(dialogs) + 1 = 2
        <5> DEFINE n == Len(dialogs)
        <5> HIDE DEF n
        <5>1. n = 1
          BY <2>5, <3>2 DEF n
        <5>2. n + 1 = 2
          BY <5>1
        <5> QED BY <5>2 DEF n
      <4> QED BY <2>2, <2>5, <3>2, <4>1 DEF Lies
    <3> QED BY <3>1, <3>2
  <2> QED BY <2>2, <2>3, <2>4, <2>6, PushKeeps
<1>20. CASE CloseFull
  <2>1. dialogs # <<>> /\ BackTo(Below, main)
    BY <1>1, <1>20 DEF CloseFull, Showing
  <2> QED BY <2>1, BackKeeps
<1>21. CASE ScrollInfo
  <2>1. dialogs # <<>> /\ Top \in Infos /\ terminal' = terminal /\ Top.kind = "info"
    BY <1>1, <1>2, <1>21 DEF ScrollInfo, Showing
  <2>2. Top.scroll \in Nat
    BY <2>1 DEF Infos
  <2>3. PICK to \in Nat : OnTop([Top EXCEPT !.scroll = to])
    BY <1>21, <2>2, ScrollHolds DEF ScrollInfo
  <2> DEFINE f == [Top EXCEPT !.scroll = to]
  <2>4. f \in Held(T) /\ f.kind = "info"
    BY <2>1 DEF Held, Infos
  <2> HIDE DEF f
  <2>5. OnTop(f) /\ MatchSeen(f, MatchesHeight(terminal'))
    BY <2>3, <2>4 DEF f, MatchSeen
  <2> QED BY <2>1, <2>4, <2>5, OnTopKeeps
<1>22. CASE MoveMatch
  <2>1. dialogs # <<>> /\ Top \in Jumps /\ terminal' = terminal /\ Top.kind = "jump"
    BY <1>1, <1>2, <1>22 DEF MoveMatch, Showing
  <2>2. PICK p \in Moves(Top, Len(Top.found), MatchesHeight(terminal)) : OnTop(p)
    BY <1>22 DEF MoveMatch
  <2>3. p \in Jumps /\ p.kind = "jump" /\ MatchSeen(p, MatchesHeight(terminal))
    BY <1>3, <2>1, <2>2, JumpMoves DEF TopSeen
  <2>4. p \in Held(T)
    BY <2>3 DEF Held
  <2> QED BY <2>1, <2>2, <2>3, <2>4, OnTopKeeps
<1>23. CASE TypeSearch
  <2>1. dialogs # <<>> /\ Top \in Jumps /\ terminal' = terminal /\ Top.kind = "jump"
    BY <1>1, <1>2, <1>23 DEF TypeSearch, Showing
  <2>2. PICK b \in EditText(Top.box, JumpWidth(terminal)) :
          IF b.n = Top.box.n THEN OnTop([Top EXCEPT !.box = b])
          ELSE \E found \in Matches(b.n) :
                  OnTop([Top EXCEPT !.box = b, !.found = found, !.sel = 0, !.scroll = 0])
    BY <1>23 DEF TypeSearch
  <2>3. b \in Boxes
    BY <1>3, <2>1, <2>2, JumpType, EditHolds
  <2>4. \E f : f \in Jumps /\ f.kind = "jump" /\ MatchSeen(f, MatchesHeight(terminal)) /\ OnTop(f)
    <3>1. CASE b.n = Top.box.n
      BY <2>1, <2>2, <2>3, <3>1, JumpTyped DEF TopSeen
    <3>2. CASE b.n # Top.box.n
      <4>1. PICK found \in Matches(b.n) :
                OnTop([Top EXCEPT !.box = b, !.found = found, !.sel = 0, !.scroll = 0])
        BY <2>2, <3>2
      <4>2. found \in Seq(Nodes(kconf))
        BY MatchesHold DEF Static
      <4> DEFINE f == [Top EXCEPT !.box = b, !.found = found, !.sel = 0, !.scroll = 0]
      <4>3. f \in Jumps /\ f.kind = "jump" /\ \A h \in Nat \ {0} : MatchSeen(f, h)
        <5>1. \A l \in Seq(Nodes(kconf)) :
                 LET p == [Top EXCEPT !.box = b, !.found = l, !.sel = 0, !.scroll = 0]
                 IN p \in Jumps /\ p.kind = "jump" /\ p.box = b
                    /\ \A h \in Nat \ {0} : MatchSeen(p, h)
          BY <2>1, <2>3, JumpTyped
        <5> QED BY <4>2, <5>1
      <4> HIDE DEF f
      <4>4. OnTop(f)
        BY <4>1 DEF f
      <4> QED BY <1>3, <4>3, <4>4
    <3> QED BY <3>1, <3>2
  <2>5. PICK f : f \in Jumps /\ f.kind = "jump" /\ MatchSeen(f, MatchesHeight(terminal)) /\ OnTop(f)
    BY <2>4
  <2>6. f \in Held(T)
    BY <2>5 DEF Held
  <2> QED BY <2>1, <2>5, <2>6, OnTopKeeps
<1>24. CASE AcceptMatch
  <2>1. PICK k \in {Top.found[Top.sel + 1]} : JumpTo(k)
    BY <1>24 DEF AcceptMatch
  <2>2. k \in Nodes(kconf) /\ ~ main.lost
    <3>1. Top \in Jumps /\ Top.found # <<>> /\ ~ main.lost
      BY <1>1, <1>2, <1>24 DEF AcceptMatch, Showing
    <3>2. Top.found \in Seq(Nodes(kconf)) /\ Top.sel + 1 \in 1 .. Len(Top.found)
      BY <3>1, JumpType
    <3> QED BY <2>1, <3>1, <3>2
  <2>3. dialogs' = <<>>
    BY <2>1, <2>2, JumpHolds
  <2> QED BY <2>3, EmptyStack, NothingAbove
<1> QED
  BY <1>4, <1>5, <1>6, <1>8, <1>9, <1>10, <1>11, <1>13, <1>14, <1>15, <1>16, <1>17, <1>18,
     <1>19, <1>20, <1>21, <1>22, <1>23, <1>24 DEF Next

-----------------------------------------------------------------------------
(* The main display in a step, for its type *)

(* The cursor of a display without an error moves, or its window changes. *)
LEMMA WholeMoves ==
    ASSUME NEW s, Whole(s), NEW t, Moved(s, t), t.sel < Len(s.shown) \/ t.sel = s.sel
    PROVE  Whole(t)
BY DEF Whole, Moved

LEMMA FitWhole ==
    ASSUME NEW s, Whole(s), NEW h \in Nat \ {0}
    PROVE  Whole(Fit(s, h)) /\ Moved(s, Fit(s, h)) /\ Fit(s, h).sel = s.sel
<1>1. Moved(s, Fit(s, h)) /\ Fit(s, h).sel = s.sel
  BY FitMoves DEF Whole
<1> QED BY <1>1, WholeMoves

LEMMA CursorMoves ==
    ASSUME Static, Whole(main), ~ main.lost, NEW t \in Moves(main, Len(main.shown), height)
    PROVE  /\ Whole(t) /\ Moved(main, t) /\ t.sel < Len(main.shown)
           /\ Seen(main, height) => Seen(t, height)
<1>1. /\ main \in Displays /\ main.sel \in Nat /\ Len(main.shown) \in Nat
      /\ main.sel < Len(main.shown) /\ IsCursor(main) /\ height \in Nat \ {0}
  BY DisplayIsCursor DEF Whole, Displays, Static
<1>2. t \in Reach(main, Len(main.shown), height)
  BY <1>1, MovesReach
<1>3. PICK x \in Int \X Nat :
          /\ t = Put(main, x[1], x[2])
          /\ main.sel \in 0 .. Len(main.shown) - 1 => x[1] \in 0 .. Len(main.shown) - 1
          /\ Seen(main, height) => InView(x[1], x[2], Len(main.shown), height)
  BY <1>2 DEF Reach, Seen
<1>4. x[1] \in Nat /\ x[2] \in Nat /\ x[1] < Len(main.shown)
  BY <1>1, <1>3
<1>5. Moved(main, t) /\ t.sel = x[1] /\ t.scroll = x[2]
  BY <1>1, <1>3, <1>4, PutMoves
<1>6. t.shown = main.shown
  BY <1>5 DEF Moved
<1> QED BY <1>3, <1>4, <1>5, <1>6, WholeMoves DEF Seen

(* A list made anew has a selected node, or the node was not found. *)
LEMMA UpdateType ==
    ASSUME Static, NEW s, Whole(s), ~ s.lost, NEW w
    PROVE  Whole(UpdateMenu(s, w))
BY UpdateHolds DEF Whole

(* Every step keeps the display whole. *)
LEMMA MainType ==
    ASSUME Static, Whole(main), NEW T, Stack(dialogs, T), Next
    PROVE  /\ Whole(main') /\ height' \in Nat \ {0} /\ show_help' \in BOOLEAN
           /\ terminal' \in Terminals[kconf] /\ kconf' = kconf
<1> DEFINE Kept == /\ height' = height /\ show_help' = show_help /\ terminal' = terminal
                   /\ kconf' = kconf
<1>0. /\ kconf \in Kconfigs /\ height \in Nat \ {0} /\ show_help \in BOOLEAN
      /\ terminal \in Terminals[kconf]
  BY DEF Static
<1>a. ASSUME Kept, Whole(main') PROVE /\ Whole(main') /\ height' \in Nat \ {0}
                                      /\ show_help' \in BOOLEAN
                                      /\ terminal' \in Terminals[kconf] /\ kconf' = kconf
  BY <1>0, <1>a
<1>1. ASSUME NEW t \in Terminals[kconf], Resize(t)
      PROVE  /\ Whole(main') /\ height' \in Nat \ {0} /\ show_help' \in BOOLEAN
             /\ terminal' \in Terminals[kconf] /\ kconf' = kconf
  <2>1. terminal' = t /\ show_help' = show_help /\ kconf' = kconf
    BY <1>1 DEF Resize, config
  <2>2. CASE Top.kind \in {"jump", "info"}
    BY <1>0, <1>1, <2>1, <2>2 DEF Resize
  <2>3. CASE Top.kind \notin {"jump", "info"}
    <3>1. height' = MainHeight(t, show_help) /\ main' = Fit(main, height')
      BY <1>1, <2>3 DEF Resize
    <3>2. height' \in Nat \ {0}
      BY <1>0, <3>1, HeightHolds
    <3> QED BY <1>0, <2>1, <3>1, <3>2, FitWhole
  <2> QED BY <2>2, <2>3
<1>2. CASE MoveCursor
  <2>1. Kept /\ ~ main.lost /\ main' \in Moves(main, Len(main.shown), height)
    BY <1>2 DEF MoveCursor, config, Showing
  <2> QED BY <1>a, <2>1, CursorMoves
<1>3. CASE EnterSelected
  <2>1. /\ Kept /\ ~ main.lost /\ ShownNodes(Selected(main), now, main.all) # <<>>
        /\ EnterMenu(Selected(main))
    BY <1>3 DEF EnterSelected, config, Showing
  <2>2. Selected(main) \in Nodes(kconf)
    BY <2>1, SelectedType DEF Whole
  <2>3. Whole(main')
    BY <2>1, <2>2, EnterHolds DEF Whole
  <2> QED BY <1>a, <2>1, <2>3
<1>4. CASE LeaveCurrent
  <2>1. Kept /\ LeaveMenu(main, now)
    BY <1>4 DEF LeaveCurrent, config
  <2> QED BY <1>a, <2>1, LeaveType
<1>5. CASE ShowAll
  <2>1. Kept /\ main' = ToggleShowAll(main, now)
    BY <1>5 DEF ShowAll, config
  <2> QED BY <1>a, <2>1, ToggleType DEF Whole
<1>6. CASE ShowHelp
  <2>1. /\ show_help' = (~ show_help) /\ height' = MainHeight(terminal, show_help')
        /\ main' = Fit(main, height') /\ terminal' = terminal /\ kconf' = kconf
    BY <1>6 DEF ShowHelp, config
  <2>2. height' \in Nat \ {0}
    BY <1>0, <2>1, HeightHolds
  <2> QED BY <1>0, <2>1, <2>2, FitWhole
<1>7. ASSUME NEW i, NEW v, ~ main.lost PROVE Whole(AfterSet(i, v))
  BY <1>7, UpdateType DEF AfterSet
<1>8. CASE ChangeSelected
  <2>1. Kept /\ ~ main.lost
    BY <1>8 DEF ChangeSelected, config, Showing, SetVal
  <2>2. CASE main' = [main EXCEPT !.lost = TRUE]
    <3>1. Whole(main')
      BY <2>2 DEF Whole, Displays
    <3> QED BY <1>a, <2>1, <3>1
  <2>3. CASE main' # [main EXCEPT !.lost = TRUE]
    <3>1. PICK i, v : \E s \in {AfterSet(i, v)} : LeaveMenu(s, now') \/ main' = s
      BY <1>8, <2>3 DEF ChangeSelected
    <3>2. PICK s \in {AfterSet(i, v)} : LeaveMenu(s, now') \/ main' = s
      BY <3>1
    <3>3. Whole(s)
      BY <1>7, <2>1, <3>2
    <3>4. Whole(main')
      BY <3>2, <3>3, LeaveType
    <3> QED BY <1>a, <2>1, <3>4
  <2> QED BY <2>2, <2>3
<1>9. CASE SetSelected
  <2>1. Kept /\ ~ main.lost /\ \E i, v : main' = AfterSet(i, v)
    BY <1>9 DEF SetSelected, config, Showing, SetVal
  <2> QED BY <1>7, <1>a, <2>1
<1>10. CASE EnterText
  <2>1. Kept /\ ~ main.lost /\ \E i, v : main' = AfterSet(i, v)
    BY <1>10 DEF EnterText, config, Showing, SetVal
  <2> QED BY <1>7, <1>a, <2>1
<1>11. CASE LoadFile
  <2>1. Kept /\ ~ main.lost
    BY <1>11 DEF LoadFile, Showing
  <2> DEFINE hidden == Selected(main) \notin ToSet(ShownNodes(main.cur, now', main.all))
             s == [main EXCEPT !.all = @ \/ hidden]
  <2>2. main' = UpdateMenu(s, now')
    BY <1>11 DEF LoadFile
  <2> HIDE DEF hidden
  <2>3. Whole(s) /\ ~ s.lost
    BY <2>1 DEF Whole, Displays
  <2> HIDE DEF s
  <2> QED BY <1>a, <2>1, <2>2, <2>3, UpdateType
<1>12. CASE CloseFull
  <2>1. BackTo(Below, main)
    BY <1>12 DEF CloseFull
  <2>2. show_help' = show_help /\ terminal' = terminal /\ kconf' = kconf
    BY <2>1 DEF BackTo, config
  <2>3. CASE Below = <<>>
    <3>1. height' = MainHeight(terminal, show_help) /\ main' = Fit(main, height')
      BY <2>1, <2>3 DEF BackTo
    <3>2. height' \in Nat \ {0}
      BY <1>0, <3>1, HeightHolds
    <3> QED BY <1>0, <2>2, <3>1, <3>2, FitWhole
  <2>4. CASE Below # <<>>
    BY <1>0, <2>1, <2>2, <2>4 DEF BackTo
  <2> QED BY <2>3, <2>4
<1>13. CASE AcceptMatch
  <2>1. PICK k \in {Top.found[Top.sel + 1]} : JumpTo(k)
    BY <1>13 DEF AcceptMatch
  <2>2. k \in Nodes(kconf) /\ ~ main.lost
    <3>1. Top \in Jumps /\ Top.found # <<>> /\ ~ main.lost
      <4>1. Top.kind = "jump" /\ Top.found # <<>> /\ ~ main.lost
        BY <1>13 DEF AcceptMatch, Showing
      <4>2. Top \in Held(T)
        BY <4>1, TopHolds DEF Top
      <4> QED BY <4>1, <4>2, FrameKinds
    <3>2. Top.found \in Seq(Nodes(kconf)) /\ Top.sel + 1 \in 1 .. Len(Top.found)
      BY <3>1, JumpType
    <3> QED BY <2>1, <3>1, <3>2
  <2>3. /\ Whole(main') /\ height' = MainHeight(terminal, show_help)
        /\ UNCHANGED <<config, show_help, terminal>>
    BY <2>1, <2>2, JumpHolds
  <2>4. height' \in Nat \ {0}
    BY <1>0, <2>3, HeightHolds
  <2> QED BY <1>0, <2>3, <2>4 DEF config
<1>14. CASE \/ ChangeText \/ AskForFile \/ TypeInput \/ RefuseInput \/ AskToQuit \/ Quit
            \/ CloseDialog \/ OpenInfo \/ OpenJump \/ ScrollInfo \/ MoveMatch \/ TypeSearch
  <2>1. Kept /\ main' = main
    BY <1>14 DEF ChangeText, AskForFile, AskFor, TypeInput, RefuseInput, AskToQuit, Quit,
                 CloseDialog, OpenInfo, OpenJump, ScrollInfo, MoveMatch, TypeSearch, config
  <2> QED BY <1>a, <2>1
<1> QED
  BY <1>1, <1>2, <1>3, <1>4, <1>5, <1>6, <1>8, <1>9, <1>10, <1>11, <1>12, <1>13, <1>14 DEF Next

-----------------------------------------------------------------------------
(* Types *)

(* What an edit box can ask about, NoValue being a file. *)
Asking == Texts \cup {NoValue}

TypeInv == Static /\ Whole(main) /\ Stack(dialogs, Asking) /\ TopSeen

(* A top menu shows something, at least with show-all on. *)
LEMMA TopMenuShows ==
    ASSUME kconf \in Kconfigs, NEW w
    PROVE  ShownNodes(0, w, TRUE) # <<>>
<1>1. 1 \in Nodes(kconf) /\ Node(1).parent = 0
  <2>1. 1 \in Nodes(kconf)
    BY TreeType DEF Nodes
  <2>2. Tree[kconf][1].parent \in 0 .. 1 - 1
    BY <2>1, TreeType
  <2> QED BY <2>1, <2>2 DEF Node
<1>2. ParentMenu(1) = 0
  <2>1. ParentMenu(1) \in Nat /\ ParentMenu(1) < 1
    BY <1>1, ParentHolds, TreeType
  <2> QED BY <2>1
<1>3. 1 \in Listed(0, w, TRUE) /\ ~ Repeated(1, 0, Listed(0, w, TRUE))
  BY <1>1, <1>2, OrderHolds DEF Listed, Appears, Locations, IsChoice, Repeated
<1>4. 1 \in ToSet(ShownNodes(0, w, TRUE))
  BY <1>3, ShownHolds
<1>5. ToSet(<<>>) = {}
  BY DEF ToSet
<1> QED BY <1>4, <1>5

(* The screen opens on a display as it should be. *)
LEMMA InitHolds ==
    ASSUME Init
    PROVE  /\ Static /\ Fine(main, now) /\ Seen(main, height) /\ dialogs = <<>> /\ TopSeen
           /\ now = View(kconf, user)
<1>1. /\ kconf \in Kconfigs /\ terminal \in Terminals[kconf] /\ show_help = FALSE
      /\ height = MainHeight(terminal, show_help) /\ dialogs = <<>> /\ now = View(kconf, user)
  BY DEF Init
<1>2. Static
  BY <1>1, HeightHolds DEF Static
<1> DEFINE all == ShownNodes(0, now, FALSE) = <<>>
           shown == ShownNodes(0, now, all)
<1>3. main = [cur |-> 0, shown |-> shown, sel |-> 0, scroll |-> 0,
              rows |-> <<>>, all |-> all, lost |-> FALSE]
  BY DEF Init
<1>4. shown \in Seq(Nodes(kconf)) /\ shown # <<>>
  <2>1. CASE all
    <3>1. shown = ShownNodes(0, now, TRUE)
      BY <2>1
    <3> QED BY <1>1, <3>1, ShownHolds, TopMenuShows
  <2>2. CASE ~ all
    <3>1. shown = ShownNodes(0, now, FALSE)
      BY <2>2
    <3> QED BY <1>1, <2>2, <3>1, ShownHolds
  <2> QED BY <2>1, <2>2
<1>5. all \in BOOLEAN /\ shown = ShownNodes(0, now, all)
  OBVIOUS
<1> HIDE DEF all, shown
<1>6. /\ Len(shown) \in Nat /\ 0 < Len(shown) /\ 0 \in 0 .. Len(Tree[kconf])
      /\ Depth(0) \in Nat /\ IsMenu(0)
  <2>1. 0 \in 0 .. Len(Tree[kconf])
    BY <1>1, TreeType
  <2> QED BY <1>1, <1>4, <2>1, DepthHolds DEF IsMenu
<1>7. main \in Displays
  BY <1>3, <1>4, <1>5, <1>6 DEF Displays
<1>8. /\ main.cur = 0 /\ main.shown = shown /\ main.sel = 0 /\ main.scroll = 0
      /\ main.rows = <<>> /\ main.all = all /\ main.lost = FALSE
  BY <1>3
<1>9. Fine(main, now)
  <2>1. <<>> \in Seq(Nat) /\ Len(<<>>) = 0
    OBVIOUS
  <2> QED BY <1>5, <1>6, <1>7, <1>8, <2>1 DEF Fine, Whole
<1>10. Seen(main, height)
  BY <1>2, <1>6, <1>8 DEF Seen, InView, Static
<1>11. TopSeen
  <2>1. Top = [kind |-> "main"]
    BY <1>1 DEF Top
  <2>2. Top.kind # "jump"
    BY <2>1
  <2> QED BY <2>2 DEF TopSeen, MatchSeen
<1> QED BY <1>1, <1>2, <1>9, <1>10, <1>11

(* The tree stays, so that the invariants can be said of the next state. *)
LEMMA SameStack ==
    ASSUME kconf' = kconf
    PROVE  /\ \A d, T : Stack(d, T)' = Stack(d, T)
           /\ \A s : Whole(s)' = Whole(s)
           /\ \A s, w : Fine(s, w)' = Fine(s, w)
<1>1. \A d, T : Stack(d, T)' = Stack(d, T)
  BY DEF Stack, Held, Jumps, Inputs, Nodes
<1>2. \A s : Whole(s)' = Whole(s)
  BY DEF Whole, Displays, Nodes
<1>3. \A s, w : Fine(s, w)' = Fine(s, w)
  <2>1. \A k : Depth(k)' = Depth(k)
    BY DEF Depth, Above, IsMenu, Node
  <2> QED BY <1>2, <2>1, SameTree DEF Fine
<1> QED BY <1>1, <1>2, <1>3

(* The type invariant is inductive. *)
LEMMA TypeStep ==
    ASSUME TypeInv, [Next]_vars
    PROVE  TypeInv'
<1>1. Static /\ Whole(main) /\ Stack(dialogs, Asking) /\ TopSeen
  BY DEF TypeInv
<1>2. CASE Next
  <2>1. /\ Whole(main') /\ height' \in Nat \ {0} /\ show_help' \in BOOLEAN
        /\ terminal' \in Terminals[kconf] /\ kconf' = kconf
    BY <1>1, <1>2, MainType
  <2>2. Stack(dialogs', Asking) /\ TopSeen'
    <3>1. NoValue \in Asking /\ (ChangeText => Node(Selected(main)).item \in Asking)
      BY DEF Asking, ChangeText
    <3> QED BY <1>1, <1>2, <3>1, DialogsStep
  <2>3. Static'
    BY <1>1, <2>1 DEF Static
  <2> QED BY <2>1, <2>2, <2>3, SameStack DEF TypeInv, Asking
<1>3. CASE UNCHANGED vars
  <2>1. kconf' = kconf /\ main' = main /\ dialogs' = dialogs /\ terminal' = terminal
        /\ height' = height /\ show_help' = show_help
    BY <1>3 DEF vars
  <2>2. Static'
    BY <1>1, <2>1 DEF Static
  <2>3. TopSeen'
    BY <1>1, <2>1, SameTop
  <2> QED BY <1>1, <2>1, <2>2, <2>3, SameStack DEF TypeInv, Asking
<1> QED BY <1>2, <1>3

LEMMA TypeInvHolds == Spec => []TypeInv
<1>1. Init => TypeInv
  BY InitHolds, EmptyStack DEF TypeInv, Fine
<1>2. TypeInv /\ [Next]_vars => TypeInv'
  BY TypeStep
<1> QED BY <1>1, <1>2, PTL DEF Spec

(* The dialogs are those of TypeOK. *)
LEMMA FramesHold ==
    ASSUME NEW f \in Held(Asking)
    PROVE  f \in Frames
<1>1. ASSUME f \in Jumps PROVE f \in Frames
  <2>1. /\ f \in [kind : {"jump"}, box : Boxes, found : Seq(Nodes(kconf)), sel : Int, scroll : Nat]
        /\ Boxes \subseteq [n : Nat, i : Nat, h : Nat]
    BY <1>1 DEF Jumps, Boxes
  <2>2. Seq(Nodes(kconf)) \subseteq Seq(Nat)
    BY DEF Nodes
  <2>3. f \in [kind : {"jump"}, box : [n : Nat, i : Nat, h : Nat], found : Seq(Nat), sel : Int,
               scroll : Nat]
    BY <2>1, <2>2
  <2> QED BY <2>3 DEF Frames
<1>2. ASSUME f \in Inputs(Asking) PROVE f \in Frames
  <2>1. f \in [kind : {"input"}, of : Texts \cup {NoValue}, box : [n : Nat, i : Nat, h : Nat]]
    BY <1>2 DEF Inputs, Boxes, Asking
  <2> QED BY <2>1 DEF Frames
<1>3. f \in Infos \cup KeyDialogs => f \in Frames
  BY DEF Infos, KeyDialogs, Frames
<1> QED BY <1>1, <1>2, <1>3 DEF Held

(* The type invariant. *)
THEOREM TypeCorrect == Spec => []TypeOK
<1>1. TypeInv => TypeOK
  <2> SUFFICES ASSUME TypeInv PROVE TypeOK
    OBVIOUS
  <2>1. main \in Main /\ height \in Nat \ {0} /\ terminal \in Terminals[kconf]
    <3>1. main \in Displays /\ Seq(Nodes(kconf)) \subseteq Seq(Nat)
      BY DEF TypeInv, Whole, Nodes
    <3>2. main \in Main
      BY <3>1 DEF Displays, Main
    <3> QED BY <3>2 DEF TypeInv, Static
  <2>2. ASSUME NEW j \in DOMAIN dialogs
        PROVE  /\ dialogs[j] \in Frames
               /\ dialogs[j].kind \in {"key", "info"} => j <= 3
               /\ j > 1 /\ dialogs[j].kind = "jump" => dialogs[j - 1].kind = "info" /\ j = 2
    <3>1. dialogs \in Seq(Held(Asking)) /\ \A x \in 1 .. Len(dialogs) :
              Lies(dialogs[x].kind, x, dialogs[1].kind)
      BY DEF TypeInv, Stack
    <3>2. j \in 1 .. Len(dialogs) /\ dialogs[j] \in Held(Asking)
      BY <3>1
    <3>3. Lies(dialogs[j].kind, j, dialogs[1].kind)
      BY <3>1, <3>2
    <3>4. dialogs[j] \in Frames
      BY <3>2, FramesHold
    <3>5. j > 1 /\ dialogs[j].kind = "jump" => dialogs[j - 1].kind = "info" /\ j = 2
      <4>1. j > 1 /\ dialogs[j].kind = "jump" => j = 2 /\ dialogs[1].kind = "info"
        BY <3>2, <3>3 DEF Lies
      <4>2. j = 2 => j - 1 = 1
        OBVIOUS
      <4> QED BY <4>1, <4>2
    <3> QED BY <3>3, <3>4, <3>5 DEF Lies
  <2> QED BY <2>1, <2>2 DEF TypeOK
<1> QED BY <1>1, TypeInvHolds, PTL

(* A key of an edit box leaves the cursor clear of its edges. *)
THEOREM KeysClear == Spec => KeysKeepClear
<1> DEFINE Width == IF Top.kind = "jump" THEN JumpWidth(terminal) ELSE InputWidth(terminal)
           Action == TypeInput \/ TypeSearch =>
                       (Width >= SCROLL_OFFSET + 2 => Clear(Last(dialogs').box, Width))
<1>1. ASSUME TypeInv, TypeInput \/ TypeSearch
      PROVE  Width >= SCROLL_OFFSET + 2 => Clear(Last(dialogs').box, Width)
  <2>1. /\ Stack(dialogs, Asking) /\ JumpWidth(terminal) \in Int /\ InputWidth(terminal) \in Int
    BY <1>1, HeightHolds DEF TypeInv, Static
  <2>2. ASSUME NEW f \in Held(Asking), OnTop(f), dialogs # <<>>,
               f.kind = Top.kind
        PROVE  Last(dialogs') = f
    BY <2>1, <2>2, StackTop, TopHolds DEF OnTop, Below
  <2>3. CASE TypeInput
    <3>1. PICK b \in EditText(Top.box, InputWidth(terminal)) : OnTop([Top EXCEPT !.box = b])
      BY <2>3 DEF TypeInput
    <3>2. Top.kind = "input" /\ dialogs # <<>> /\ Top \in Inputs(Asking)
      <4>1. Top.kind = "input"
        BY <2>3 DEF TypeInput, Showing
      <4>2. dialogs # <<>> /\ Top \in Held(Asking)
        BY <2>1, <4>1, TopHolds
      <4> QED BY <4>1, <4>2, FrameKinds
    <3>3. Top.box \in Boxes
      BY <3>2 DEF Inputs
    <3>4. /\ b \in Boxes
          /\ InputWidth(terminal) >= SCROLL_OFFSET + 2 => Clear(b, InputWidth(terminal))
      BY <2>1, <3>1, <3>3, EditHolds
    <3> DEFINE f == [Top EXCEPT !.box = b]
    <3>5. f \in Held(Asking) /\ f.kind = Top.kind /\ f.box = b
      BY <3>2, <3>4, InputTyped
    <3> HIDE DEF f
    <3>6. Last(dialogs') = f
      BY <2>2, <3>1, <3>2, <3>5 DEF f
    <3>7. Width = InputWidth(terminal)
      BY <3>2
    <3> QED BY <3>4, <3>5, <3>6, <3>7
  <2>4. CASE TypeSearch
    <3>1. PICK b \in EditText(Top.box, JumpWidth(terminal)) :
            IF b.n = Top.box.n THEN OnTop([Top EXCEPT !.box = b])
            ELSE \E found \in Matches(b.n) :
                    OnTop([Top EXCEPT !.box = b, !.found = found, !.sel = 0, !.scroll = 0])
      BY <2>4 DEF TypeSearch
    <3>2. Top.kind = "jump" /\ dialogs # <<>> /\ Top \in Jumps
      <4>1. Top.kind = "jump"
        BY <2>4 DEF TypeSearch, Showing
      <4>2. dialogs # <<>> /\ Top \in Held(Asking)
        BY <2>1, <4>1, TopHolds
      <4> QED BY <4>1, <4>2, FrameKinds
    <3>3. Top.box \in Boxes
      BY <3>2, JumpType
    <3>4. /\ b \in Boxes
          /\ JumpWidth(terminal) >= SCROLL_OFFSET + 2 => Clear(b, JumpWidth(terminal))
      BY <2>1, <3>1, <3>3, EditHolds
    <3>5. \E f : f \in Jumps /\ f.kind = "jump" /\ f.box = b /\ OnTop(f)
      <4>1. CASE b.n = Top.box.n
        BY <3>1, <3>2, <3>4, <4>1, JumpTyped
      <4>2. CASE b.n # Top.box.n
        <5>1. PICK found \in Matches(b.n) :
                  OnTop([Top EXCEPT !.box = b, !.found = found, !.sel = 0, !.scroll = 0])
          BY <3>1, <4>2
        <5>2. found \in Seq(Nodes(kconf))
          BY <1>1, MatchesHold DEF TypeInv, Static
        <5> DEFINE f == [Top EXCEPT !.box = b, !.found = found, !.sel = 0, !.scroll = 0]
        <5>3. f \in Jumps /\ f.kind = "jump" /\ f.box = b
          <6>1. \A l \in Seq(Nodes(kconf)) :
                   LET p == [Top EXCEPT !.box = b, !.found = l, !.sel = 0, !.scroll = 0]
                   IN p \in Jumps /\ p.kind = "jump" /\ p.box = b
                      /\ \A h \in Nat \ {0} : MatchSeen(p, h)
            BY <3>2, <3>4, JumpTyped
          <6> QED BY <5>2, <6>1
        <5> HIDE DEF f
        <5>4. OnTop(f)
          BY <5>1 DEF f
        <5> QED BY <5>3, <5>4
      <4> QED BY <4>1, <4>2
    <3>6. PICK f : f \in Jumps /\ f.kind = "jump" /\ f.box = b /\ OnTop(f)
      BY <3>5
    <3>7. Last(dialogs') = f
      BY <2>2, <3>2, <3>6 DEF Held
    <3>8. Width = JumpWidth(terminal)
      BY <3>2
    <3> QED BY <3>4, <3>6, <3>7, <3>8
  <2> QED BY <1>1, <2>3, <2>4
<1>2. TypeInv => Action
  BY <1>1
<1>3. TypeInv => [TypeInput \/ TypeSearch =>
         LET width == IF Top.kind = "jump" THEN JumpWidth(terminal) ELSE InputWidth(terminal)
         IN width >= SCROLL_OFFSET + 2 => Clear(Last(dialogs').box, width)]_vars
  BY <1>2
<1> QED BY <1>3, TypeInvHolds, PTL DEF KeysKeepClear

-----------------------------------------------------------------------------
(* The main display as it should be, in a step.  Of the values, ValuesFit is
   what is needed; of the tree, PlainChoices.                                 *)

(* What it does ask about *)
Asked == {NoValue, Node(Selected(main)).item}

GoodInv ==
    /\ Fine(main, now) /\ Seen(main, height) /\ Stack(dialogs, Asked)
    /\ now = View(kconf, user)

(* What a step may do to it: where input dialogs stay open, the node that they
   ask about is still selected.                                               *)
Goes ==
    /\ Fine(main', now') /\ Seen(main', height') /\ now' = View(kconf, user')
    /\ dialogs' \in {<<>>, <<[kind |-> "key"]>>} \/ Selected(main') = Selected(main)
    /\ now' # now /\ main'.cur = main.cur =>
         /\ Selected(main') = Selected(main)
         /\ Row(main') = Row(main) \/ main'.scroll = 0

(* A selected node appears, so that it can be found after a value. *)
LEMMA SelectedListed ==
    ASSUME Static, Fine(main, now)
    PROVE  /\ Selected(main) \in DOMAIN Order /\ Selected(main) \in Nodes(kconf)
           /\ Appears(Selected(main), now, main.all)
<1>1. main \in Displays /\ main.sel < Len(main.shown) /\ kconf \in Kconfigs
  BY FineType DEF Static
<1>2. Selected(main) \in ToSet(ShownNodes(main.cur, now, main.all))
  BY <1>1, SelectedType DEF Fine
<1>3. Selected(main) \in Listed(main.cur, now, main.all)
  BY <1>1, <1>2, ShownHolds
<1> QED BY <1>1, <1>3, OrderHolds DEF Listed

(* A value that is given to the selected node leaves it in its place. *)
LEMMA SetFine ==
    ASSUME Static, PlainChoices, GoodInv, StaysListed, NEW i \in Items,
           i = Node(Selected(main)).item, NEW v, SetVal(i, v)
    PROVE  \E s : /\ s = AfterSet(i, v) /\ Fine(s, now') /\ Seen(s, height)
                  /\ s.cur = main.cur /\ Selected(s) = Selected(main)
                  /\ (now' # now => Row(s) = Row(main) \/ s.scroll = 0)
                  /\ now' = View(kconf, user')
<1>1. /\ changes < MaxChanges[kconf]
      /\ user' = IF v = now.value[i] THEN user ELSE Given(i, v)
      /\ now' = IF v = now.value[i] THEN now ELSE View(kconf, user')
  BY DEF SetVal, Given
<1>2. Fine(main, now) /\ Seen(main, height) /\ now = View(kconf, user)
  BY DEF GoodInv
<1>3. CASE v = now.value[i]
  BY <1>1, <1>2, <1>3 DEF AfterSet
<1>4. CASE v # now.value[i]
  <2>1. user' = Given(i, v) /\ now' = View(kconf, user') /\ AfterSet(i, v) = UpdateMenu(main, now')
    BY <1>1, <1>4 DEF AfterSet
  <2>2. Appears(Selected(main), now', main.all)
    <3>1. CASE main.all
      BY <3>1 DEF Appears
    <3>2. CASE ~ main.all
      <4>1. /\ Selected(main) \in DOMAIN Order /\ Appears(Selected(main), now, FALSE)
        BY <1>2, <3>2, SelectedListed DEF Appears
      <4>2. CASE v \in Accepts[i]
        <5>1. Appears(Selected(main), View(kconf, Given(i, v)), FALSE)
          BY <1>1, <4>1, <4>2 DEF StaysListed
        <5> QED BY <2>1, <3>2, <5>1 DEF Appears
      <4>3. CASE v \notin Accepts[i]
        <5>1. Given(i, v) = user
          BY <4>3 DEF Given, Give, GiveMode
        <5> QED BY <1>2, <2>1, <3>2, <4>1, <5>1 DEF Appears
      <4> QED BY <4>2, <4>3
    <3> QED BY <3>1, <3>2
  <2>3. \E t : /\ t = UpdateMenu(main, now') /\ Fine(t, now') /\ t.cur = main.cur
               /\ t.all = main.all /\ Selected(t) = Selected(main)
               /\ Seen(main, height) => Seen(t, height)
               /\ Row(t) = Row(main) \/ t.scroll = 0
    BY <1>2, <2>2, UpdateFine
  <2> QED BY <1>2, <2>1, <2>3
<1> QED BY <1>3, <1>4

(* What is selected stays selected while the cursor stays. *)
LEMMA SameSelected ==
    ASSUME NEW s, NEW t, Moved(s, t), t.sel = s.sel
    PROVE  Selected(t) = Selected(s)
BY DEF Selected, Moved

LEMMA FitFine ==
    ASSUME NEW s, NEW w, Fine(s, w), NEW g, Seen(s, g), NEW h \in Nat \ {0}
    PROVE  Fine(Fit(s, h), w) /\ Seen(Fit(s, h), h) /\ Selected(Fit(s, h)) = Selected(s)
<1>1. s \in Displays /\ s.sel < Len(s.shown) /\ s.scroll <= s.sel
  BY FineType DEF Seen, InView
<1>2. Moved(s, Fit(s, h)) /\ Fit(s, h).sel = s.sel /\ Seen(Fit(s, h), h)
  BY <1>1, FitMoves
<1> QED BY <1>1, <1>2, FineMoved, SameSelected

(* Every step of the screen, one case for each action. *)
LEMMA MainGoes ==
    ASSUME PlainChoices, TypeInv, GoodInv, ValuesFit, MenusFollow(now'), Next
    PROVE  Goes
<1>1. /\ Static /\ Whole(main) /\ Fine(main, now) /\ Seen(main, height)
      /\ now = View(kconf, user) /\ ~ main.lost
      /\ main \in Displays /\ main.sel < Len(main.shown) /\ kconf \in Kconfigs
      /\ terminal \in Terminals[kconf] /\ height \in Nat \ {0}
  BY FineType DEF TypeInv, GoodInv, Fine, Static
<1>2. /\ Stack(dialogs, Asked) /\ Stack(dialogs, Asking)
      /\ Showing("main") => dialogs = <<>>
      /\ dialogs # <<>> => Top \in Held(Asked) /\ Top \in Held(Asking)
      /\ dialogs = <<>> => Top.kind = "main"
  BY TopHolds DEF TypeInv, GoodInv, Showing
<1>3. ASSUME UNCHANGED config, Fine(main', now), Seen(main', height'),
             dialogs' = <<>> \/ Selected(main') = Selected(main)
      PROVE  Goes
  BY <1>1, <1>3 DEF Goes, config
<1>4. ASSUME NEW t \in Terminals[kconf], Resize(t) PROVE Goes
  <2>1. UNCHANGED config
    BY <1>4 DEF Resize
  <2>2. CASE Top.kind \in {"jump", "info"}
    BY <1>1, <1>3, <1>4, <2>1, <2>2 DEF Resize
  <2>3. CASE Top.kind \notin {"jump", "info"}
    <3>1. height' = MainHeight(t, show_help) /\ main' = Fit(main, height')
      BY <1>4, <2>3 DEF Resize
    <3>2. height' \in Nat \ {0}
      BY <1>1, <3>1, HeightHolds
    <3> QED BY <1>1, <1>3, <2>1, <3>1, <3>2, FitFine
  <2> QED BY <2>2, <2>3
<1>5. CASE MoveCursor
  <2>1. /\ UNCHANGED <<config, height, dialogs>> /\ dialogs = <<>>
        /\ main' \in Moves(main, Len(main.shown), height)
    BY <1>2, <1>5 DEF MoveCursor
  <2>2. Fine(main', now) /\ Seen(main', height)
    BY <1>1, <2>1, CursorMoves, FineMoved
  <2> QED BY <1>3, <2>1, <2>2
<1>6. CASE EnterSelected
  <2>1. /\ UNCHANGED <<config, height, dialogs>> /\ dialogs = <<>>
        /\ IsMenu(Selected(main)) /\ ShownNodes(Selected(main), now, main.all) # <<>>
        /\ EnterMenu(Selected(main))
    BY <1>2, <1>6 DEF EnterSelected
  <2> QED BY <1>1, <1>3, <2>1, EnterFine
<1>7. CASE LeaveCurrent
  <2>1. /\ UNCHANGED <<config, height, dialogs>> /\ dialogs = <<>> /\ LeaveMenu(main, now)
    BY <1>2, <1>7 DEF LeaveCurrent
  <2>2. MenusFollow(now)
    BY DEF ValuesFit
  <2> QED BY <1>1, <1>3, <2>1, <2>2, LeaveFine
<1>8. CASE ShowAll
  <2>1. /\ UNCHANGED <<config, height, dialogs>> /\ dialogs = <<>>
        /\ main' = ToggleShowAll(main, now)
    BY <1>2, <1>8 DEF ShowAll
  <2> QED BY <1>1, <1>3, <2>1, ToggleFine
<1>9. CASE ShowHelp
  <2>1. /\ UNCHANGED config /\ height' = MainHeight(terminal, show_help')
        /\ main' = Fit(main, height')
    BY <1>9 DEF ShowHelp
  <2>2. height' \in Nat \ {0}
    BY <1>1, <2>1, HeightHolds
  <2> QED BY <1>1, <1>3, <2>1, <2>2, FitFine
<1>10. CASE ChangeSelected
  <2> DEFINE k == Selected(main)
             i == Node(k).item
             all == now.assignable[i]
  <2>1. /\ Changeable(k) /\ i \notin Texts /\ dialogs' = <<>> /\ height' = height
        /\ i \in Items
    BY <1>2, <1>10 DEF ChangeSelected, Changeable
  <2>2. ~ (Cardinality(all) > 1 /\ now.value[i] \notin all)
    <3>1. k \in DOMAIN Order
      BY <1>1, SelectedListed
    <3> QED BY <2>1, <3>1 DEF ValuesFit, ValuesOffered
  <2>3. PICK v : /\ SetVal(i, v)
                 /\ \E s \in {AfterSet(i, v)} :
                       IF i \in now'.y_mode /\ Children(k) = {} /\ ~ s.lost
                       THEN LeaveMenu(s, now') ELSE main' = s
    BY <1>10, <2>2 DEF ChangeSelected
  <2> HIDE DEF i, all
  <2>4. PICK s : /\ s = AfterSet(i, v) /\ Fine(s, now') /\ Seen(s, height)
                 /\ s.cur = main.cur /\ Selected(s) = Selected(main)
                 /\ (now' # now => Row(s) = Row(main) \/ s.scroll = 0)
                 /\ now' = View(kconf, user')
    <3>1. StaysListed /\ i = Node(Selected(main)).item
      BY DEF ValuesFit, i
    <3> QED BY <1>1, <2>1, <2>3, <3>1, SetFine
  <2>5. LeaveMenu(s, now') \/ main' = s
    BY <2>3, <2>4
  <2>6. CASE main' = s
    BY <2>1, <2>4, <2>6 DEF Goes
  <2>7. CASE LeaveMenu(s, now')
    <3>1. Fine(main', now') /\ Seen(main', height) /\ (main'.cur = s.cur => main' = s)
      BY <1>1, <2>4, <2>7, LeaveFine
    <3> QED BY <2>1, <2>4, <3>1 DEF Goes
  <2> QED BY <2>5, <2>6, <2>7
<1>11. ASSUME NEW i \in Items, i = Node(Selected(main)).item, NEW v, SetVal(i, v),
              main' = AfterSet(i, v), height' = height
       PROVE  Goes
  <2>1. StaysListed
    BY DEF ValuesFit
  <2>2. PICK s : /\ s = AfterSet(i, v) /\ Fine(s, now') /\ Seen(s, height)
                 /\ s.cur = main.cur /\ Selected(s) = Selected(main)
                 /\ (now' # now => Row(s) = Row(main) \/ s.scroll = 0)
                 /\ now' = View(kconf, user')
    BY <1>1, <1>11, <2>1, SetFine
  <2> QED BY <1>11, <2>2 DEF Goes
<1>12. CASE SetSelected
  <2>1. /\ Node(Selected(main)).item \in Items /\ height' = height
        /\ \E v : SetVal(Node(Selected(main)).item, v)
                  /\ main' = AfterSet(Node(Selected(main)).item, v)
    BY <1>12 DEF SetSelected
  <2> QED BY <1>11, <2>1
<1>13. CASE EnterText
  <2>1. /\ height' = height /\ Top.of # NoValue /\ Top.kind = "input" /\ dialogs # <<>>
        /\ \E v : SetVal(Top.of, v) /\ main' = AfterSet(Top.of, v)
    BY <1>2, <1>13 DEF EnterText, Showing
  <2>2. Top \in Inputs(Asked) /\ Top \in Inputs(Asking)
    BY <1>2, <2>1, FrameKinds
  <2>3. Top.of = Node(Selected(main)).item /\ Top.of \in Items
    <3>1. Top.of \in Asked /\ Top.of \in Asking
      BY <2>2 DEF Inputs
    <3> QED BY <2>1, <3>1, ScreenAssumption DEF Asked, Asking, Items
  <2> QED BY <1>11, <2>1, <2>3
<1>14. CASE LoadFile
  <2> DEFINE hidden == Selected(main) \notin ToSet(ShownNodes(main.cur, now', main.all))
             s == [main EXCEPT !.all = @ \/ hidden]
  <2>1. /\ main' = UpdateMenu(s, now') /\ height' = height /\ now' = View(kconf, user')
        /\ dialogs' = <<[kind |-> "key"]>>
    BY <1>14 DEF LoadFile
  <2>2. hidden \in BOOLEAN
    OBVIOUS
  <2>3. Selected(main) \in ToSet(ShownNodes(main.cur, now', main.all \/ hidden))
    <3>1. CASE ~ hidden
      <4>1. main.all \in BOOLEAN
        BY <1>1, FineType
      <4>2. (main.all \/ hidden) = main.all
        BY <3>1, <4>1
      <4>3. Selected(main) \in ToSet(ShownNodes(main.cur, now', main.all))
        BY <3>1
      <4> QED BY <4>2, <4>3
    <3>2. CASE hidden
      <4>1. Selected(main) \in Listed(main.cur, now, main.all)
        <5>1. Selected(main) \in ToSet(ShownNodes(main.cur, now, main.all))
          BY <1>1, SelectedType DEF Fine
        <5> QED BY <1>1, <5>1, ListedShown, FineType
      <4>2. Selected(main) \in Listed(main.cur, now', TRUE)
        BY <4>1 DEF Listed, Appears
      <4>3. Selected(main) \in ToSet(ShownNodes(main.cur, now', TRUE))
        BY <1>1, <4>2, ListedShown, FineType
      <4>4. (main.all \/ hidden) = TRUE
        BY <3>2
      <4> QED BY <4>3, <4>4
    <3> QED BY <3>1, <3>2
  <2> HIDE DEF hidden
  <2>4. /\ s \in Displays /\ s.cur = main.cur /\ s.shown = main.shown /\ s.sel = main.sel
        /\ s.scroll = main.scroll /\ s.rows = main.rows /\ s.lost = main.lost
        /\ s.all = (main.all \/ hidden)
    BY <1>1, <2>2 DEF Displays
  <2> HIDE DEF s
  <2>5. Selected(s) = Selected(main) /\ Seen(s, height) /\ s.sel < Len(s.shown)
        /\ Row(s) = Row(main)
    BY <1>1, <2>4 DEF Selected, Seen, Row
  <2>6. \E t : /\ t = UpdateMenu(s, now') /\ t \in Displays
               /\ t.cur = s.cur /\ t.rows = s.rows /\ t.all = s.all /\ t.lost = s.lost
               /\ t.shown = ShownNodes(s.cur, now', s.all) /\ t.sel < Len(t.shown)
               /\ Selected(t) = Selected(s)
               /\ Seen(s, height) => Seen(t, height)
               /\ Row(t) = Row(s) \/ t.scroll = 0
    BY <1>1, <2>3, <2>4, <2>5, UpdateHolds
  <2>7. /\ main' \in Displays /\ main'.cur = main.cur /\ main'.rows = main.rows
        /\ main'.lost = main.lost /\ main'.shown = ShownNodes(main'.cur, now', main'.all)
        /\ main'.sel < Len(main'.shown) /\ Selected(main') = Selected(main)
        /\ Seen(main', height) /\ (Row(main') = Row(main) \/ main'.scroll = 0)
    BY <2>1, <2>4, <2>5, <2>6
  <2>8. Fine(main', now')
    BY <1>1, <2>7 DEF Fine, Whole
  <2> QED BY <2>1, <2>7, <2>8 DEF Goes
<1>15. CASE CloseFull
  <2>1. BackTo(Below, main) /\ UNCHANGED config /\ terminal' = terminal
    BY <1>15 DEF CloseFull, BackTo
  <2>2. CASE Below = <<>>
    <3>1. height' = MainHeight(terminal, show_help) /\ main' = Fit(main, height')
      BY <2>1, <2>2 DEF BackTo
    <3>2. height' \in Nat \ {0}
      BY <1>1, <3>1, HeightHolds
    <3> QED BY <1>1, <1>3, <2>1, <3>1, <3>2, FitFine
  <2>3. CASE Below # <<>>
    BY <1>1, <1>3, <2>1, <2>3 DEF BackTo
  <2> QED BY <2>2, <2>3
<1>16. CASE AcceptMatch
  <2>1. PICK k \in {Top.found[Top.sel + 1]} : JumpTo(k)
    BY <1>16 DEF AcceptMatch
  <2>2. k \in Nodes(kconf)
    <3>1. Top \in Jumps /\ Top.found # <<>>
      <4>1. Top.kind = "jump" /\ Top.found # <<>>
        BY <1>16 DEF AcceptMatch, Showing
      <4>2. Top \in Held(Asked)
        BY <1>2, <4>1
      <4> QED BY <4>1, <4>2, FrameKinds
    <3>2. Top.found \in Seq(Nodes(kconf)) /\ Top.sel + 1 \in 1 .. Len(Top.found)
      BY <3>1, JumpType
    <3> QED BY <2>1, <3>1, <3>2
  <2>3. /\ dialogs' = <<>> /\ UNCHANGED config /\ Fine(main', now) /\ Seen(main', height')
    BY <1>1, <2>1, <2>2, JumpHolds
  <2> QED BY <1>3, <2>3
<1>17. CASE \/ ChangeText \/ AskForFile \/ TypeInput \/ RefuseInput \/ AskToQuit \/ Quit
            \/ CloseDialog \/ OpenInfo \/ OpenJump \/ ScrollInfo \/ MoveMatch \/ TypeSearch
  <2>1. UNCHANGED config /\ main' = main /\ height' = height
    BY <1>17 DEF ChangeText, AskForFile, AskFor, TypeInput, RefuseInput, AskToQuit, Quit,
                 CloseDialog, OpenInfo, OpenJump, ScrollInfo, MoveMatch, TypeSearch, config
  <2> QED BY <1>1, <1>3, <2>1
<1> QED
  BY <1>4, <1>5, <1>6, <1>7, <1>8, <1>9, <1>10, <1>12, <1>13, <1>14, <1>15, <1>16, <1>17 DEF Next

(* What ValuesFit says of the next values. *)
LEMMA SameValues ==
    ASSUME kconf' = kconf, ValuesFit'
    PROVE  MenusFollow(now')
<1>1. \A w : MenusFollow(w)' = MenusFollow(w)
  BY DEF MenusFollow, Above, IsSymbol, Locations, IsChoice, Node, Order
<1> QED BY <1>1 DEF ValuesFit

PlaceStep ==
    now' # now /\ main'.cur = main.cur =>
      /\ Selected(main') = Selected(main)
      /\ Row(main') = Row(main) \/ main'.scroll = 0

(* The display as it should be is inductive, while the values fit. *)
LEMMA GoodStep ==
    ASSUME PlainChoices, TypeInv, GoodInv, ValuesFit, ValuesFit', [Next]_vars
    PROVE  GoodInv' /\ [PlaceStep]_vars
<1>1. CASE Next
  <2>1. Static /\ Whole(main) /\ Stack(dialogs, Asked) /\ TopSeen /\ Stack(dialogs, Asking)
    BY DEF TypeInv, GoodInv
  <2>2. kconf' = kconf
    BY <1>1, <2>1, MainType
  <2>3. Goes
    BY <1>1, <2>2, MainGoes, SameValues
  <2>4. Stack(dialogs', Asked)
    <3>1. NoValue \in Asked /\ (ChangeText => Node(Selected(main)).item \in Asked)
      BY DEF Asked
    <3> QED BY <1>1, <2>1, <3>1, DialogsStep
  <2>5. Stack(dialogs', Asked')
    <3>1. CASE dialogs' \in {<<>>, <<[kind |-> "key"]>>}
      BY <3>1, EmptyStack, KeyAbove
    <3>2. CASE Selected(main') = Selected(main)
      <4>1. Selected(main)' = Selected(main)
        BY <3>2 DEF Selected
      <4>2. Asked' = Asked
        BY <2>2, <4>1 DEF Asked, Node
      <4> QED BY <2>4, <4>2
    <3> QED BY <2>3, <3>1, <3>2 DEF Goes
  <2>6. GoodInv'
    <3>1. Fine(main, now)'
      BY <2>2, <2>3, SameStack DEF Goes
    <3>2. Seen(main, height)' /\ (now = View(kconf, user))'
      BY <2>2, <2>3 DEF Goes, Seen
    <3>3. Stack(dialogs, Asked)'
      BY <2>2, <2>5, SameStack
    <3> QED BY <3>1, <3>2, <3>3 DEF GoodInv
  <2> QED BY <2>3, <2>6 DEF Goes, PlaceStep
<1>2. CASE UNCHANGED vars
  <2>1. /\ kconf' = kconf /\ main' = main /\ dialogs' = dialogs /\ height' = height
        /\ now' = now /\ user' = user
    BY <1>2 DEF vars
  <2>2. Fine(main, now)' /\ Seen(main, height)' /\ (now = View(kconf, user))'
    BY <2>1, SameStack DEF GoodInv, Seen
  <2>3. Asked' = Asked
    BY <2>1 DEF Asked, Node, Selected
  <2>4. Stack(dialogs, Asked)'
    BY <2>1, <2>3, SameStack DEF GoodInv
  <2> QED BY <1>2, <2>2, <2>4 DEF GoodInv
<1> QED BY <1>1, <1>2

LEMMA GoodHolds ==
    ASSUME PlainChoices
    PROVE  Spec /\ []ValuesFit => [](TypeInv /\ GoodInv) /\ [][PlaceStep]_vars
<1>1. Init => GoodInv
  BY InitHolds, EmptyStack DEF GoodInv
<1>2. TypeInv /\ GoodInv /\ ValuesFit /\ ValuesFit' /\ [Next]_vars
        => GoodInv' /\ [PlaceStep]_vars
  BY GoodStep
<1> QED BY <1>1, <1>2, TypeInvHolds, PTL DEF Spec

(* While the values fit, no key finds the selected node gone, and what the keys
   act on is in a row that is drawn.                                            *)
THEOREM StaysOnScreen ==
    ASSUME PlainChoices
    PROVE  Spec /\ []ValuesFit => []CursorOnScreen
<1>1. TypeInv /\ GoodInv => CursorOnScreen
  <2> SUFFICES ASSUME TypeInv, GoodInv PROVE CursorOnScreen
    OBVIOUS
  <2>1. /\ ~ main.lost /\ main \in Displays /\ InView(main.sel, main.scroll, Len(main.shown), height)
        /\ main.sel \in Nat /\ main.scroll \in Nat /\ Len(main.shown) \in Nat /\ height \in Nat
    BY FineType DEF GoodInv, Fine, Seen, TypeInv, Static, Displays
  <2>2. \A a, b, n, h \in Int : InView(a, b, n, h) => a \in b .. Min({b + h, n}) - 1
    BY MinOfTwo DEF InView
  <2>3. main.sel \in Drawn(main, height)
    <3> DEFINE n == Len(main.shown)
    <3>1. main.sel \in Int /\ main.scroll \in Int /\ n \in Int /\ height \in Int
      BY <2>1
    <3>2. InView(main.sel, main.scroll, n, height)
      BY <2>1
    <3> HIDE DEF n
    <3>3. main.sel \in main.scroll .. Min({main.scroll + height, n}) - 1
      BY <3>1, <3>2, <2>2
    <3> QED BY <3>3 DEF Drawn, n
  <2>4. ASSUME Top.kind = "jump", Top.found # <<>>
        PROVE  Top.sel \in Top.scroll .. Min({Top.scroll + MatchesHeight(terminal),
                                              Len(Top.found)}) - 1
    <3>1. Stack(dialogs, Asking) /\ dialogs # <<>>
      BY <2>4, TopHolds DEF TypeInv
    <3>2. Top \in Jumps
      BY <2>4, <3>1, TopHolds, FrameKinds
    <3>3. Top.sel \in Int /\ Top.scroll \in Int /\ Len(Top.found) \in Int
      BY <3>2, JumpType
    <3>4. MatchesHeight(terminal) \in Int
      BY HeightHolds DEF TypeInv, Static
    <3>5. InView(Top.sel, Top.scroll, Len(Top.found), MatchesHeight(terminal))
      BY <2>4 DEF TypeInv, TopSeen, MatchSeen
    <3> QED BY <2>2, <3>3, <3>4, <3>5
  <2> QED BY <2>1, <2>3, <2>4 DEF CursorOnScreen
<1> QED BY <1>1, GoodHolds, PTL

(* The list on the screen is what the values of now make of the menu. *)
THEOREM ListIsCurrent ==
    ASSUME PlainChoices
    PROVE  Spec /\ []ValuesFit => []ShownIsCurrent
<1>1. GoodInv => ShownIsCurrent
  BY DEF GoodInv, Fine, ShownIsCurrent
<1> QED BY <1>1, GoodHolds, PTL

(* Every menu above the one that is shown can be left, and remembers at most
   one row.                                                                   *)
THEOREM AlwaysAWayBack ==
    ASSUME PlainChoices
    PROVE  Spec /\ []ValuesFit => []WayBack
<1>1. TypeInv /\ GoodInv /\ ValuesFit => WayBack
  <2> SUFFICES ASSUME TypeInv, GoodInv, ValuesFit PROVE WayBack
    OBVIOUS
  <2>1. /\ kconf \in Kconfigs /\ MenusFollow(now) /\ main.cur \in 0 .. Len(Tree[kconf])
        /\ ShownNodes(main.cur, now, main.all) # <<>> /\ Len(main.rows) <= Depth(main.cur)
    BY FineType DEF TypeInv, Static, ValuesFit, GoodInv, Fine
  <2> QED BY <2>1, WayUp DEF WayBack, Depth
<1> QED BY <1>1, GoodHolds, PTL

(* A new value or a loaded file leaves the cursor where it was. *)
THEOREM PlaceIsKept ==
    ASSUME PlainChoices
    PROVE  Spec /\ []ValuesFit => PlaceKept
<1>1. [PlaceStep]_vars =>
        [now' # now /\ main'.cur = main.cur =>
           /\ Selected(main') = Selected(main)
           /\ Row(main') = Row(main) \/ main'.scroll = 0]_vars
  BY DEF PlaceStep
<1> QED BY <1>1, GoodHolds, PTL DEF PlaceKept
=============================================================================
