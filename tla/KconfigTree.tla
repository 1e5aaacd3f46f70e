----------------------------- MODULE KconfigTree -----------------------------
(***************************************************************************)
(* What the symbols and choices of a Kconfig tree are worth, as            *)
(* kconfiglib.py computes it from the user values: the finalisation of the *)
(* menu tree (dependencies handed down, selects and implies turned round), *)
(* visibility, tristate and string values, choice modes and selections,    *)
(* and the assignable values.                                              *)
(*                                                                         *)
(* Every evaluation returns its value v together with t, the cached        *)
(* properties it reads on the way (pairs <<item, property>>): AND and OR   *)
(* stop early, so what is read depends on the user values.                 *)
(***************************************************************************)
EXTENDS KconfigItems, Integers, Sequences, SequencesExt, FiniteSets

CONSTANTS
    TypeOf,            \* orig_type: "bool", "tristate", "int" or "string"
    Optional,          \* the choices with 'optional'
    Menu               \* the menu nodes, parents before children

(* Expressions are tuples.  "sym" also stands for a choice in a condition. *)
Y == <<"tri", 2>>
M == <<"tri", 1>>
N == <<"tri", 0>>
Sym(s) == <<"sym", s>>

MakeAnd(e1, e2) ==
    IF e1 = Y THEN e2 ELSE IF e2 = Y THEN e1
    ELSE IF N \in {e1, e2} THEN N ELSE <<"and", e1, e2>>

MakeOr(e1, e2) ==
    IF e1 = N THEN e2 ELSE IF e2 = N THEN e1
    ELSE IF Y \in {e1, e2} THEN Y ELSE <<"or", e1, e2>>

-----------------------------------------------------------------------------
(* Finalisation: _propagate_deps, _finalize_node, _add_props_to_sym.  A node
   has an item, the index of its parent (0 at the top) and, as read, its
   prompt condition (NoValue: no prompt), 'depends on', 'visible if' (menus),
   defaults, ranges, selects and implies.                                    *)

RECURSIVE Dep(_), VisibleIf(_)

(* node.dep: a choice stands for its own condition in what it contains *)
BaseDep(k) == IF k = 0 THEN Y
              ELSE IF Menu[k].item \in ChoiceSet THEN Sym(Menu[k].item) ELSE Dep(k)
Dep_Own(k) == Menu[k].dep \* mutant: what a node depends on is not handed down
Dep(k) == MakeAnd(Menu[k].dep, BaseDep(Menu[k].parent))

VisibleIf(k) == IF k = 0 THEN Y
                ELSE MakeAnd(VisibleIf(Menu[k].parent), Menu[k].visible)

PromptCond(k) == MakeAnd(Menu[k].prompt,
                         MakeAnd(VisibleIf(Menu[k].parent), Dep(k)))

NodesOf(i) == SelectSeq([k \in DOMAIN Menu |-> k], LAMBDA k : Menu[k].item = i)

(* The conditional properties of all nodes of an item, in order *)
WithDep(k, props) == [j \in DOMAIN props |->
    [props[j] EXCEPT ![Len(props[j])] = MakeAnd(@, Dep(k))]]
Gather(i, kind) == FlattenSeq([j \in DOMAIN NodesOf(i) |->
    WithDep(NodesOf(i)[j], Menu[NodesOf(i)[j]][kind])])

Defaults == [i \in Items |-> Gather(i, "defaults")]
Ranges == [i \in Symbols |-> Gather(i, "ranges")]

DirectDep == [i \in Items |->
    FoldSeq(LAMBDA k, e : MakeOr(e, Dep(k)), N, NodesOf(i))]

(* What selects or implies s, each with the selecting symbol in front *)
Reverse1(s, kind) == FoldSeq(
    LAMBDA k, e : FoldSeq(
        LAMBDA p, f : IF p[1] = s
                      THEN MakeOr(f, MakeAnd(Sym(Menu[k].item), p[2])) ELSE f,
        e, WithDep(k, Menu[k][kind])),
    N, [k \in DOMAIN Menu |-> k])
RevDep == [s \in Symbols |-> Reverse1(s, "selects")]
WeakRevDep == [s \in Symbols |-> Reverse1(s, "implies")]

Prompts == [i \in Items |->
    LET ks == SelectSeq(NodesOf(i), LAMBDA k : Menu[k].prompt # NoValue)
    IN [j \in DOMAIN ks |-> PromptCond(ks[j])]]

(* _finalize_choice: the symbols right below a choice are its choice symbols *)
IsMember(k, c) == Menu[k].parent # 0 /\ Menu[Menu[k].parent].item = c
Members == [c \in ChoiceSet |->
    LET ks == SelectSeq([k \in DOMAIN Menu |-> k],
                        LAMBDA k : IsMember(k, c) /\ Menu[k].item \in Symbols)
    IN [j \in DOMAIN ks |-> Menu[ks[j]].item]]
MemberOf == [s \in Symbols |->
    IF \E c \in ChoiceSet : s \in ToSet(Members[c])
    THEN CHOOSE c \in ChoiceSet : s \in ToSet(Members[c]) ELSE NoValue]

-----------------------------------------------------------------------------
(* Evaluation.  u holds the user values: u.val of the symbols, u.mode and
   u.sel (user_value and user_selection) of the choices.                  *)

Min2(a, b) == IF a < b THEN a ELSE b
Max2(a, b) == IF a > b THEN a ELSE b
IsTri(s) == TypeOf[s] \in {"bool", "tristate"}
Got(v, t) == [v |-> v, t |-> t]

(* Attr("vis", i, u) is what the property "vis" of item i is worth: all
   properties read one another through it                                 *)
RECURSIVE Attr(_, _, _), Expr(_, _), First(_, _, _), FirstVisible(_, _, _)

(* Choice.tri_value, which is not cached itself *)
ModeIn(c, u, vis) ==
    LET own == IF c \in Optional THEN 0 ELSE 1
        wish == IF u.mode[c] = NoValue THEN own ELSE Max2(own, u.mode[c])
        val == Min2(wish, vis.v)
        mod == Attr("tri", Modules, u)
    IN IF val # 1 THEN Got(val, vis.t)
       ELSE IF TypeOf[c] = "bool" THEN Got(2, vis.t)
       ELSE Got(IF mod.v = 0 THEN 2 ELSE 1, vis.t \cup mod.t)
Mode(c, u) == ModeIn(c, u, Attr("vis", c, u))

(* Symbol.type and Choice.type, as whether it is TRISTATE *)
IsTristate(i, u) ==
    IF TypeOf[i] # "tristate" THEN Got(FALSE, {})
    ELSE LET mod == Attr("tri", Modules, u)
         IN IF i \in ChoiceSet \/ MemberOf[i] = NoValue
            THEN Got(mod.v # 0, mod.t)
            ELSE LET mode == Mode(MemberOf[i], u)
                 IN IF mode.v = 2 THEN Got(FALSE, mode.t)
                    ELSE Got(mod.v # 0, mode.t \cup mod.t)

(* A relation compares numbers when both operands are some, else strings.
   Bool and tristate symbols count as 0, 1 and 2.                          *)
Operand(e, u) ==
    IF e[1] # "sym" THEN Got(e, {})
    ELSE IF IsTri(e[2]) THEN LET r == Attr("tri", e[2], u) IN Got(<<"num", r.v>>, r.t)
    ELSE Attr("str", e[2], u)
AsNum(e) == IF e[1] = "tri" THEN <<"num", e[2]>> ELSE e

Expr(e, u) ==
    CASE e[1] = "tri" -> Got(e[2], {})
      [] e[1] = "sym" -> IF e[2] \in ChoiceSet THEN Mode(e[2], u) ELSE Attr("tri", e[2], u)
      [] e[1] = "not" -> LET a == Expr(e[2], u) IN Got(2 - a.v, a.t)
      [] e[1] = "and" ->
            LET a == Expr(e[2], u)
                b == Expr(e[3], u)
            IN IF a.v = 0 THEN a ELSE Got(Min2(a.v, b.v), a.t \cup b.t)
      [] e[1] = "or" ->
            LET a == Expr(e[2], u)
                b == Expr(e[3], u)
            IN IF a.v = 2 THEN a ELSE Got(Max2(a.v, b.v), a.t \cup b.t)
      [] e[1] = "eq" ->
            LET a == Operand(e[2], u)
                b == Operand(e[3], u)
            IN Got(IF AsNum(a.v) = AsNum(b.v) THEN 2 ELSE 0, a.t \cup b.t)
      [] e[1] = "gt" ->
            LET a == Operand(e[2], u)
                b == Operand(e[3], u)
            IN Got(IF a.v[1] = "num" /\ b.v[1] = "num" /\ a.v[2] > b.v[2]
                   THEN 2 ELSE 0, a.t \cup b.t)

(* The first of the properties whose condition is not n: its index (0: none),
   the condition's value and what was read to find it                        *)
First(props, j, u) ==
    IF j > Len(props) THEN [k |-> 0, v |-> 0, t |-> {}]
    ELSE LET c == Expr(props[j][Len(props[j])], u)
             rest == First(props, j + 1, u)
         IN IF c.v # 0 THEN [k |-> j, v |-> c.v, t |-> c.t]
            ELSE [rest EXCEPT !.t = @ \cup c.t]

(* _visibility *)
Vis(i, u) ==
    LET conds == [j \in DOMAIN Prompts[i] |-> Expr(Prompts[i][j], u)]
        vis == FoldSeq(LAMBDA r, m : Max2(r.v, m), 0, conds)
        read == {<<i, "vis">>} \cup UNION {conds[j].t : j \in DOMAIN conds}
        c == IF i \in ChoiceSet THEN NoValue ELSE MemberOf[i]
        mode == Mode(c, u)
        odd == c # NoValue /\ TypeOf[c] = "tristate" /\ TypeOf[i] # "tristate"
        mVis == c # NoValue /\ TypeOf[i] = "tristate" /\ vis = 1
        type == IsTristate(i, u)
    IN IF odd /\ mode.v # 2 THEN Got(0, read \cup mode.t)
       ELSE IF mVis /\ mode.v = 2 THEN Got(0, read \cup mode.t)
       ELSE LET so == read \cup (IF odd \/ mVis THEN mode.t ELSE {})
            IN IF vis # 1 THEN Got(vis, so)
               ELSE Got(IF type.v THEN 1 ELSE 2, so \cup type.t)

(* _selection_from_defaults over pairs <<symbol, condition>>, from the j-th on *)
FirstVisible(pairs, j, u) ==
    IF j > Len(pairs) THEN Got(NoValue, {})
    ELSE LET cond == Expr(pairs[j][2], u)
             vis == IF cond.v = 0 THEN Got(0, {}) ELSE Attr("vis", pairs[j][1], u)
             rest == FirstVisible(pairs, j + 1, u)
         IN IF vis.v # 0 THEN Got(pairs[j][1], cond.t \cup vis.t)
            ELSE Got(rest.v, cond.t \cup vis.t \cup rest.t)

(* The defaults of a choice come first, then its symbols *)
Candidates(c) == Defaults[c] \o [j \in DOMAIN Members[c] |-> <<Members[c][j], Y>>]

(* Choice.selection *)
Sel(c, u) ==
    LET mode == Mode(c, u)
        vis == IF u.sel[c] = NoValue THEN Got(0, {}) ELSE Attr("vis", u.sel[c], u)
        other == FirstVisible(Candidates(c), 1, u)
        read == {<<c, "sel">>} \cup mode.t
    IN IF mode.v # 2 THEN Got(NoValue, read)
       ELSE IF vis.v # 0 THEN Got(u.sel[c], read \cup vis.t)
       ELSE Got(other.v, read \cup vis.t \cup other.t)

(* Symbol.tri_value outside choices: the user value bounded by visibility, or
   the first default, raised by imply and by select, m promoted to y where m
   cannot be; with whether it is written (_write_to_conf)                     *)
FreeTri(s, u) ==
    LET vis == Attr("vis", s, u)
        own == vis.v # 0 /\ u.val[s] # NoValue
        dft == First(Defaults[s], 1, u)
        value == IF dft.k = 0 THEN Got(0, {}) ELSE Expr(Defaults[s][dft.k][1], u)
        weak == Expr(WeakRevDep[s], u)
        direct == Expr(DirectDep[s], u)
        rev == Expr(RevDep[s], u)
        implied == ~ own /\ weak.v # 0 /\ direct.v # 0
        val0 == IF own THEN Min2(u.val[s], vis.v) ELSE Min2(value.v, dft.v)
        val1 == IF implied THEN Max2(weak.v, val0) ELSE val0
        val2 == Max2(rev.v, val1)
        type == IsTristate(s, u)
        promote == val2 = 1 /\ (~ type.v \/ weak.v = 2)
    IN [v |-> IF promote THEN 2 ELSE val2,
        t |-> {<<s, "tri">>} \cup vis.t \cup rev.t
              \cup (IF own THEN {} ELSE dft.t \cup value.t \cup weak.t
                        \cup (IF weak.v # 0 THEN direct.t ELSE {}))
              \cup (IF rev.v # 0 THEN direct.t ELSE {})
              \cup (IF val2 = 1 THEN type.t \cup (IF type.v THEN weak.t ELSE {}) ELSE {}),
        w |-> vis.v # 0 \/ implied \/ rev.v # 0 \/ (~ own /\ val0 # 0)]

MemberTri(s, u) ==
    LET vis == Attr("vis", s, u)
        sel == Attr("sel", MemberOf[s], u)
    IN [v |-> IF vis.v = 2 THEN IF sel.v = s THEN 2 ELSE 0
              ELSE IF vis.v = 1 /\ u.val[s] \notin {NoValue, 0} THEN 1 ELSE 0,
        t |-> {<<s, "tri">>} \cup vis.t \cup (IF vis.v = 2 THEN sel.t ELSE {}),
        w |-> vis.v # 0]

Tri(s, u) ==
    IF ~ IsTri(s) THEN Got(0, {})
    ELSE IF MemberOf[s] = NoValue THEN FreeTri(s, u) ELSE MemberTri(s, u)

(* Symbol.str_value of an int: the range is looked for first; a user value
   outside it gives way to the default, which is clamped into it             *)
IntStr(s, u) ==
    LET vis == Attr("vis", s, u)
        ran == First(Ranges[s], 1, u)
        low == Operand(Ranges[s][ran.k][1], u)
        high == Operand(Ranges[s][ran.k][2], u)
        Num(e) == IF e.v[1] = "num" THEN e.v[2] ELSE 0
        In(n) == ran.k = 0 \/ (Num(low) <= n /\ n <= Num(high))
        own == vis.v # 0 /\ u.val[s] # NoValue /\ In(u.val[s])
        dft == First(Defaults[s], 1, u)
        value == Operand(Defaults[s][dft.k][1], u)
        n == IF dft.k = 0 THEN 0 ELSE Num(value)
        clamp == IF n < Num(low) THEN Num(low) ELSE Num(high)
    IN [v |-> IF own THEN <<"num", u.val[s]>>
              ELSE IF ~ In(n) THEN <<"num", clamp>>
              ELSE IF dft.k = 0 THEN <<"str", "">> ELSE value.v,
        t |-> {<<s, "str">>} \cup vis.t \cup ran.t
              \cup (IF ran.k = 0 THEN {} ELSE low.t \cup high.t)
              \cup (IF own THEN {} ELSE dft.t)
              \cup (IF own \/ dft.k = 0 THEN {} ELSE value.t),
        w |-> vis.v # 0 \/ (~ own /\ dft.k # 0)]

StringStr(s, u) ==
    LET vis == Attr("vis", s, u)
        own == vis.v # 0 /\ u.val[s] # NoValue
        dft == First(Defaults[s], 1, u)
        value == Operand(Defaults[s][dft.k][1], u)
    IN [v |-> IF own THEN <<"str", u.val[s]>>
              ELSE IF dft.k = 0 THEN <<"str", "">> ELSE value.v,
        t |-> {<<s, "str">>} \cup vis.t \cup (IF own THEN {} ELSE dft.t)
              \cup (IF own \/ dft.k = 0 THEN {} ELSE value.t),
        w |-> vis.v # 0 \/ (~ own /\ dft.k # 0)]

Str(s, u) ==
    CASE IsTri(s) -> LET r == Attr("tri", s, u)
                     IN [v |-> <<"tri", r.v>>, t |-> r.t \cup {<<s, "str">>},
                         w |-> r.w]
      [] TypeOf[s] = "int" -> IntStr(s, u)
      [] OTHER -> StringStr(s, u)

(* Symbol._assignable and Choice._assignable, as sets *)
SymAsg(s, u) ==
    LET vis == Attr("vis", s, u)
        rev == Expr(RevDep[s], u)
        weak == Expr(WeakRevDep[s], u)
        type == IsTristate(s, u)
        noM == IF vis.v = 2 THEN ~ type.v \/ weak.v = 2 ELSE weak.v = 2
        all == {x \in 0 .. vis.v : x >= rev.v /\ ~ (x = 1 /\ noM)}
    IN Got(IF vis.v = 0 THEN {}
           ELSE IF MemberOf[s] # NoValue /\ vis.v = 2 THEN {2}
           ELSE IF rev.v = 2 THEN {2}
           ELSE IF vis.v = 1
                THEN IF rev.v = 1 THEN {1} ELSE IF weak.v = 2 THEN {0, 2} ELSE {0, 1}
                ELSE all,
           {<<s, "asg">>} \cup vis.t \cup
           (IF vis.v = 0 \/ (MemberOf[s] # NoValue /\ vis.v = 2) THEN {}
            ELSE rev.t \cup
                 (CASE rev.v = 2 -> {}
                    [] rev.v # 2 /\ vis.v = 2 ->
                          type.t \cup (IF type.v THEN weak.t ELSE {})
                    [] OTHER -> IF rev.v = 0 THEN weak.t ELSE {})))

ChoiceAsg(c, u) ==
    LET vis == Attr("vis", c, u)
        type == IsTristate(c, u)
        low == IF c \in Optional THEN 0 ELSE 1
    IN Got({x \in low .. vis.v : x = 1 => vis.v = 1 \/ type.v},
           {<<c, "asg">>} \cup vis.t \cup (IF vis.v = 2 THEN type.t ELSE {}))

(* What a line of a .config holds: nothing for an int without a value *)
Raw(e) == IF e = <<"str", "">> THEN NoValue ELSE e[2]
HasLine(s, u) == LET r == Str(s, u) IN Got(r.w, r.t)

(* Symbol._str_default: imply counts whatever the direct dependencies are,
   and a range does not                                                    *)
TriDefault(s, u) ==
    LET dft == First(Defaults[s], 1, u)
        own == IF dft.k = 0 THEN 0 ELSE Min2(Expr(Defaults[s][dft.k][1], u).v, dft.v)
        val == Max2(own, Max2(Expr(RevDep[s], u).v, Expr(WeakRevDep[s], u).v))
    IN IF MemberOf[s] # NoValue THEN 0
       ELSE IF val = 1 /\ ~ IsTristate(s, u).v THEN 2 ELSE val

StrDefault(s, u) ==
    LET dft == First(Defaults[s], 1, u)
    IN Got(IF IsTri(s) THEN TriDefault(s, u)
           ELSE IF dft.k = 0 THEN NoValue
           ELSE Raw(Operand(Defaults[s][dft.k][1], u).v), {})

(* A y that a choice has without being asked (_min_config_contents) *)
Preselected(s, u) ==
    LET c == MemberOf[s]
    IN Got(/\ c # NoValue /\ c \notin Optional /\ TypeOf[s] = "bool"
           /\ Tri(s, u).v = 2 /\ FirstVisible(Candidates(c), 1, u).v = s, {})

(* The values of an int or string that menuconfig lets through (_check_valid) *)
Enterable(s, u) ==
    LET ran == First(Ranges[s], 1, u)
        Bound(j) == Operand(Ranges[s][ran.k][j], u).v[2]
    IN Got({v \in Accepts[s] :
               TypeOf[s] = "int" /\ ran.k # 0 => Bound(1) <= v /\ v <= Bound(2)}, {})

Attr(name, i, u) ==
    CASE name = "vis" -> Vis(i, u)
      [] name = "tri" -> Tri(i, u)
      [] name = "str" -> Str(i, u)
      [] name = "sel" -> Sel(i, u)
      [] name = "asg" /\ i \in ChoiceSet -> ChoiceAsg(i, u)
      [] name = "asg" /\ i \notin ChoiceSet -> SymAsg(i, u)
      [] name = "mode" -> Mode(i, u)
      [] name = "preselected" -> Preselected(i, u)
      [] name = "rev" -> Expr(RevDep[i], u)
      [] name = "value" -> Got(Raw(Str(i, u).v), {})
      [] name = "line" -> HasLine(i, u)
      [] name = "default" -> StrDefault(i, u)
      [] name = "enter" -> Enterable(i, u)

-----------------------------------------------------------------------------
(* Kconfig._build_dep and _add_choice_deps: who may change when i does *)

RECURSIVE Mentions(_)
Mentions(e) ==
    CASE e[1] = "sym" -> {e[2]}
      [] e[1] = "not" -> Mentions(e[2])
      [] e[1] \in {"and", "or", "eq", "gt"} -> Mentions(e[2]) \cup Mentions(e[3])
      [] OTHER -> {}

InProps(props, from) ==
    UNION {UNION {Mentions(props[j][f]) : f \in from .. Len(props[j])}
           : j \in DOMAIN props}

DependsOn(i) ==
    (UNION {Mentions(Prompts[i][j]) : j \in DOMAIN Prompts[i]})
    \cup (IF i \in ChoiceSet THEN InProps(Defaults[i], 2)
          ELSE InProps(Defaults[i], 1) \cup InProps(Ranges[i], 1)
               \cup Mentions(RevDep[i]) \cup Mentions(WeakRevDep[i])
               \cup Mentions(DirectDep[i]))

ChoiceDeps(i) == {c \in ChoiceSet : i \in Symbols /\ MemberOf[i] = c}
BuildDep == [i \in Items |->
    {j \in Items : i \in DependsOn(j)} \cup ChoiceDeps(i)]
=============================================================================
