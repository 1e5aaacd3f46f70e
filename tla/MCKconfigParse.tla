---------------------------- MODULE MCKconfigParse ----------------------------
(* Instances of KconfigParse: the lines that may follow the ones read so far.  *)
(*   implicit  up to four symbols, each with or without a prompt and at most   *)
(*             one dependency on an earlier one, and an if around some         *)
(*   blocks    menus, choices, ifs and comments inside one another             *)
(*   choices   a choice at two locations, its symbols under ifs and others     *)
(*   files     files that source one another                                   *)
(*   loops     symbols that depend on one another, some of them in a choice    *)
(*   helps     help texts, blank lines and indented lines                      *)
EXTENDS KconfigParse

L(op, arg) == [op |-> op, arg |-> arg, indent |-> 0]
At(op, arg, indent) == [op |-> op, arg |-> arg, indent |-> indent]

Ops(text, ops) == Cardinality({p \in DOMAIN text : text[p].op \in ops})
LastOp(text) == IF text = <<>> THEN "none" ELSE Last(text).op
OpenNow(text, op) == Ops(text, {op}) > Ops(text, {EndOf[op]})

Names == <<"A", "B", "C", "D">>
Named(text) == {Names[i] : i \in 1 .. Ops(text, {"config"})}
NextName(text) == IF Ops(text, {"config"}) = 4 THEN {}
                  ELSE {L("config", Names[Ops(text, {"config"}) + 1])}

Implicit(text) ==
    LET n == Ops(text, {"config"}) IN
    NextName(text)
    \cup (IF LastOp(text) # "config" THEN {}
          ELSE {L("prompt", None)} \cup IF n = 3 THEN {L("prompt", "B")} ELSE {})
    \cup (IF LastOp(text) \in {"config", "prompt"} /\ n > 1
          THEN {L("depends", Names[i]) : i \in 1 .. n - 1} ELSE {})
    \cup (IF Ops(text, {"if"}) = 0 /\ n \in {1, 2} THEN {L("if", x) : x \in Named(text)} ELSE {})
    \cup (IF OpenNow(text, "if") /\ LastOp(text) # "if" THEN {L("endif", None)} ELSE {})

(* The end of the block that is open, and any other end early on *)
Ends(text) ==
    LET open == {p \in DOMAIN text : OpenAt(text, p, Len(text) + 1)}
    IN IF Len(text) < 3 THEN {L(end, None) : end \in Enders}
       ELSE IF open = {} THEN {} ELSE {L(EndOf[text[Max(open)].op], None)}

(* Lines after which there is still room to end all blocks *)
Room(text, lines, max) ==
    LET open == Ops(text, Openers) - Ops(text, Enders)
    IN {l \in lines : Len(text) + 1 + open + (IF l.op \in Openers THEN 1 ELSE 0) <= max}

(* Four nodes: two menus and one of each other kind, at most *)
Entry(text) ==
    LET few(l, max) == IF Ops(text, {l.op}) < max THEN {l} ELSE {}
    IN IF Ops(text, Statements) = 4 THEN {}
       ELSE few(L("config", "A"), 1) \cup few(L("menu", None), 2)
            \cup few(L("choice", None), 1) \cup few(L("if", "I"), 1) \cup few(L("comment", None), 1)

Blocks(text) ==
    Ends(text) \cup Room(text, Entry(text)
      \cup (CASE Ops(text, PropOps) = 2 -> {}
              [] LastOp(text) = "config" -> {L("prompt", "P"), L("default", "D")}
              [] LastOp(text) = "menu" -> {L("visible", "V"), L("depends", "M")}
              [] LastOp(text) = "choice" -> {L("depends", "Q")}
              [] OTHER -> {})
      \cup (IF Len(text) # 1 THEN {}
            ELSE {L("visible", "V"), L("select", None), L("optional", None)}), 9)

(* The choice C at two locations, with A twice and B *)
Memberships(text) ==
    (IF Ops(text, {"choice"}) = 2 \/ OpenNow(text, "choice") THEN {} ELSE {L("choice", "C")})
    \cup (IF ~ OpenNow(text, "choice") \/ Ops(text, {"config"}) = 3 THEN {}
          ELSE {L("config", IF Ops(text, {"config"}) = 1 THEN "B" ELSE "A")})
    \cup (IF LastOp(text) \in {"config", "choice"} THEN {L("prompt", None)} ELSE {})
    \cup (IF LastOp(text) \in {"config", "prompt"} /\ Ops(text, {"config"}) = 2
          THEN {L("depends", "A")} ELSE {})
    \cup (IF Ops(text, {"if"}) = 0 /\ Ops(text, {"config"}) > 0 THEN {L("if", "A")} ELSE {})
    \cup (IF OpenNow(text, "if") THEN {L("endif", None)}
          ELSE IF OpenNow(text, "choice") THEN {L("endchoice", None)} ELSE {})

Files(file, text) ==
    {L("config", "A")}
    \cup (IF OpenNow(text, "menu") THEN {L("endmenu", None)} ELSE {L("menu", None)})
    \cup {L("source", f) : f \in IF file = Main THEN {"F"} ELSE IF file = "F" THEN {"G"} ELSE {"F", Main}}

Helps(text) ==
    IF Ops(text, {"config"}) = 0 THEN {L("config", "A"), L("blank", None)}
    ELSE {L("config", "A"), At("help", None, 1), L("blank", None), At("depends", "X", 1),
          At("depends", "X", 2)}

(* Three symbols with prompts, in a choice, in a menu in it or outside, and up
   to three dependencies between them and of the choice                      *)
Loops(text) ==
    LET deps == {p \in DOMAIN text : text[p].op \in {"depends", "select", "prompt"} /\ text[p].arg # None}
        on(op) == IF Cardinality(deps) = 3 THEN {} ELSE {L(op, Names[i]) : i \in 1 .. 3}
    IN IF LastOp(text) = "config" THEN {L("prompt", None)}
       ELSE IF LastOp(text) = "choice" THEN {L("prompt", None)} \cup on("prompt")
       ELSE Room(text, (IF Ops(text, {"config"}) = 3 THEN {} ELSE NextName(text))
              \cup (IF LastOp(text) # "prompt" \/ text[Len(text) - 1].op # "config" THEN {}
                    ELSE on("depends") \cup on("select"))
              \cup (IF Ops(text, {"choice"}) = 0 THEN {L("choice", "K")} ELSE {})
              \cup (IF OpenNow(text, "choice") /\ Ops(text, {"menu"}) = 0 THEN {L("menu", None)} ELSE {}),
              10)
            \cup (IF OpenNow(text, "menu") THEN {L("endmenu", None)}
                  ELSE IF OpenNow(text, "choice") THEN {L("endchoice", None)} ELSE {})

MCOffer(s, file, text) ==
    CASE s = "implicit" -> Implicit(text)
      [] s = "blocks" -> Blocks(text)
      [] s = "choices" -> Memberships(text)
      [] s = "files" -> Files(file, text)
      [] s = "loops" -> Loops(text)
      [] s = "helps" -> Helps(text)

MCArgs == ToSet(Names) \cup {"I", "P", "D", "V", "M", "Q", "C", "X", "K", "F", "G", Main}
MCMaxLines == [implicit |-> 13, blocks |-> 9, choices |-> 11, files |-> 6, loops |-> 10, helps |-> 6]
=============================================================================
