--------------------------- MODULE KconfigReadProofs ---------------------------
(***************************************************************************)
(* What holds of every text that kconfiglib.py reads, however long it is,  *)
(* whatever files source one another and whatever is made of the nodes.    *)
(*                                                                         *)
(* The argument is about the two stacks: the files that are being read     *)
(* (filestack and here), each further out at the line that sources the     *)
(* next one, and the calls of _parse_block (blocks), where some at[j]      *)
(* reads the j-th file and those up to at[j + 1] are for blocks opened in  *)
(* it (Nested).  What was read does not change any more (Grown), so a line *)
(* that was once the place of a node remains it.                           *)
(***************************************************************************)
EXTENDS KconfigRead, SequenceTheorems, TLAPS

(* What the variables hold *)
Names == Args \cup {None}
FileNames == Names \cup {Main}
ItemNames == Names \cup {Unnamed(k) : k \in Nat}
NodeKinds == {"symbol", "choice", "menu", "comment", "if"}
NodeRec == [kind : NodeKinds, item : ItemNames, prompt : BOOLEAN, cond : SUBSET Names,
         dep : SUBSET Names, props : Seq(SUBSET Names), selects : SUBSET Names,
         visibility : SUBSET Names, parent : Nat, next : Nat, list : Nat, linenr : Nat,
         file : FileNames, include_path : Seq(FileNames \X Nat)]
Position == [file : FileNames, linenr : Nat, at : Nat]
Block == [end_token : {"eof"} \cup Enders, parent : Nat, prev : Nat]

Typed ==
    /\ suite \in Suites
    /\ DOMAIN texts \subseteq FileNames
    /\ texts \in [DOMAIN texts -> Seq(Line)]
    /\ ended \subseteq DOMAIN texts
    /\ here \in Position /\ filestack \in Seq(Position)
    /\ tokens \in Line \cup {Eof, None}
    /\ blocks \in Seq(Block)
    /\ parsing \in Nat
    /\ help \in HelpText \cup {None}
    /\ menu \in Seq(NodeRec)
    /\ result \in {"none", "refused", "looped", "finished"}

(* Where the reader is: in lines that are there, the line that is parsed being
   the last one read, except at the end of a file; and while a help text is
   read, its lines but the first are not counted yet                          *)
Placed(p) == p.file \in DOMAIN texts /\ p.at <= Len(texts[p.file])
HereRight ==
    /\ Placed(here)
    /\ help = None /\ tokens # Eof => here.linenr = here.at
    /\ tokens \in Line => here.at # 0 /\ texts[here.file][here.at] = tokens
    /\ help # None =>
         /\ tokens = None /\ parsing # 0 /\ result = "none"
         /\ IF help.indent = 0 THEN here.linenr = here.at
            ELSE here.linenr + help.lines = here.at + 1

(* The files further out stand at the lines that source the next one *)
StackRight ==
    /\ Reading[1].file = Main
    /\ \A j \in DOMAIN filestack :
         /\ Placed(filestack[j])
         /\ filestack[j].linenr = filestack[j].at /\ filestack[j].at # 0
         /\ texts[filestack[j].file][filestack[j].at].op = "source"
         /\ texts[filestack[j].file][filestack[j].at].arg = Reading[j + 1].file
    /\ \A i, j \in DOMAIN Reading : Reading[i].file = Reading[j].file => i = j

(* Links stay inside the menu *)
LinksRight ==
    /\ Len(menu) # 0
    /\ \A i \in DOMAIN blocks : {blocks[i].parent, blocks[i].prev} \subseteq DOMAIN menu
    /\ \A k \in DOMAIN menu :
         {menu[k].parent, menu[k].next, menu[k].list} \subseteq {0} \cup DOMAIN menu

(* The node whose properties are parsed was defined in the file that is read *)
ParsingRight ==
    parsing # 0 =>
      /\ parsing \in DOMAIN menu \ {1}
      /\ menu[parsing].file = here.file
      /\ menu[parsing].include_path = Path(Len(Reading))

(* at[j] is the call of _parse_block that reads the j-th file *)
Level(at) ==
    /\ at \in [DOMAIN Reading -> DOMAIN blocks]
    /\ at[1] = 1
    /\ \A j \in DOMAIN Reading : at[j] >= j /\ blocks[at[j]].end_token = "eof"
    /\ \A i, j \in DOMAIN Reading : i < j => at[i] < at[j]
    /\ \A i \in DOMAIN blocks, j \in DOMAIN Reading :
         at[j] < i /\ (j < Len(Reading) => i < at[j + 1]) => OpenedIn(i, j)
Nested == \E at \in [DOMAIN Reading -> DOMAIN blocks] : Level(at)

BuiltLast == Built => result # "none" /\ filestack = <<>> /\ Len(blocks) = 1

IInv == Typed /\ HereRight /\ StackRight /\ LinksRight /\ ParsingRight /\ Nested /\ Located /\ BuiltLast

-----------------------------------------------------------------------------
(* The words of the language *)

(* The ends of blocks are lines, and none is the end of a file. *)
LEMMA Words ==
    /\ \A op \in Statements : Kinds[op] \in NodeKinds /\ ((Kinds[op] = "symbol") <=> (op = "config"))
    /\ \A kind \in Openers : EndOf[kind] \in Enders
    /\ "eof" \notin Enders
<1>1. \A op \in Statements : Kinds[op] \in NodeKinds /\ ((Kinds[op] = "symbol") <=> (op = "config"))
  <2> SUFFICES ASSUME NEW op \in Statements
               PROVE  Kinds[op] \in NodeKinds /\ ((Kinds[op] = "symbol") <=> (op = "config"))
    OBVIOUS
  <2>1. Kinds[op] = IF op = "config" THEN "symbol" ELSE op
    BY DEF Kinds
  <2>2. op \in {"config", "choice", "menu", "comment", "if"}
    BY DEF Statements
  <2> QED BY <2>1, <2>2 DEF NodeKinds
<1>2. \A kind \in Openers : EndOf[kind] \in Enders
  BY DEF Openers, EndOf, Enders
<1>3. "eof" \notin Enders
  BY DEF Enders
<1> QED BY <1>1, <1>2, <1>3

(* The end of a file is no line of it. *)
LEMMA EofIsNoLine == Eof \notin Line /\ Eof.op = "eof" /\ None \notin Line /\ None # Eof
BY NoneAssumption DEF Eof, Line, Statements, Enders, PropOps

-----------------------------------------------------------------------------
(* Reading lines *)

(* What was read does not change any more. *)
Grown ==
    \A f \in DOMAIN texts :
      /\ f \in DOMAIN texts' /\ Len(texts[f]) <= Len(texts'[f])
      /\ \A p \in DOMAIN texts[f] : p \in DOMAIN texts'[f] /\ texts'[f][p] = texts[f][p]

(* readline yields the line behind the ones that were read, or the end of the
   file.                                                                      *)
LEMMA ReadFacts ==
    ASSUME Typed, Placed(here), NEW l \in Lines, ReadLine(l)
    PROVE  /\ l \in Line \cup {Eof}
           /\ DOMAIN texts' = DOMAIN texts /\ texts' \in [DOMAIN texts' -> Seq(Line)]
           /\ ended' \subseteq DOMAIN texts'
           /\ Grown
           /\ l # Eof => /\ here.at + 1 <= Len(texts'[here.file])
                         /\ texts'[here.file][here.at + 1] = l
<1> DEFINE f == here.file
           t == texts[f]
<1>1. /\ f \in DOMAIN texts /\ t \in Seq(Line) /\ here.at \in Nat /\ Len(t) \in Nat
      /\ here.at <= Len(t) /\ DOMAIN t = 1 .. Len(t)
  BY DEF Typed, Placed, Position
<1>2. CASE here.at < Len(t)
  <2>1. l = t[here.at + 1] /\ texts' = texts
    BY <1>2 DEF Lines, ReadLine, Known
  <2>2. here.at + 1 \in DOMAIN t
    BY <1>1, <1>2
  <2>3. l \in Line
    BY <1>1, <2>1, <2>2
  <2>4. ended' \subseteq DOMAIN texts'
    BY <1>1, <2>1 DEF ReadLine, Typed
  <2>5. Grown
    BY <2>1 DEF Grown, Typed
  <2> QED BY <1>1, <1>2, <2>1, <2>3, <2>4, <2>5 DEF Typed
<1>3. CASE ~ here.at < Len(t)
  <2>1. here.at = Len(t) /\ ~ Known
    BY <1>1, <1>3 DEF Known
  <2>2. l \in Line \cup {Eof}
    BY <2>1 DEF Lines
  <2>3. CASE l = Eof
    <3>1. texts' = texts
      BY <2>3 DEF ReadLine
    <3>2. ended' \subseteq DOMAIN texts'
      BY <1>1, <3>1 DEF ReadLine, Typed
    <3>3. Grown
      BY <3>1 DEF Grown, Typed
    <3> QED BY <2>2, <2>3, <3>1, <3>2, <3>3 DEF Typed
  <2>4. CASE l # Eof
    <3>1. texts' = [texts EXCEPT ![f] = Append(t, l)] /\ ended' = ended
      BY <2>1, <2>4 DEF ReadLine
    <3>2. l \in Line
      BY <2>2, <2>4
    <3>3. /\ Append(t, l) \in Seq(Line) /\ Len(Append(t, l)) = Len(t) + 1
          /\ DOMAIN Append(t, l) = 1 .. Len(t) + 1
          /\ Append(t, l)[Len(t) + 1] = l
          /\ \A p \in DOMAIN t : Append(t, l)[p] = t[p]
      BY <1>1, <3>2
    <3>4. texts' \in [DOMAIN texts -> Seq(Line)] /\ DOMAIN texts' = DOMAIN texts
      BY <3>1, <3>3 DEF Typed
    <3>5. Grown
      <4> SUFFICES ASSUME NEW g \in DOMAIN texts
                   PROVE  /\ g \in DOMAIN texts' /\ Len(texts[g]) <= Len(texts'[g])
                          /\ \A p \in DOMAIN texts[g] : p \in DOMAIN texts'[g] /\ texts'[g][p] = texts[g][p]
        BY DEF Grown
      <4>1. CASE g = f
        <5>1. texts'[g] = Append(t, l)
          BY <3>1, <1>1, <4>1
        <5> HIDE DEF t
        <5> QED BY <4>1, <5>1, <3>3, <3>4, <1>1 DEF t
      <4>2. CASE g # f
        <5>1. texts'[g] = texts[g] /\ Len(texts[g]) \in Nat
          BY <3>1, <4>2 DEF Typed
        <5> QED BY <5>1, <3>4
      <4> QED BY <4>1, <4>2
    <3>6. texts'[f] = Append(t, l)
      BY <3>1, <1>1
    <3> QED BY <2>1, <3>1, <3>2, <3>3, <3>4, <3>5, <3>6, <1>1 DEF Typed
  <2> QED BY <2>3, <2>4
<1> QED BY <1>2, <1>3

(* A line or the end of the file is counted so that linenr is the number of the
   line that is parsed.                                                       *)
LEMMA PassedFacts ==
    ASSUME Typed, Placed(here), NEW l \in Lines, ReadLine(l), NEW n \in Nat, here' = Passed(l, n)
    PROVE  /\ here' \in Position /\ Placed(here)' /\ here'.file = here.file
           /\ here'.linenr = here.linenr + n
           /\ here'.at = IF l = Eof THEN here.at ELSE here.at + 1
           /\ l # Eof => texts'[here'.file][here'.at] = l
<1>1. here \in Position /\ here.file \in DOMAIN texts
  BY DEF Typed, Placed
<1>2. /\ here' \in Position /\ here'.file = here.file /\ here'.linenr = here.linenr + n
      /\ here'.at = IF l = Eof THEN here.at ELSE here.at + 1
  <2> DEFINE end == l = Eof
  <2>1. here' = [here EXCEPT !.linenr = @ + n, !.at = IF end THEN @ ELSE @ + 1]
    BY DEF Passed
  <2> HIDE DEF end
  <2>2. /\ here' \in Position /\ here'.file = here.file /\ here'.linenr = here.linenr + n
        /\ here'.at = IF end THEN here.at ELSE here.at + 1
    <3> DEFINE to == IF end THEN here.at ELSE here.at + 1
    <3>1. to \in Nat /\ here.linenr + n \in Nat /\ here.file \in FileNames
      BY <1>1 DEF Position
    <3>2. here' = [here EXCEPT !.linenr = here.linenr + n, !.at = to]
      BY <2>1
    <3> HIDE DEF to
    <3>3. /\ here' \in Position /\ here'.file = here.file /\ here'.linenr = here.linenr + n
          /\ here'.at = to
      BY <1>1, <3>1, <3>2 DEF Position
    <3> QED BY <3>3 DEF to
  <2> QED BY <2>2 DEF end
<1>3. /\ DOMAIN texts' = DOMAIN texts /\ Len(texts[here.file]) <= Len(texts'[here.file])
      /\ l # Eof => here.at + 1 <= Len(texts'[here.file]) /\ texts'[here.file][here.at + 1] = l
  BY <1>1, ReadFacts DEF Grown
<1>4. texts[here.file] \in Seq(Line) /\ texts'[here.file] \in Seq(Line)
  BY <1>1, <1>3, ReadFacts DEF Typed
<1>5. Placed(here)'
  <2>1. here.at <= Len(texts[here.file]) /\ here.at \in Nat
    BY <1>1 DEF Placed, Position
  <2> QED BY <1>1, <1>2, <1>3, <1>4, <2>1 DEF Placed
<1> QED BY <1>2, <1>3, <1>5

LEMMA Reads ==
    ASSUME IInv, NextLine \/ FirstLine \/ MoreLines
    PROVE  /\ Typed' /\ HereRight'
           /\ Grown /\ here'.file = here.file
           /\ UNCHANGED <<suite, filestack, blocks, parsing, menu, tree, result>>
<1> USE EofIsNoLine
<1>1. Typed /\ HereRight /\ Placed(here)
  BY DEF IInv, HereRight
<1>2. /\ here \in Position /\ here.linenr \in Nat /\ here.at \in Nat
      /\ help \in HelpText \cup {None} /\ tokens \in Line \cup {Eof, None}
  BY <1>1 DEF Typed, Position
<1>3. ASSUME NEW l \in Lines, ReadLine(l), NEW n \in Nat, here' = Passed(l, n),
             UNCHANGED <<suite, filestack, blocks, parsing, menu, tree, result>>,
             help' \in HelpText \cup {None}, tokens' \in Line \cup {Eof, None},
             help' = None /\ tokens' # Eof => here.linenr + n = here.at + 1 /\ l # Eof,
             tokens' \in Line => tokens' = l,
             help' # None =>
               /\ tokens' = None /\ parsing # 0 /\ result = "none" /\ l # Eof
               /\ IF help'.indent = 0 THEN here.linenr + n = here.at + 1
                  ELSE here.linenr + n + help'.lines = here.at + 2
      PROVE  /\ Typed' /\ HereRight'
             /\ Grown /\ here'.file = here.file
  <2>1. /\ here' \in Position /\ Placed(here)' /\ here'.file = here.file
        /\ here'.linenr = here.linenr + n
        /\ here'.at = IF l = Eof THEN here.at ELSE here.at + 1
        /\ l # Eof => texts'[here'.file][here'.at] = l
    BY <1>1, <1>3, PassedFacts
  <2>2. Typed' /\ Grown
    <3>1. /\ DOMAIN texts' = DOMAIN texts /\ texts' \in [DOMAIN texts' -> Seq(Line)]
          /\ ended' \subseteq DOMAIN texts' /\ Grown
      BY <1>1, <1>3, ReadFacts
    <3> QED BY <1>1, <1>3, <2>1, <3>1 DEF Typed
  <2>3. HereRight'
    <3>1. help' = None /\ tokens' # Eof => here'.linenr = here'.at
      BY <2>1, <1>2, <1>3
    <3>2. tokens' \in Line => here'.at # 0 /\ texts'[here'.file][here'.at] = tokens'
      <4> HAVE tokens' \in Line
      <4>1. l # Eof /\ tokens' = l
        BY <1>3
      <4> QED BY <4>1, <2>1, <1>2
    <3>3. help' # None =>
            /\ tokens' = None /\ parsing' # 0 /\ result' = "none"
            /\ IF help'.indent = 0 THEN here'.linenr = here'.at
               ELSE here'.linenr + help'.lines = here'.at + 1
      <4> HAVE help' # None
      <4>1. help'.lines \in Nat
        BY <1>3 DEF HelpText
      <4>2. here'.linenr = here.linenr + n /\ here'.at = here.at + 1
        BY <1>3, <2>1
      <4>3. IF help'.indent = 0 THEN here'.linenr = here'.at
            ELSE here'.linenr + help'.lines = here'.at + 1
        BY <1>2, <1>3, <4>1, <4>2
      <4> QED BY <1>3, <4>3
    <3> QED BY <2>1, <3>1, <3>2, <3>3 DEF HereRight
  <2> QED BY <2>1, <2>2, <2>3
<1>4. CASE NextLine
  <2>1. PICK l \in Lines : ReadLine(l) /\ here' = Passed(l, IF l = Eof THEN 0 ELSE 1) /\ tokens' = l
    BY <1>4 DEF NextLine
  <2>2. /\ UNCHANGED <<suite, filestack, blocks, parsing, menu, tree, result>>
        /\ help' = None /\ help = None /\ tokens = None
    BY <1>4 DEF NextLine, parser
  <2>3. l \in Line \cup {Eof} /\ here.linenr = here.at
    BY <1>1, <2>1, <2>2, ReadFacts DEF HereRight
  <2> DEFINE n == IF l = Eof THEN 0 ELSE 1
  <2>4. n \in Nat /\ (l # Eof => n = 1)
    OBVIOUS
  <2> HIDE DEF n
  <2>5. here' = Passed(l, n)
    BY <2>1 DEF n
  <2>6. help' = None /\ tokens' # Eof => here.linenr + n = here.at + 1 /\ l # Eof
    BY <1>2, <2>1, <2>3, <2>4
  <2>7. Typed' /\ HereRight' /\ Grown /\ here'.file = here.file
    BY <1>3, <2>1, <2>2, <2>3, <2>4, <2>5, <2>6
  <2> QED BY <2>2, <2>7
<1>5. CASE FirstLine
  <2>1. PICK l \in Lines :
          /\ ReadLine(l) /\ here' = Passed(l, 1)
          /\ IF l.op = "blank" THEN UNCHANGED <<help, tokens>>
             ELSE IF l.indent = 0 THEN help' = None /\ tokens' = l
             ELSE help' = [indent |-> l.indent, lines |-> 1] /\ tokens' = None
    BY <1>5 DEF FirstLine
  <2>2. /\ UNCHANGED <<suite, filestack, blocks, parsing, menu, tree, result>>
        /\ help # None /\ help.indent = 0
    BY <1>5 DEF FirstLine, parser
  <2>3. /\ l \in Line \cup {Eof} /\ here.linenr = here.at
        /\ tokens = None /\ parsing # 0 /\ result = "none" /\ help \in HelpText
    BY <1>1, <1>2, <2>1, <2>2, ReadFacts DEF HereRight
  <2>4. CASE l.op = "blank"
    <3>1. l # Eof /\ help' = help /\ tokens' = None
      BY <2>1, <2>3, <2>4
    <3>2. help'.indent = 0 /\ here.linenr + 1 = here.at + 1
      BY <2>2, <2>3, <3>1, <1>2
    <3> QED BY <1>3, <2>1, <2>2, <2>3, <3>1, <3>2
  <2>5. CASE l.op # "blank" /\ l.indent = 0
    <3>1. help' = None /\ tokens' = l
      BY <2>1, <2>5
    <3>2. here.linenr + 1 = here.at + 1
      BY <2>3, <1>2
    <3> QED BY <1>3, <2>1, <2>2, <2>3, <3>1, <3>2
  <2>6. CASE l.op # "blank" /\ l.indent # 0
    <3>1. help' = [indent |-> l.indent, lines |-> 1] /\ tokens' = None
      BY <2>1, <2>6
    <3>2. l # Eof
      BY <2>6 DEF Eof
    <3>3. l.indent \in Nat
      BY <2>3, <3>2 DEF Line
    <3>4. help' \in HelpText /\ help'.indent # 0 /\ help'.lines = 1
      BY <3>1, <3>3, <2>6 DEF HelpText
    <3>5. here.linenr + 1 + help'.lines = here.at + 2
      BY <2>3, <3>4, <1>2
    <3>6. help' # None
      BY <3>4, NoneAssumption
    <3> QED BY <1>3, <2>1, <2>2, <2>3, <3>1, <3>2, <3>4, <3>5, <3>6
  <2> QED BY <2>2, <2>4, <2>5, <2>6
<1>6. CASE MoreLines
  <2>1. PICK l \in Lines :
          /\ ReadLine(l)
          /\ IF l.op = "blank" \/ l.indent >= help.indent
             THEN here' = Passed(l, 0) /\ help' = [help EXCEPT !.lines = @ + 1] /\ UNCHANGED tokens
             ELSE here' = Passed(l, help.lines) /\ help' = None /\ tokens' = l
    BY <1>6 DEF MoreLines
  <2>2. /\ UNCHANGED <<suite, filestack, blocks, parsing, menu, tree, result>>
        /\ help # None /\ help.indent > 0
    BY <1>6 DEF MoreLines, parser
  <2>3. /\ l \in Line \cup {Eof} /\ help \in HelpText
        /\ tokens = None /\ parsing # 0 /\ result = "none"
    BY <1>1, <1>2, <2>1, <2>2, ReadFacts DEF HereRight
  <2>4. help.indent \in Nat /\ help.lines \in Nat /\ here.linenr + help.lines = here.at + 1
    BY <1>1, <2>2, <2>3 DEF HereRight, HelpText
  <2>5. CASE l.op = "blank" \/ l.indent >= help.indent
    <3>1. here' = Passed(l, 0) /\ help' = [help EXCEPT !.lines = @ + 1] /\ tokens' = None
      BY <2>1, <2>3, <2>5
    <3>2. l # Eof
      BY <2>2, <2>4, <2>5 DEF Eof
    <3>3. help' \in HelpText /\ help'.indent = help.indent /\ help'.lines = help.lines + 1
      BY <2>3, <3>1 DEF HelpText
    <3>4. here.linenr + 0 + help'.lines = here.at + 2 /\ help'.indent # 0
      BY <2>2, <2>4, <3>3, <1>2
    <3>5. help' # None
      BY <3>3, NoneAssumption
    <3> QED BY <1>3, <2>1, <2>2, <2>3, <3>1, <3>2, <3>3, <3>4, <3>5
  <2>6. CASE ~ (l.op = "blank" \/ l.indent >= help.indent)
    <3>1. here' = Passed(l, help.lines) /\ help' = None /\ tokens' = l
      BY <2>1, <2>6
    <3> QED BY <1>3, <2>1, <2>2, <2>3, <2>4, <3>1
  <2> QED BY <2>2, <2>5, <2>6
<1> QED BY <1>4, <1>5, <1>6

-----------------------------------------------------------------------------
(* What does not change *)

(* The files that are read: the ones further out, and the one that is open. *)
LEMMA ReadingFacts ==
    ASSUME NEW files \in Seq(Position), NEW h \in Position, NEW reading, reading = Append(files, h)
    PROVE  /\ reading \in Seq(Position) /\ Len(files) \in Nat
           /\ Len(reading) = Len(files) + 1 /\ DOMAIN reading = 1 .. Len(files) + 1
           /\ DOMAIN files = 1 .. Len(files)
           /\ \A j \in DOMAIN files : reading[j] = files[j]
           /\ reading[Len(files) + 1] = h
OBVIOUS

(* The lines that source the j-th file do not depend on the files behind it. *)
LEMMA PathFacts ==
    ASSUME NEW files \in Seq(Position), NEW h \in Position, NEW reading, reading = Append(files, h),
           NEW j \in DOMAIN reading
    PROVE  [i \in 1 .. j - 1 |-> <<reading[i].file, reading[i].linenr>>]
             = [i \in 1 .. j - 1 |-> <<files[i].file, files[i].linenr>>]
<1>1. /\ DOMAIN reading = 1 .. Len(files) + 1 /\ DOMAIN files = 1 .. Len(files)
      /\ Len(files) \in Nat /\ \A i \in DOMAIN files : reading[i] = files[i]
  BY ReadingFacts
<1>2. \A i \in 1 .. j - 1 : i \in 1 .. Len(files)
  BY <1>1
<1>3. \A i \in 1 .. j - 1 : reading[i] = files[i]
  BY <1>1, <1>2
<1> QED BY <1>3

LEMMA StackKept ==
    ASSUME Typed, Typed', StackRight, Grown, filestack' = filestack, here'.file = here.file
    PROVE  StackRight'
<1>1. /\ Len(filestack) \in Nat
      /\ DOMAIN Reading = 1 .. Len(filestack) + 1 /\ DOMAIN filestack = 1 .. Len(filestack)
      /\ \A j \in DOMAIN filestack : Reading[j] = filestack[j]
      /\ Reading[Len(filestack) + 1] = here
  BY ReadingFacts DEF Typed, Reading
<1>2. /\ DOMAIN Reading' = 1 .. Len(filestack) + 1
      /\ \A j \in DOMAIN filestack : Reading'[j] = filestack[j]
      /\ Reading'[Len(filestack) + 1] = here'
  <2>1. Reading' = Append(filestack, here') /\ here' \in Position /\ filestack \in Seq(Position)
    BY DEF Typed, Reading
  <2> QED BY <2>1, ReadingFacts
<1>3. \A j \in DOMAIN Reading : Reading'[j].file = Reading[j].file
  <2> TAKE j \in DOMAIN Reading
  <2>1. CASE j \in DOMAIN filestack
    BY <2>1, <1>1, <1>2
  <2>2. CASE j = Len(filestack) + 1
    BY <2>2, <1>1, <1>2
  <2> QED BY <2>1, <2>2, <1>1
<1>4. Reading'[1].file = Main
  BY <1>1, <1>3 DEF StackRight
<1>5. ASSUME NEW j \in DOMAIN filestack
      PROVE  /\ Placed(filestack[j])'
             /\ filestack[j].linenr = filestack[j].at /\ filestack[j].at # 0
             /\ texts'[filestack[j].file][filestack[j].at].op = "source"
             /\ texts'[filestack[j].file][filestack[j].at].arg = Reading'[j + 1].file
  <2>1. /\ Placed(filestack[j]) /\ filestack[j] \in Position
        /\ filestack[j].linenr = filestack[j].at /\ filestack[j].at # 0
        /\ texts[filestack[j].file][filestack[j].at].op = "source"
        /\ texts[filestack[j].file][filestack[j].at].arg = Reading[j + 1].file
    BY <1>1 DEF StackRight, Typed
  <2> DEFINE p == filestack[j]
  <2>2. /\ p.file \in DOMAIN texts /\ p.at \in Nat /\ p.at <= Len(texts[p.file])
        /\ texts[p.file] \in Seq(Line)
    BY <2>1 DEF Placed, Position, Typed
  <2>3. p.at \in DOMAIN texts[p.file]
    BY <2>1, <2>2
  <2>4. /\ p.file \in DOMAIN texts' /\ Len(texts[p.file]) <= Len(texts'[p.file])
        /\ texts'[p.file][p.at] = texts[p.file][p.at]
    BY <2>2, <2>3 DEF Grown
  <2>5. texts'[p.file] \in Seq(Line)
    BY <2>4 DEF Typed
  <2>6. p.at <= Len(texts'[p.file])
    BY <2>2, <2>4, <2>5
  <2>7. Reading'[j + 1].file = Reading[j + 1].file
    BY <1>1, <1>3
  <2>8. Placed(filestack[j])'
    BY <2>4, <2>6 DEF Placed
  <2> QED BY <2>1, <2>4, <2>7, <2>8
<1>6. \A i, j \in DOMAIN Reading' : Reading'[i].file = Reading'[j].file => i = j
  BY <1>1, <1>2, <1>3 DEF StackRight
<1> QED BY <1>4, <1>5, <1>6 DEF StackRight

(* Nodes keep their places, and what they stand for. *)
MenuKept ==
    \A k \in DOMAIN menu :
      /\ k \in DOMAIN menu'
      /\ menu'[k].kind = menu[k].kind /\ menu'[k].item = menu[k].item
      /\ menu'[k].file = menu[k].file /\ menu'[k].linenr = menu[k].linenr
      /\ menu'[k].include_path = menu[k].include_path

(* The place of a node is a sequence, its last element the line of the node. *)
LEMMA PlaceFacts ==
    ASSUME NEW nodes \in Seq(NodeRec), NEW k \in DOMAIN nodes, NEW place,
           place = Append(nodes[k].include_path, <<nodes[k].file, nodes[k].linenr>>)
    PROVE  /\ place \in Seq(FileNames \X Nat) /\ Len(place) \in Nat /\ Len(place) # 0
           /\ Len(place) = Len(nodes[k].include_path) + 1
           /\ DOMAIN place = 1 .. Len(place)
           /\ Last(place) = <<nodes[k].file, nodes[k].linenr>>
           /\ place[Len(place)] = <<nodes[k].file, nodes[k].linenr>>
           /\ \A i \in DOMAIN nodes[k].include_path : place[i] = nodes[k].include_path[i]
<1>1. /\ nodes[k].include_path \in Seq(FileNames \X Nat)
      /\ nodes[k].file \in FileNames /\ nodes[k].linenr \in Nat
  <2>1. nodes[k] \in NodeRec
    OBVIOUS
  <2> QED BY <2>1 DEF NodeRec
<1>2. <<nodes[k].file, nodes[k].linenr>> \in FileNames \X Nat
  BY <1>1
<1> QED BY <1>1, <1>2 DEF Last

LEMMA LocatedKept ==
    ASSUME Typed, Typed', Located, Grown, MenuKept,
           \A k \in DOMAIN menu' \ DOMAIN menu : SitsAt(k)'
    PROVE  Located'
<1> SUFFICES ASSUME NEW k \in DOMAIN menu \ {1}
             PROVE  SitsAt(k)'
  BY DEF Located
<1>0. PICK place : place = Append(menu[k].include_path, <<menu[k].file, menu[k].linenr>>)
  OBVIOUS
<1>1. Place(k) = place /\ Place(k)' = place
  BY <1>0 DEF Place, MenuKept
<1>2. /\ DOMAIN place = 1 .. Len(place) /\ Len(place) \in Nat
      /\ Last(place) = place[Len(place)] /\ Len(place) # 0
      /\ place \in Seq(FileNames \X Nat)
  <2>1. menu \in Seq(NodeRec)
    BY DEF Typed
  <2>2. /\ place \in Seq(FileNames \X Nat) /\ Len(place) \in Nat /\ Len(place) # 0
        /\ DOMAIN place = 1 .. Len(place)
    BY <1>0, <2>1, PlaceFacts
  <2> QED BY <2>2 DEF Last
<1>3. /\ place[1][1] = Main
      /\ \A i \in DOMAIN place : IsLine(place[i])
      /\ \A i \in DOMAIN place \ {1} :
           LineAt(place[i - 1]).op = "source" /\ LineAt(place[i - 1]).arg = place[i][1]
      /\ LineAt(Last(place)).op \in Statements
      /\ Kinds[LineAt(Last(place)).op] = menu[k].kind
      /\ menu[k].kind = "symbol" => menu[k].item = LineAt(Last(place)).arg
  <2>1. SitsAt(k)
    BY DEF Located
  <2> QED BY <1>1, <2>1 DEF SitsAt
<1>4. \A i \in DOMAIN place : IsLine(place[i])' /\ LineAt(place[i])' = LineAt(place[i])
  <2> TAKE i \in DOMAIN place
  <2>1. IsLine(place[i])
    BY <1>3
  <2> QED BY <2>1 DEF IsLine, LineAt, Grown
<1>5. Last(place) = place[Len(place)] /\ Len(place) \in DOMAIN place
  BY <1>2
<1>6. LineAt(Last(place))' = LineAt(Last(place))
  BY <1>4, <1>5
<1>7. \A i \in DOMAIN place \ {1} : LineAt(place[i - 1])' = LineAt(place[i - 1])
  <2> TAKE i \in DOMAIN place \ {1}
  <2>1. i - 1 \in DOMAIN place
    BY <1>2
  <2> QED BY <2>1, <1>4
<1>8. menu'[k].kind = menu[k].kind /\ menu'[k].item = menu[k].item
  BY DEF MenuKept
<1>9. \A i \in DOMAIN place \ {1} :
           LineAt(place[i - 1])'.op = "source" /\ LineAt(place[i - 1])'.arg = place[i][1]
  BY <1>3, <1>7
<1>10. /\ LineAt(Last(place))'.op \in Statements
       /\ Kinds[LineAt(Last(place))'.op] = menu'[k].kind
       /\ menu'[k].kind = "symbol" => menu'[k].item = LineAt(Last(place))'.arg
  BY <1>3, <1>6, <1>8
<1>11. /\ place[1][1] = Main
       /\ \A i \in DOMAIN place : IsLine(place[i])'
  BY <1>3, <1>4
<1> QED BY <1>1, <1>9, <1>10, <1>11 DEF SitsAt

(* A block is still opened by the line that opened it. *)
LEMMA OpenedKept ==
    ASSUME LinksRight, MenuKept, NEW i \in DOMAIN blocks, NEW j,
           blocks'[i].parent = blocks[i].parent, blocks'[i].end_token = blocks[i].end_token,
           Reading'[j].file = Reading[j].file,
           \A h \in 1 .. j - 1 : /\ Reading'[h].file = Reading[h].file
                                 /\ Reading'[h].linenr = Reading[h].linenr,
           OpenedIn(i, j)
    PROVE  OpenedIn(i, j)'
<1>1. PICK k \in DOMAIN menu : k = blocks[i].parent
  BY DEF LinksRight
<1>2. /\ menu'[k].kind = menu[k].kind /\ menu'[k].file = menu[k].file
      /\ menu'[k].include_path = menu[k].include_path
  BY DEF MenuKept
<1>3. Path(j)' = Path(j)
  BY DEF Path
<1>4. /\ menu[k].kind \in Openers /\ blocks[i].end_token = EndOf[menu[k].kind]
      /\ menu[k].file = Reading[j].file /\ menu[k].include_path = Path(j)
  BY <1>1 DEF OpenedIn
<1> QED BY <1>1, <1>2, <1>3, <1>4 DEF OpenedIn

(* The innermost block ends, or the file that is read opens one, or neither. *)
LEMMA NestedKept ==
    ASSUME Typed, Typed', LinksRight, MenuKept, Nested,
           filestack' = filestack, here'.file = here.file,
           \A i \in DOMAIN blocks : i \in DOMAIN blocks' =>
             /\ blocks'[i].parent = blocks[i].parent
             /\ blocks'[i].end_token = blocks[i].end_token,
           \A i \in DOMAIN blocks : i \notin DOMAIN blocks' => blocks[i].end_token # "eof",
           \A i \in DOMAIN blocks' : i \notin DOMAIN blocks => OpenedIn(i, Len(Reading))'
    PROVE  Nested'
<1> DEFINE n == Len(filestack) + 1
<1>1. /\ n \in Nat /\ DOMAIN Reading = 1 .. n /\ Len(Reading) = n
      /\ \A j \in 1 .. n - 1 : Reading[j] = filestack[j]
      /\ Reading[n] = here
  BY ReadingFacts DEF Typed, Reading
<1>2. /\ DOMAIN Reading' = 1 .. n /\ Len(Reading') = n
      /\ \A j \in 1 .. n - 1 : Reading'[j] = filestack[j]
      /\ Reading'[n] = here'
  <2>1. Reading' = Append(filestack, here') /\ here' \in Position /\ filestack \in Seq(Position)
    BY DEF Typed, Reading
  <2> QED BY <2>1, <1>1, ReadingFacts
<1>3. /\ DOMAIN blocks = 1 .. Len(blocks) /\ Len(blocks) \in Nat
      /\ DOMAIN blocks' = 1 .. Len(blocks') /\ Len(blocks') \in Nat
  BY DEF Typed
<1> HIDE DEF n
<1>4. \A j \in 1 .. n : Reading'[j].file = Reading[j].file
  <2> TAKE j \in 1 .. n
  <2>1. j \in 1 .. n - 1 \/ j = n
    BY <1>1
  <2> QED BY <2>1, <1>1, <1>2
<1>5. \A j \in 1 .. n - 1 : Reading'[j] = Reading[j]
  BY <1>1, <1>2
<1>6. PICK at \in [DOMAIN Reading -> DOMAIN blocks] : Level(at)
  BY DEF Nested
<1>7. /\ at \in [1 .. n -> DOMAIN blocks] /\ at[1] = 1
      /\ \A j \in 1 .. n : at[j] >= j /\ blocks[at[j]].end_token = "eof"
      /\ \A i, j \in 1 .. n : i < j => at[i] < at[j]
      /\ \A i \in DOMAIN blocks, j \in 1 .. n :
           at[j] < i /\ (j < n => i < at[j + 1]) => OpenedIn(i, j)
  BY <1>1, <1>6 DEF Level
<1>8. \A j \in 1 .. n : at[j] \in DOMAIN blocks /\ at[j] \in DOMAIN blocks'
  BY <1>7
<1>9. at \in [1 .. n -> DOMAIN blocks']
  BY <1>7, <1>8
<1>10. \A j \in 1 .. n : at[j] >= j /\ blocks'[at[j]].end_token = "eof"
  BY <1>7, <1>8
<1>11. ASSUME NEW i \in DOMAIN blocks', NEW j \in 1 .. n, at[j] < i, j < n => i < at[j + 1]
       PROVE  OpenedIn(i, j)'
  <2>1. CASE i \in DOMAIN blocks
    <3>1. OpenedIn(i, j)
      BY <2>1, <1>7, <1>11
    <3>2. \A h \in 1 .. j - 1 : h \in 1 .. n - 1
      BY <1>1
    <3>3. \A h \in 1 .. j - 1 : /\ Reading'[h].file = Reading[h].file
                                /\ Reading'[h].linenr = Reading[h].linenr
      BY <3>2, <1>5
    <3>4. Reading'[j].file = Reading[j].file
      BY <1>4
    <3> QED BY <2>1, <3>1, <3>3, <3>4, OpenedKept
  <2>2. CASE i \notin DOMAIN blocks
    <3>1. j = n
      <4> SUFFICES ASSUME j # n
                   PROVE  FALSE
        OBVIOUS
      <4>1. j < n /\ j + 1 \in 1 .. n
        BY <1>1
      <4>2. i < at[j + 1] /\ at[j + 1] \in DOMAIN blocks
        BY <4>1, <1>8, <1>11
      <4> QED BY <4>2, <2>2, <1>3
    <3> QED BY <2>2, <3>1, <1>2
  <2> QED BY <2>1, <2>2
<1>12. Level(at)'
  BY <1>2, <1>7, <1>9, <1>10, <1>11 DEF Level
<1> QED BY <1>2, <1>9, <1>12 DEF Nested

(* The lines that source the file that is read *)
LEMMA PathKept ==
    ASSUME Typed, Typed', filestack' = filestack
    PROVE  /\ Len(Reading') = Len(Reading) /\ Len(Reading) = Len(filestack) + 1
           /\ Len(filestack) \in Nat
           /\ Path(Len(Reading)) = [i \in DOMAIN filestack |-> <<filestack[i].file, filestack[i].linenr>>]
           /\ Path(Len(Reading))' = Path(Len(Reading))
<1> DEFINE n == Len(filestack) + 1
<1>1. /\ n \in Nat /\ Len(filestack) \in Nat /\ DOMAIN filestack = 1 .. n - 1
      /\ DOMAIN Reading = 1 .. n /\ Len(Reading) = n
      /\ Reading = Append(filestack, here) /\ here \in Position /\ filestack \in Seq(Position)
  BY ReadingFacts DEF Typed, Reading
<1>2. /\ DOMAIN Reading' = 1 .. n /\ Len(Reading') = n
      /\ Reading' = Append(filestack, here') /\ here' \in Position
  <2>1. Reading' = Append(filestack, here') /\ here' \in Position /\ filestack \in Seq(Position)
    BY DEF Typed, Reading
  <2> QED BY <2>1, <1>1, ReadingFacts
<1> HIDE DEF n
<1>3. n \in DOMAIN Reading /\ n \in DOMAIN Reading'
  BY <1>1, <1>2 DEF n
<1>4. Path(n) = [i \in 1 .. n - 1 |-> <<filestack[i].file, filestack[i].linenr>>]
  BY <1>1, <1>3, PathFacts DEF Path
<1>5. [i \in 1 .. n - 1 |-> <<Reading'[i].file, Reading'[i].linenr>>]
        = [i \in 1 .. n - 1 |-> <<filestack[i].file, filestack[i].linenr>>]
  BY <1>1, <1>2, <1>3, PathFacts
<1>6. Path(Len(Reading))' = [i \in 1 .. n - 1 |-> <<filestack[i].file, filestack[i].linenr>>]
  BY <1>2, <1>5 DEF Path
<1> QED BY <1>1, <1>2, <1>4, <1>6 DEF n

LEMMA ReadStep ==
    ASSUME IInv, NextLine \/ FirstLine \/ MoreLines
    PROVE  IInv'
<1>1. /\ Typed' /\ HereRight' /\ Grown /\ here'.file = here.file
      /\ UNCHANGED <<suite, filestack, blocks, parsing, menu, tree, result>>
  BY Reads
<1>2. /\ Typed /\ StackRight /\ LinksRight /\ ParsingRight /\ Nested /\ Located /\ BuiltLast
  BY DEF IInv
<1>3. MenuKept
  BY <1>1 DEF MenuKept
<1>4. StackRight'
  BY <1>1, <1>2, StackKept
<1>5. LinksRight'
  BY <1>1, <1>2 DEF LinksRight
<1>6. ParsingRight'
  BY <1>1, <1>2, PathKept DEF ParsingRight
<1>7. Nested'
  BY <1>1, <1>2, <1>3, NestedKept
<1>8. Located'
  BY <1>1, <1>2, <1>3, LocatedKept
<1>9. BuiltLast'
  BY <1>1, <1>2 DEF BuiltLast, Built
<1> QED BY <1>1, <1>4, <1>5, <1>6, <1>7, <1>8, <1>9 DEF IInv

-----------------------------------------------------------------------------
(* Parsing lines *)

(* A line is parsed only while no help text is read; after it, the reader stands
   behind it.                                                                 *)
LEMMA Parsed ==
    ASSUME Typed, HereRight, tokens # None
    PROVE  /\ help = None
           /\ tokens # Eof => /\ tokens \in Line /\ here.linenr = here.at /\ here.at # 0
                              /\ texts[here.file][here.at] = tokens
           /\ here \in Position /\ Placed(here)
<1>1. tokens \in Line \cup {Eof, None} /\ here \in Position
  BY DEF Typed
<1> QED BY <1>1 DEF HereRight

LEMMA HereConsumed ==
    ASSUME Typed, HereRight, tokens # None, tokens # Eof, tokens' = None,
           UNCHANGED <<texts, here, help>>
    PROVE  HereRight'
BY Parsed, EofIsNoLine DEF HereRight, Placed

(* The innermost call of _parse_block *)
LEMMA BlockFacts ==
    ASSUME Typed, LinksRight, Nested
    PROVE  /\ Len(blocks) \in Nat /\ Len(blocks) >= 1 /\ DOMAIN blocks = 1 .. Len(blocks)
           /\ block = blocks[Len(blocks)] /\ block \in Block
           /\ block.parent \in DOMAIN menu /\ block.prev \in DOMAIN menu
           /\ DOMAIN menu = 1 .. Len(menu) /\ Len(menu) \in Nat
<1>1. PICK at \in [DOMAIN Reading -> DOMAIN blocks] : Level(at)
  BY DEF Nested
<1>2. DOMAIN Reading = 1 .. Len(filestack) + 1 /\ Len(filestack) \in Nat
  BY ReadingFacts DEF Typed, Reading
<1>3. 1 \in DOMAIN blocks
  <2>1. 1 \in DOMAIN Reading
    BY <1>2
  <2>2. at[1] \in DOMAIN blocks
    BY <2>1
  <2> QED BY <1>1, <2>2 DEF Level
<1>4. blocks \in Seq(Block) /\ menu \in Seq(NodeRec)
  BY DEF Typed
<1>5. /\ Len(blocks) \in Nat /\ DOMAIN blocks = 1 .. Len(blocks)
      /\ DOMAIN menu = 1 .. Len(menu) /\ Len(menu) \in Nat
  BY <1>4
<1>6. Len(blocks) >= 1 /\ Len(blocks) \in DOMAIN blocks
  BY <1>3, <1>5
<1>7. block = blocks[Len(blocks)] /\ block \in Block
  BY <1>4, <1>6 DEF block, Last
<1> QED BY <1>5, <1>6, <1>7 DEF LinksRight

LEMMA TopNodeIsNode == TopNode \in NodeRec
<1>1. Main \in FileNames /\ None \in ItemNames /\ "menu" \in NodeKinds
  BY DEF FileNames, ItemNames, Names, NodeKinds
<1>2. <<>> \in Seq(SUBSET Names) /\ <<>> \in Seq(FileNames \X Nat)
  OBVIOUS
<1> QED BY <1>1, <1>2 DEF TopNode, NodeRec

(* A node is made for the line that is parsed. *)
LEMMA NewNodeFacts ==
    ASSUME Typed, HereRight, LinksRight, Nested, tokens \in Line, tokens.op \in Statements,
           NEW k \in Nat
    PROVE  /\ NewNode(k) \in NodeRec
           /\ NewNode(k).kind = Kinds[tokens.op]
           /\ NewNode(k).file = here.file /\ NewNode(k).linenr = here.linenr
           /\ NewNode(k).include_path = Path(Len(Reading))
           /\ NewNode(k).parent = block.parent /\ NewNode(k).next = 0 /\ NewNode(k).list = 0
           /\ NewNode(k).kind = "symbol" => NewNode(k).item = tokens.arg
<1> DEFINE path == [i \in DOMAIN filestack |-> <<filestack[i].file, filestack[i].linenr>>]
           dep == IF tokens.op = "if" THEN {tokens.arg} ELSE {}
           prompt == tokens.op \in {"menu", "comment"}
           kind == Kinds[tokens.op]
           item == Item(k)
<1>1. path = Path(Len(Reading)) /\ path \in Seq(FileNames \X Nat)
  <2>1. filestack \in Seq(Position) /\ here \in Position
    BY DEF Typed
  <2>2. /\ DOMAIN Reading = 1 .. Len(filestack) + 1 /\ Len(Reading) = Len(filestack) + 1
        /\ DOMAIN filestack = 1 .. Len(filestack) /\ Len(filestack) \in Nat
    BY <2>1, ReadingFacts DEF Reading
  <2>3. Path(Len(filestack) + 1)
          = [i \in 1 .. Len(filestack) + 1 - 1 |-> <<filestack[i].file, filestack[i].linenr>>]
    BY <2>1, <2>2, PathFacts DEF Path, Reading
  <2>4. Len(filestack) + 1 - 1 = Len(filestack)
    BY <2>2
  <2>5. path = Path(Len(Reading))
    BY <2>2, <2>3, <2>4
  <2>6. \A i \in 1 .. Len(filestack) : <<filestack[i].file, filestack[i].linenr>> \in FileNames \X Nat
    <3> TAKE i \in 1 .. Len(filestack)
    <3>1. filestack[i] \in Position
      BY <2>1, <2>2
    <3> QED BY <3>1 DEF Position
  <2> QED BY <2>2, <2>5, <2>6
<1>2. dep \in SUBSET Names /\ prompt \in BOOLEAN
  BY DEF Line, Names
<1>3. kind \in NodeKinds /\ (kind = "symbol" => tokens.op = "config")
  BY Words
<1>4. item \in ItemNames /\ (tokens.op = "config" => item = tokens.arg)
  <2>1. tokens.arg \in Names
    BY DEF Line, Names
  <2>2. None \in Names
    BY DEF Names
  <2>3. tokens.op = "config" => item = tokens.arg
    BY DEF Item
  <2>4. item = Unnamed(k) \/ item = tokens.arg \/ item = None
    BY DEF Item
  <2> QED BY <2>1, <2>2, <2>3, <2>4 DEF ItemNames
<1>5. here.file \in FileNames /\ here.linenr \in Nat /\ block.parent \in Nat
  BY BlockFacts DEF Typed, Position
<1>6. NewNode(k) = [TopNode EXCEPT !.kind = kind, !.item = item, !.prompt = prompt, !.dep = dep,
                       !.parent = block.parent, !.linenr = here.linenr, !.file = here.file,
                       !.include_path = path]
  BY DEF NewNode
<1> HIDE DEF path, dep, prompt, kind, item
<1>7. /\ NewNode(k) = [kind |-> kind, item |-> item, prompt |-> prompt, cond |-> {}, dep |-> dep,
                       props |-> <<>>, selects |-> {}, visibility |-> {},
                       parent |-> block.parent, next |-> 0, list |-> 0,
                       linenr |-> here.linenr, file |-> here.file, include_path |-> path]
  BY <1>6 DEF TopNode
<1>8. <<>> \in Seq(SUBSET Names)
  OBVIOUS
<1>9. NewNode(k) \in NodeRec
  BY <1>1, <1>2, <1>3, <1>4, <1>5, <1>7, <1>8 DEF NodeRec
<1>10. /\ NewNode(k).kind = kind /\ NewNode(k).item = item
       /\ NewNode(k).file = here.file /\ NewNode(k).linenr = here.linenr
       /\ NewNode(k).include_path = path
       /\ NewNode(k).parent = block.parent /\ NewNode(k).next = 0 /\ NewNode(k).list = 0
  BY <1>7
<1> QED BY <1>1, <1>3, <1>4, <1>9, <1>10 DEF kind

(* The place of a new node: the line that is parsed. *)
LEMMA NewNodeSits ==
    ASSUME Typed, Typed', HereRight, StackRight, LinksRight, Nested,
           tokens \in Line, tokens.op \in Statements,
           UNCHANGED <<texts, here, filestack>>,
           NEW k \in DOMAIN menu', menu'[k] = NewNode(k), k \in Nat
    PROVE  SitsAt(k)'
<1> DEFINE n == Len(filestack) + 1
<1>1. /\ NewNode(k).kind = Kinds[tokens.op]
      /\ NewNode(k).file = here.file /\ NewNode(k).linenr = here.linenr
      /\ NewNode(k).include_path = Path(Len(Reading))
      /\ NewNode(k).kind = "symbol" => NewNode(k).item = tokens.arg
  BY NewNodeFacts
<1>2. /\ n \in Nat /\ n >= 1 /\ DOMAIN filestack = 1 .. n - 1 /\ DOMAIN Reading = 1 .. n
      /\ \A j \in DOMAIN filestack : Reading[j] = filestack[j]
      /\ Reading[n] = here /\ Reading \in Seq(Position)
  BY ReadingFacts DEF Typed, Reading
<1>3. Path(Len(Reading)) = [i \in DOMAIN filestack |-> <<filestack[i].file, filestack[i].linenr>>]
  BY PathKept
<1>4. PICK place : place = Append(NewNode(k).include_path, <<NewNode(k).file, NewNode(k).linenr>>)
  OBVIOUS
<1>5. Place(k)' = place
  BY <1>4 DEF Place
<1>6. /\ DOMAIN place = 1 .. n /\ Len(place) = n
      /\ place[n] = <<here.file, here.linenr>> /\ Last(place) = place[n]
      /\ \A i \in 1 .. n - 1 : place[i] = <<filestack[i].file, filestack[i].linenr>>
  <2>1. menu' \in Seq(NodeRec)
    BY DEF Typed
  <2>2. /\ Len(place) = Len(menu'[k].include_path) + 1
        /\ DOMAIN place = 1 .. Len(place)
        /\ place[Len(place)] = <<menu'[k].file, menu'[k].linenr>>
        /\ Last(place) = <<menu'[k].file, menu'[k].linenr>>
        /\ \A i \in DOMAIN menu'[k].include_path : place[i] = menu'[k].include_path[i]
    BY <1>4, <2>1, PlaceFacts
  <2>3. menu'[k].include_path = [i \in 1 .. n - 1 |-> <<filestack[i].file, filestack[i].linenr>>]
    BY <1>1, <1>2, <1>3
  <2>4. Len(menu'[k].include_path) = n - 1
    <3>1. menu'[k].include_path \in Seq(FileNames \X Nat)
      <4>1. menu'[k] \in NodeRec
        BY <2>1
      <4> QED BY <4>1 DEF NodeRec
    <3>2. DOMAIN menu'[k].include_path = 1 .. n - 1
      BY <2>3
    <3> DEFINE m == Len(menu'[k].include_path)
    <3>3. m \in Nat /\ 1 .. m = 1 .. n - 1
      BY <3>1, <3>2
    <3> HIDE DEF n, m
    <3>4. (m # 0 => m \in 1 .. n - 1) /\ (n # 1 => n - 1 \in 1 .. m)
      BY <1>2, <3>3
    <3>5. m = n - 1
      BY <1>2, <3>3, <3>4
    <3> QED BY <3>5 DEF m
  <2> HIDE DEF n
  <2>5. Len(place) = n
    BY <2>2, <2>4, <1>2
  <2> QED BY <1>1, <2>2, <2>3, <2>5
<1>7. \A i \in 1 .. n : place[i] = <<Reading[i].file, Reading[i].linenr>>
  <2> HIDE DEF n
  <2> TAKE i \in 1 .. n
  <2>1. i \in 1 .. n - 1 \/ i = n
    BY <1>2
  <2> QED BY <2>1, <1>2, <1>6
<1> HIDE DEF n
<1>8. /\ here.linenr = here.at /\ here.at # 0 /\ texts[here.file][here.at] = tokens
      /\ Placed(here) /\ here \in Position
  <2>1. tokens # None /\ tokens # Eof
    BY EofIsNoLine
  <2> QED BY <2>1, Parsed
<1>9. \A i \in 1 .. n :
        /\ Placed(Reading[i]) /\ Reading[i].linenr = Reading[i].at /\ Reading[i].at # 0
        /\ Reading[i] \in Position
  <2> TAKE i \in 1 .. n
  <2>1. i \in 1 .. n - 1 \/ i = n
    BY <1>2
  <2>2. CASE i \in 1 .. n - 1
    <3>1. i \in DOMAIN filestack /\ Reading[i] = filestack[i]
      BY <2>2, <1>2
    <3>2. filestack[i] \in Position
      BY <3>1 DEF Typed
    <3>3. Placed(filestack[i]) /\ filestack[i].linenr = filestack[i].at /\ filestack[i].at # 0
      BY <3>1 DEF StackRight
    <3> QED BY <3>1, <3>2, <3>3
  <2>3. CASE i = n
    BY <2>3, <1>2, <1>8
  <2> QED BY <2>1, <2>2, <2>3
<1>10. \A i \in 1 .. n : IsLine(place[i])'
  <2> TAKE i \in 1 .. n
  <2>1. /\ Reading[i].file \in DOMAIN texts /\ Reading[i].at <= Len(texts[Reading[i].file])
        /\ Reading[i].at \in Nat /\ Reading[i].at # 0 /\ Reading[i].linenr = Reading[i].at
    BY <1>9 DEF Placed, Position
  <2>2. texts[Reading[i].file] \in Seq(Line)
    BY <2>1 DEF Typed
  <2>3. Reading[i].at \in DOMAIN texts[Reading[i].file]
    BY <2>1, <2>2
  <2> QED BY <1>7, <2>1, <2>3 DEF IsLine
<1>11. \A i \in 1 .. n : LineAt(place[i])' = texts[Reading[i].file][Reading[i].at]
  BY <1>7, <1>9 DEF LineAt
<1>12. \A i \in DOMAIN place \ {1} :
         LineAt(place[i - 1])'.op = "source" /\ LineAt(place[i - 1])'.arg = place[i][1]
  <2> TAKE i \in DOMAIN place \ {1}
  <2>1. i \in 1 .. n /\ i - 1 \in 1 .. n - 1 /\ i - 1 + 1 = i
    BY <1>2, <1>6
  <2>2. i - 1 \in 1 .. n /\ i - 1 \in DOMAIN filestack
    BY <1>2, <2>1
  <2>3. /\ texts[filestack[i - 1].file][filestack[i - 1].at].op = "source"
        /\ texts[filestack[i - 1].file][filestack[i - 1].at].arg = Reading[i].file
    BY <2>1, <2>2 DEF StackRight
  <2>4. LineAt(place[i - 1])' = texts[filestack[i - 1].file][filestack[i - 1].at]
    BY <2>2, <1>2, <1>11
  <2>5. place[i][1] = Reading[i].file
    BY <2>1, <1>7
  <2> QED BY <2>3, <2>4, <2>5
<1>13. LineAt(Last(place))' = tokens
  <2>1. n \in 1 .. n
    BY <1>2
  <2> QED BY <2>1, <1>2, <1>6, <1>8, <1>11
<1>14. place[1][1] = Main
  <2>1. 1 \in 1 .. n
    BY <1>2
  <2> QED BY <2>1, <1>7 DEF StackRight
<1>15. /\ LineAt(Last(place))'.op \in Statements
       /\ Kinds[LineAt(Last(place))'.op] = menu'[k].kind
       /\ menu'[k].kind = "symbol" => menu'[k].item = LineAt(Last(place))'.arg
  BY <1>1, <1>13
<1> QED BY <1>5, <1>6, <1>10, <1>12, <1>14, <1>15 DEF SitsAt

-----------------------------------------------------------------------------
(* One action at a time *)

LEMMA GrownSame == texts' = texts /\ Typed => Grown
<1> SUFFICES ASSUME texts' = texts, Typed, NEW f \in DOMAIN texts
             PROVE  Len(texts[f]) <= Len(texts'[f])
  BY DEF Grown
<1>1. Len(texts[f]) \in Nat
  BY DEF Typed
<1> QED BY <1>1

(* A node more at the end of the menu *)
LEMMA MenuAppended ==
    ASSUME Typed, HereRight, LinksRight, Nested, tokens \in Line, tokens.op \in Statements,
           NEW k, k = Len(menu) + 1, menu' = Append(menu, NewNode(k))
    PROVE  /\ k \in Nat /\ k \notin DOMAIN menu /\ k # 1 /\ k # 0
           /\ menu' \in Seq(NodeRec) /\ Len(menu') = k /\ DOMAIN menu' = DOMAIN menu \cup {k}
           /\ Len(menu') # 0
           /\ menu'[k] = NewNode(k) /\ \A j \in DOMAIN menu : menu'[j] = menu[j]
           /\ MenuKept
           /\ \A j \in DOMAIN menu' :
                {menu'[j].parent, menu'[j].next, menu'[j].list} \subseteq {0} \cup DOMAIN menu'
<1>1. menu \in Seq(NodeRec) /\ Len(menu) \in Nat /\ DOMAIN menu = 1 .. Len(menu) /\ Len(menu) # 0
  BY DEF Typed, LinksRight
<1>2. k \in Nat /\ NewNode(k) \in NodeRec
  BY <1>1, NewNodeFacts
<1>3. /\ menu' \in Seq(NodeRec) /\ Len(menu') = k /\ DOMAIN menu' = 1 .. k
      /\ menu'[k] = NewNode(k) /\ \A j \in DOMAIN menu : menu'[j] = menu[j]
  BY <1>1, <1>2
<1>4. /\ k \notin DOMAIN menu /\ k # 1 /\ k # 0 /\ DOMAIN menu' = DOMAIN menu \cup {k}
  BY <1>1, <1>3
<1>5. MenuKept
  BY <1>3, <1>4 DEF MenuKept
<1>6. ASSUME NEW j \in DOMAIN menu'
      PROVE  {menu'[j].parent, menu'[j].next, menu'[j].list} \subseteq {0} \cup DOMAIN menu'
  <2>1. CASE j \in DOMAIN menu
    BY <2>1, <1>3, <1>4 DEF LinksRight
  <2>2. CASE j = k
    <3>1. /\ menu'[k].parent \in DOMAIN menu /\ menu'[k].next = 0 /\ menu'[k].list = 0
      BY <1>2, <1>3, NewNodeFacts, BlockFacts
    <3> QED BY <2>2, <3>1, <1>4
  <2> QED BY <2>1, <2>2, <1>4
<1> QED BY <1>2, <1>3, <1>4, <1>5, <1>6

(* A statement begins: its node is made in the file that is read, and is the
   last one of the menu.                                                      *)
LEMMA DefineStep ==
    ASSUME IInv, Define
    PROVE  IInv'
<1> USE EofIsNoLine
<1>1. /\ Typed /\ HereRight /\ StackRight /\ LinksRight /\ Nested /\ Located /\ BuiltLast
  BY DEF IInv
<1>2. /\ result = "none" /\ tokens # None /\ tokens.op \in {"config", "choice", "menu", "comment"}
      /\ menu' = Append(menu, NewNode(Len(menu) + 1)) /\ parsing' = Len(menu) + 1
      /\ tokens' = None
      /\ UNCHANGED <<suite, texts, ended, here, help, tree, result, filestack, blocks>>
  BY DEF Define, InBlock, Done, reader
<1>3. tokens \in Line /\ tokens # Eof /\ tokens.op \in Statements
  BY <1>1, <1>2 DEF Typed, Statements
<1>0. PICK k : k = Len(menu) + 1
  OBVIOUS
<1>4. /\ k \in Nat /\ k \notin DOMAIN menu /\ k # 1 /\ k # 0
      /\ menu' \in Seq(NodeRec) /\ Len(menu') = k /\ DOMAIN menu' = DOMAIN menu \cup {k}
      /\ Len(menu') # 0
      /\ menu'[k] = NewNode(k) /\ MenuKept
      /\ \A j \in DOMAIN menu' :
           {menu'[j].parent, menu'[j].next, menu'[j].list} \subseteq {0} \cup DOMAIN menu'
  BY <1>0, <1>1, <1>2, <1>3, MenuAppended
<1>5. Typed'
  BY <1>0, <1>1, <1>2, <1>4 DEF Typed
<1>6. HereRight'
  BY <1>1, <1>2, <1>3, HereConsumed
<1>7. Grown
  BY <1>1, <1>2, GrownSame
<1>8. StackRight'
  BY <1>1, <1>2, <1>5, <1>7, StackKept
<1>9. LinksRight'
  BY <1>1, <1>2, <1>4 DEF LinksRight
<1>10. ParsingRight'
  <2>1. Path(Len(Reading))' = Path(Len(Reading))
    BY <1>1, <1>2, <1>5, PathKept
  <2>2. NewNode(k).file = here.file /\ NewNode(k).include_path = Path(Len(Reading))
    BY <1>1, <1>3, <1>4, NewNodeFacts
  <2> QED BY <1>0, <1>2, <1>4, <2>1, <2>2 DEF ParsingRight
<1>11. Nested'
  BY <1>1, <1>2, <1>4, <1>5, NestedKept
<1>12. Located'
  <2>1. SitsAt(k)'
    BY <1>1, <1>2, <1>3, <1>4, <1>5, NewNodeSits
  <2> QED BY <1>1, <1>4, <1>5, <1>7, <2>1, LocatedKept
<1>13. BuiltLast'
  BY <1>1, <1>2 DEF BuiltLast, Built
<1> QED BY <1>5, <1>6, <1>8, <1>9, <1>10, <1>11, <1>12, <1>13 DEF IInv

(* The node of the block that is opened belongs to the file that is read. *)
LEMMA OpenedNow ==
    ASSUME Typed, Typed', filestack' = filestack, here'.file = here.file, NEW k, NEW i,
           blocks'[i].parent = k, menu'[k].kind \in Openers,
           blocks'[i].end_token = EndOf[menu'[k].kind],
           menu'[k].file = here.file, menu'[k].include_path = Path(Len(Reading))
    PROVE  OpenedIn(i, Len(Reading))'
<1>1. Path(Len(Reading))' = Path(Len(Reading)) /\ Len(Reading') = Len(filestack) + 1
  BY PathKept
<1>2. Reading'[Len(filestack) + 1] = here'
  <2>1. Reading' = Append(filestack, here') /\ here' \in Position /\ filestack \in Seq(Position)
    BY DEF Typed, Reading
  <2> QED BY <2>1, ReadingFacts
<1> QED BY <1>1, <1>2 DEF OpenedIn

LEMMA BlockAppended ==
    ASSUME Typed, LinksRight, Nested, NEW b \in Block, blocks' = Append(blocks, b)
    PROVE  /\ blocks' \in Seq(Block) /\ Len(blocks') = Len(blocks) + 1
           /\ DOMAIN blocks' = DOMAIN blocks \cup {Len(blocks) + 1}
           /\ Len(blocks) + 1 \notin DOMAIN blocks
           /\ blocks'[Len(blocks) + 1] = b
           /\ \A i \in DOMAIN blocks : blocks'[i] = blocks[i]
<1>1. blocks \in Seq(Block) /\ Len(blocks) \in Nat /\ DOMAIN blocks = 1 .. Len(blocks)
  BY DEF Typed
<1>2. /\ blocks' \in Seq(Block) /\ Len(blocks') = Len(blocks) + 1
      /\ DOMAIN blocks' = 1 .. Len(blocks) + 1
      /\ blocks'[Len(blocks) + 1] = b
      /\ \A i \in DOMAIN blocks : blocks'[i] = blocks[i]
  BY <1>1
<1>3. /\ DOMAIN blocks' = DOMAIN blocks \cup {Len(blocks) + 1}
      /\ Len(blocks) + 1 \notin DOMAIN blocks
  BY <1>1, <1>2
<1> QED BY <1>2, <1>3

(* next and list are all that linking changes in a node. *)
WithNext(nodes, k, v) == [nodes EXCEPT ![k].next = v]
LEMMA NextSet ==
    ASSUME NEW nodes \in Seq(NodeRec), NEW k \in DOMAIN nodes, NEW v \in Nat,
           NEW new, new = WithNext(nodes, k, v)
    PROVE  /\ new \in Seq(NodeRec) /\ DOMAIN new = DOMAIN nodes /\ Len(new) = Len(nodes)
           /\ \A j \in DOMAIN nodes :
                /\ new[j].kind = nodes[j].kind /\ new[j].item = nodes[j].item
                /\ new[j].file = nodes[j].file /\ new[j].linenr = nodes[j].linenr
                /\ new[j].include_path = nodes[j].include_path
                /\ new[j].parent = nodes[j].parent /\ new[j].list = nodes[j].list
                /\ new[j].next = IF j = k THEN v ELSE nodes[j].next
<1>1. nodes[k] \in NodeRec
  OBVIOUS
<1> DEFINE node == [nodes[k] EXCEPT !.next = v]
<1>2. /\ node \in NodeRec
      /\ node.kind = nodes[k].kind /\ node.item = nodes[k].item
      /\ node.file = nodes[k].file /\ node.linenr = nodes[k].linenr
      /\ node.include_path = nodes[k].include_path
      /\ node.parent = nodes[k].parent /\ node.list = nodes[k].list /\ node.next = v
  BY <1>1 DEF NodeRec
<1>3. new = [nodes EXCEPT ![k] = node]
  BY DEF WithNext
<1> HIDE DEF node
<1>4. new \in Seq(NodeRec) /\ DOMAIN new = DOMAIN nodes /\ Len(new) = Len(nodes)
  BY <1>2, <1>3, ExceptSeq
<1>5. \A j \in DOMAIN nodes : new[j] = IF j = k THEN node ELSE nodes[j]
  BY <1>3
<1> QED BY <1>2, <1>4, <1>5

WithList(nodes, k, v) == [nodes EXCEPT ![k].list = v]
LEMMA ListSet ==
    ASSUME NEW nodes \in Seq(NodeRec), NEW k \in DOMAIN nodes, NEW v \in Nat,
           NEW new, new = WithList(nodes, k, v)
    PROVE  /\ new \in Seq(NodeRec) /\ DOMAIN new = DOMAIN nodes /\ Len(new) = Len(nodes)
           /\ \A j \in DOMAIN nodes :
                /\ new[j].kind = nodes[j].kind /\ new[j].item = nodes[j].item
                /\ new[j].file = nodes[j].file /\ new[j].linenr = nodes[j].linenr
                /\ new[j].include_path = nodes[j].include_path
                /\ new[j].parent = nodes[j].parent /\ new[j].next = nodes[j].next
                /\ new[j].list = IF j = k THEN v ELSE nodes[j].list
<1>1. nodes[k] \in NodeRec
  OBVIOUS
<1> DEFINE node == [nodes[k] EXCEPT !.list = v]
<1>2. /\ node \in NodeRec
      /\ node.kind = nodes[k].kind /\ node.item = nodes[k].item
      /\ node.file = nodes[k].file /\ node.linenr = nodes[k].linenr
      /\ node.include_path = nodes[k].include_path
      /\ node.parent = nodes[k].parent /\ node.next = nodes[k].next /\ node.list = v
  BY <1>1 DEF NodeRec
<1>3. new = [nodes EXCEPT ![k] = node]
  BY DEF WithList
<1> HIDE DEF node
<1>4. new \in Seq(NodeRec) /\ DOMAIN new = DOMAIN nodes /\ Len(new) = Len(nodes)
  BY <1>2, <1>3, ExceptSeq
<1>5. \A j \in DOMAIN nodes : new[j] = IF j = k THEN node ELSE nodes[j]
  BY <1>3
<1> QED BY <1>2, <1>4, <1>5

(* prev.next = prev = node, in the innermost block or the one around it *)
LEMMA LinkFacts ==
    ASSUME Typed, LinksRight, Nested, NEW nodes \in Seq(NodeRec), DOMAIN nodes = DOMAIN menu,
           NEW k \in DOMAIN menu, NEW out \in {0, 1}, out < Len(blocks), Link(nodes, k, out)
    PROVE  /\ menu' \in Seq(NodeRec) /\ DOMAIN menu' = DOMAIN menu /\ Len(menu') # 0
           /\ \A j \in DOMAIN menu :
                /\ menu'[j].kind = nodes[j].kind /\ menu'[j].item = nodes[j].item
                /\ menu'[j].file = nodes[j].file /\ menu'[j].linenr = nodes[j].linenr
                /\ menu'[j].include_path = nodes[j].include_path
                /\ menu'[j].parent = nodes[j].parent /\ menu'[j].list = nodes[j].list
                /\ menu'[j].next \in {nodes[j].next, k}
           /\ blocks' \in Seq(Block) /\ DOMAIN blocks' = 1 .. Len(blocks) - out
           /\ \A i \in DOMAIN blocks' :
                /\ i \in DOMAIN blocks /\ blocks'[i].parent = blocks[i].parent
                /\ blocks'[i].end_token = blocks[i].end_token
                /\ blocks'[i].prev \in {blocks[i].prev, k}
<1> DEFINE m == Len(blocks) - out
           front == SubSeq(blocks, 1, m)
<1>1. /\ blocks \in Seq(Block) /\ Len(blocks) \in Nat /\ DOMAIN blocks = 1 .. Len(blocks)
      /\ DOMAIN menu = 1 .. Len(menu) /\ Len(menu) \in Nat /\ Len(menu) # 0
  BY BlockFacts DEF Typed, LinksRight
<1>2. m \in Nat /\ m >= 1 /\ m <= Len(blocks) /\ m \in DOMAIN blocks
  BY <1>1
<1>3. blocks[m].prev \in DOMAIN menu /\ k \in Nat
  BY <1>1, <1>2 DEF LinksRight
<1>4. menu' = WithNext(nodes, blocks[m].prev, k)
  BY DEF Link, WithNext
<1>5. blocks' = [front EXCEPT ![m].prev = k]
  BY DEF Link
<1>6. /\ front \in Seq(Block) /\ Len(front) = m /\ DOMAIN front = 1 .. m
      /\ \A i \in 1 .. m : front[i] = blocks[i]
  <2> HIDE DEF m
  <2> QED BY <1>1, <1>2, SubSeqProperties
<1> HIDE DEF m, front
<1>7. /\ menu' \in Seq(NodeRec) /\ DOMAIN menu' = DOMAIN menu /\ Len(menu') = Len(nodes)
      /\ \A j \in DOMAIN menu :
                /\ menu'[j].kind = nodes[j].kind /\ menu'[j].item = nodes[j].item
                /\ menu'[j].file = nodes[j].file /\ menu'[j].linenr = nodes[j].linenr
                /\ menu'[j].include_path = nodes[j].include_path
                /\ menu'[j].parent = nodes[j].parent /\ menu'[j].list = nodes[j].list
                /\ menu'[j].next \in {nodes[j].next, k}
  BY <1>3, <1>4, NextSet
<1>8. Len(menu') # 0
  <2>1. DOMAIN menu' = 1 .. Len(menu') /\ Len(menu') \in Nat /\ 1 \in DOMAIN menu
    BY <1>1, <1>7
  <2> QED BY <2>1, <1>7
<1> DEFINE b == [front[m] EXCEPT !.prev = k]
<1>9. /\ b \in Block /\ b.parent = blocks[m].parent /\ b.end_token = blocks[m].end_token
      /\ b.prev = k
  <2>1. m \in 1 .. m
    BY <1>2
  <2>2. front[m] = blocks[m] /\ blocks[m] \in Block
    BY <1>1, <1>2, <1>6, <2>1
  <2> QED BY <1>3, <2>2 DEF Block
<1>10. blocks' = [front EXCEPT ![m] = b]
  BY <1>5
<1> HIDE DEF b
<1>11. m \in DOMAIN front
  BY <1>2, <1>6
<1>12. blocks' \in Seq(Block) /\ DOMAIN blocks' = 1 .. m
  BY <1>6, <1>9, <1>10, <1>11, ExceptSeq
<1>13. \A i \in 1 .. m : blocks'[i] = IF i = m THEN b ELSE blocks[i]
  BY <1>6, <1>10
<1>14. \A i \in DOMAIN blocks' :
         /\ i \in DOMAIN blocks /\ blocks'[i].parent = blocks[i].parent
         /\ blocks'[i].end_token = blocks[i].end_token
         /\ blocks'[i].prev \in {blocks[i].prev, k}
  BY <1>1, <1>2, <1>9, <1>12, <1>13
<1> QED BY <1>7, <1>8, <1>12, <1>14 DEF m

LEMMA BlankStep ==
    ASSUME IInv, Blank
    PROVE  IInv'
<1> USE EofIsNoLine
<1>1. /\ Typed /\ HereRight /\ StackRight /\ LinksRight /\ ParsingRight /\ Nested /\ Located /\ BuiltLast
  BY DEF IInv
<1>2. /\ tokens # None /\ tokens # Eof /\ tokens' = None
      /\ UNCHANGED <<suite, texts, ended, here, help, tree, result, filestack, blocks, parsing, menu>>
  BY DEF Blank, InBlock, Done, reader, parser
<1>3. Typed'
  BY <1>1, <1>2 DEF Typed
<1>4. HereRight'
  BY <1>1, <1>2, HereConsumed
<1>5. MenuKept /\ Grown
  BY <1>1, <1>2, GrownSame DEF MenuKept
<1>6. StackRight' /\ LinksRight'
  BY <1>1, <1>2, <1>3, <1>5, StackKept DEF LinksRight
<1>7. ParsingRight'
  BY <1>1, <1>2, <1>3, PathKept DEF ParsingRight
<1>8. Nested'
  BY <1>1, <1>2, <1>3, <1>5, NestedKept
<1>9. Located'
  BY <1>1, <1>2, <1>3, <1>5, LocatedKept
<1>10. BuiltLast'
  BY <1>1, <1>2 DEF BuiltLast, Built
<1> QED BY <1>3, <1>4, <1>6, <1>7, <1>8, <1>9, <1>10 DEF IInv

(* An if has no properties: its block is opened at once. *)
LEMMA IfStep ==
    ASSUME IInv, If
    PROVE  IInv'
<1> USE EofIsNoLine
<1>1. /\ Typed /\ HereRight /\ StackRight /\ LinksRight /\ Nested /\ Located /\ BuiltLast
  BY DEF IInv
<1>2. /\ result = "none" /\ tokens # None /\ tokens.op = "if" /\ parsing = 0
      /\ menu' = Append(menu, NewNode(Len(menu) + 1))
      /\ blocks' = Append(blocks, [end_token |-> EndOf["if"], parent |-> Len(menu) + 1,
                                   prev |-> Len(menu) + 1])
      /\ tokens' = None
      /\ UNCHANGED <<suite, texts, ended, here, help, tree, result, filestack, parsing>>
  BY DEF If, InBlock, Done, reader, Open
<1>3. tokens \in Line /\ tokens # Eof /\ tokens.op \in Statements
  BY <1>1, <1>2 DEF Typed, Statements
<1>0. PICK k : k = Len(menu) + 1
  OBVIOUS
<1>4. /\ k \in Nat /\ k \notin DOMAIN menu /\ k # 1 /\ k # 0
      /\ menu' \in Seq(NodeRec) /\ Len(menu') = k /\ DOMAIN menu' = DOMAIN menu \cup {k}
      /\ Len(menu') # 0
      /\ menu'[k] = NewNode(k) /\ MenuKept
      /\ \A j \in DOMAIN menu' :
           {menu'[j].parent, menu'[j].next, menu'[j].list} \subseteq {0} \cup DOMAIN menu'
  BY <1>0, <1>1, <1>2, <1>3, MenuAppended
<1>5. PICK b : b = [end_token |-> EndOf["if"], parent |-> k, prev |-> k]
  OBVIOUS
<1>6. b \in Block /\ b.end_token = EndOf["if"] /\ b.parent = k /\ b.prev = k /\ "if" \in Openers
  <2>1. "if" \in Openers
    BY DEF Openers
  <2>2. EndOf["if"] \in Enders
    BY <2>1, Words
  <2> QED BY <1>4, <1>5, <2>1, <2>2 DEF Block
<1>7. /\ blocks' \in Seq(Block) /\ DOMAIN blocks' = DOMAIN blocks \cup {Len(blocks) + 1}
      /\ Len(blocks) + 1 \notin DOMAIN blocks
      /\ blocks'[Len(blocks) + 1] = b
      /\ \A i \in DOMAIN blocks : blocks'[i] = blocks[i]
  BY <1>0, <1>1, <1>2, <1>5, <1>6, BlockAppended
<1>8. Typed'
  BY <1>1, <1>2, <1>4, <1>7 DEF Typed
<1>9. HereRight'
  BY <1>1, <1>2, <1>3, HereConsumed
<1>10. Grown
  BY <1>1, <1>2, GrownSame
<1>11. StackRight'
  BY <1>1, <1>2, <1>8, <1>10, StackKept
<1>12. LinksRight'
  <2>1. \A i \in DOMAIN blocks' : {blocks'[i].parent, blocks'[i].prev} \subseteq DOMAIN menu'
    BY <1>1, <1>4, <1>6, <1>7 DEF LinksRight
  <2> QED BY <1>4, <2>1 DEF LinksRight
<1>13. ParsingRight'
  BY <1>2 DEF ParsingRight
<1>14. Nested'
  <2>1. /\ NewNode(k).kind = "if" /\ NewNode(k).file = here.file
        /\ NewNode(k).include_path = Path(Len(Reading))
    <3>1. Kinds["if"] = "if"
      BY DEF Kinds, Statements
    <3> QED BY <1>1, <1>2, <1>3, <1>4, <3>1, NewNodeFacts
  <2>2. PICK i : i = Len(blocks) + 1
    OBVIOUS
  <2>3. OpenedIn(i, Len(Reading))'
    BY <1>1, <1>2, <1>4, <1>6, <1>7, <1>8, <2>1, <2>2, OpenedNow
  <2> QED BY <1>1, <1>2, <1>4, <1>7, <1>8, <2>2, <2>3, NestedKept
<1>15. Located'
  <2>1. SitsAt(k)'
    BY <1>1, <1>2, <1>3, <1>4, <1>8, NewNodeSits
  <2> QED BY <1>1, <1>4, <1>8, <1>10, <2>1, LocatedKept
<1>16. BuiltLast'
  BY <1>1, <1>2 DEF BuiltLast, Built
<1> QED BY <1>8, <1>9, <1>11, <1>12, <1>13, <1>14, <1>15, <1>16 DEF IInv

(* The end of a block: it is the last one that the file opened, which is not
   the call that reads the file.                                              *)
LEMMA EndBlockStep ==
    ASSUME IInv, EndBlock
    PROVE  IInv'
<1> USE EofIsNoLine
<1>1. /\ Typed /\ HereRight /\ StackRight /\ LinksRight /\ Nested /\ Located /\ BuiltLast
  BY DEF IInv
<1>2. /\ result = "none" /\ tokens # None /\ parsing = 0 /\ tokens' = None
      /\ tokens.op \in Enders /\ tokens.op = block.end_token
      /\ UNCHANGED <<suite, texts, ended, here, help, tree, result, filestack, parsing>>
  BY DEF EndBlock, InBlock, Done, reader, Enders
<1>3. tokens # Eof
  BY <1>2, Words
<1>4. PICK k, last : /\ k = block.parent /\ last = [menu EXCEPT ![block.prev].next = 0]
                     /\ Link([last EXCEPT ![k].list = last[k].next], k, 1)
  BY DEF EndBlock
<1>5. /\ Len(blocks) \in Nat /\ Len(blocks) >= 1 /\ DOMAIN blocks = 1 .. Len(blocks)
      /\ block = blocks[Len(blocks)]
      /\ k \in DOMAIN menu /\ block.prev \in DOMAIN menu
      /\ menu \in Seq(NodeRec) /\ DOMAIN menu = 1 .. Len(menu) /\ Len(menu) \in Nat
  BY <1>1, <1>4, BlockFacts DEF Typed
<1>6. blocks[Len(blocks)].end_token # "eof"
  BY <1>2, <1>5, Words
<1>7. Len(blocks) # 1
  <2>1. blocks[1].end_token = "eof"
    <3>1. PICK at \in [DOMAIN Reading -> DOMAIN blocks] : Level(at)
      BY <1>1 DEF Nested
    <3>2. 1 \in DOMAIN Reading
      BY <1>1, ReadingFacts DEF Typed, Reading
    <3> QED BY <3>1, <3>2 DEF Level
  <2> QED BY <1>6, <2>1
<1>8. /\ last \in Seq(NodeRec) /\ DOMAIN last = DOMAIN menu
      /\ \A j \in DOMAIN menu :
           /\ last[j].kind = menu[j].kind /\ last[j].item = menu[j].item
           /\ last[j].file = menu[j].file /\ last[j].linenr = menu[j].linenr
           /\ last[j].include_path = menu[j].include_path
           /\ last[j].parent = menu[j].parent /\ last[j].list = menu[j].list
           /\ last[j].next \in {0, menu[j].next}
  <2>1. PICK q \in DOMAIN menu, v \in Nat : q = block.prev /\ v = 0
    BY <1>5
  <2>2. last = WithNext(menu, q, v)
    BY <1>4, <2>1 DEF WithNext
  <2>3. /\ last \in Seq(NodeRec) /\ DOMAIN last = DOMAIN menu
        /\ \A j \in DOMAIN menu :
             /\ last[j].kind = menu[j].kind /\ last[j].item = menu[j].item
             /\ last[j].file = menu[j].file /\ last[j].linenr = menu[j].linenr
             /\ last[j].include_path = menu[j].include_path
             /\ last[j].parent = menu[j].parent /\ last[j].list = menu[j].list
             /\ last[j].next = IF j = q THEN v ELSE menu[j].next
    <3>1. menu \in Seq(NodeRec)
      BY <1>5
    <3>2. q \in DOMAIN menu /\ v \in Nat
      BY <2>1
    <3> QED BY <3>1, <3>2, <2>2, NextSet
  <2> QED BY <2>1, <2>3
<1>9. PICK nodes : nodes = [last EXCEPT ![k].list = last[k].next]
  OBVIOUS
<1>10. /\ nodes \in Seq(NodeRec) /\ DOMAIN nodes = DOMAIN menu
       /\ \A j \in DOMAIN menu :
            /\ nodes[j].kind = menu[j].kind /\ nodes[j].item = menu[j].item
            /\ nodes[j].file = menu[j].file /\ nodes[j].linenr = menu[j].linenr
            /\ nodes[j].include_path = menu[j].include_path
            /\ nodes[j].parent = menu[j].parent
            /\ nodes[j].next \in {0, menu[j].next}
            /\ nodes[j].list \in {0, menu[j].list, menu[k].next}
  <2>1. last[k].next \in Nat
    <3>1. last[k] \in NodeRec
      BY <1>5, <1>8
    <3> QED BY <3>1 DEF NodeRec
  <2>2. PICK v \in Nat : v = last[k].next
    BY <2>1
  <2>3. nodes = WithList(last, k, v) /\ v \in {0, menu[k].next} /\ k \in DOMAIN last
    BY <1>5, <1>8, <1>9, <2>2 DEF WithList
  <2>4. /\ nodes \in Seq(NodeRec) /\ DOMAIN nodes = DOMAIN last
        /\ \A j \in DOMAIN last :
             /\ nodes[j].kind = last[j].kind /\ nodes[j].item = last[j].item
             /\ nodes[j].file = last[j].file /\ nodes[j].linenr = last[j].linenr
             /\ nodes[j].include_path = last[j].include_path
             /\ nodes[j].parent = last[j].parent /\ nodes[j].next = last[j].next
             /\ nodes[j].list = IF j = k THEN v ELSE last[j].list
    BY <1>8, <2>3, ListSet
  <2> QED BY <1>8, <2>3, <2>4
<1>11. Link(nodes, k, 1) /\ 1 < Len(blocks)
  BY <1>4, <1>5, <1>7, <1>9
<1>12. /\ menu' \in Seq(NodeRec) /\ DOMAIN menu' = DOMAIN menu /\ Len(menu') # 0
       /\ \A j \in DOMAIN menu :
            /\ menu'[j].kind = nodes[j].kind /\ menu'[j].item = nodes[j].item
            /\ menu'[j].file = nodes[j].file /\ menu'[j].linenr = nodes[j].linenr
            /\ menu'[j].include_path = nodes[j].include_path
            /\ menu'[j].parent = nodes[j].parent /\ menu'[j].list = nodes[j].list
            /\ menu'[j].next \in {nodes[j].next, k}
       /\ blocks' \in Seq(Block) /\ DOMAIN blocks' = 1 .. Len(blocks) - 1
       /\ \A i \in DOMAIN blocks' :
            /\ i \in DOMAIN blocks /\ blocks'[i].parent = blocks[i].parent
            /\ blocks'[i].end_token = blocks[i].end_token
            /\ blocks'[i].prev \in {blocks[i].prev, k}
  BY <1>1, <1>5, <1>10, <1>11, LinkFacts
<1>13. MenuKept
  BY <1>10, <1>12 DEF MenuKept
<1>14. Typed'
  BY <1>1, <1>2, <1>12 DEF Typed
<1>15. HereRight'
  BY <1>1, <1>2, <1>3, HereConsumed
<1>16. Grown
  BY <1>1, <1>2, GrownSame
<1>17. StackRight'
  BY <1>1, <1>2, <1>14, <1>16, StackKept
<1>18. LinksRight'
  <2>1. \A i \in DOMAIN blocks' : {blocks'[i].parent, blocks'[i].prev} \subseteq DOMAIN menu'
    BY <1>1, <1>5, <1>12 DEF LinksRight
  <2>2. \A j \in DOMAIN menu' :
          {menu'[j].parent, menu'[j].next, menu'[j].list} \subseteq {0} \cup DOMAIN menu'
    <3> SUFFICES ASSUME NEW j \in DOMAIN menu
                 PROVE  {menu'[j].parent, menu'[j].next, menu'[j].list} \subseteq {0} \cup DOMAIN menu
      BY <1>12
    <3>1. {menu[j].parent, menu[j].next, menu[j].list, menu[k].next} \subseteq {0} \cup DOMAIN menu
      BY <1>1, <1>5 DEF LinksRight
    <3>2. /\ menu'[j].parent = menu[j].parent
          /\ menu'[j].next \in {0, menu[j].next, k}
          /\ menu'[j].list \in {0, menu[j].list, menu[k].next}
      BY <1>10, <1>12
    <3> QED BY <1>5, <3>1, <3>2
  <2> QED BY <1>12, <2>1, <2>2 DEF LinksRight
<1>19. ParsingRight'
  BY <1>2 DEF ParsingRight
<1>20. Nested'
  <2>1. \A i \in DOMAIN blocks : i \notin DOMAIN blocks' => blocks[i].end_token # "eof"
    <3> SUFFICES ASSUME NEW i \in DOMAIN blocks, i \notin DOMAIN blocks'
                 PROVE  blocks[i].end_token # "eof"
      OBVIOUS
    <3>1. i = Len(blocks)
      BY <1>5, <1>12
    <3> QED BY <3>1, <1>6
  <2> QED BY <1>1, <1>2, <1>12, <1>13, <1>14, <2>1, NestedKept
<1>21. Located'
  BY <1>1, <1>12, <1>13, <1>14, <1>16, LocatedKept
<1>22. BuiltLast'
  BY <1>1, <1>2 DEF BuiltLast, Built
<1> QED BY <1>14, <1>15, <1>17, <1>18, <1>19, <1>20, <1>21, <1>22 DEF IInv

(* A file is entered: the one that was open stands at the line that sources it. *)
LEMMA SourceStep ==
    ASSUME IInv, Source
    PROVE  IInv'
<1> USE EofIsNoLine
<1>1. /\ Typed /\ HereRight /\ StackRight /\ LinksRight /\ Nested /\ Located /\ BuiltLast
  BY DEF IInv
<1>2. /\ result = "none" /\ tokens # None /\ parsing = 0 /\ tokens' = None
      /\ tokens.op = "source" /\ ~ Recursive(tokens.arg)
      /\ filestack' = Append(filestack, here)
      /\ here' = [file |-> tokens.arg, linenr |-> 0, at |-> 0]
      /\ texts' = [f \in DOMAIN texts \cup {tokens.arg} |->
                     IF f \in DOMAIN texts THEN texts[f] ELSE <<>>]
      /\ blocks' = Append(blocks, [block EXCEPT !.end_token = "eof"])
      /\ UNCHANGED <<suite, ended, help, tree, result, parsing, menu>>
  BY DEF Source, InBlock, Done
<1>3. /\ tokens \in Line /\ tokens # Eof /\ help = None
      /\ here.linenr = here.at /\ here.at # 0 /\ texts[here.file][here.at] = tokens
      /\ here \in Position /\ Placed(here)
  <2>1. tokens # Eof
    BY <1>2
  <2> QED BY <1>1, <1>2, <2>1, Parsed
<1>4. PICK b : b = [block EXCEPT !.end_token = "eof"]
  OBVIOUS
<1>5. /\ b \in Block /\ b.end_token = "eof" /\ b.parent \in DOMAIN menu /\ b.prev \in DOMAIN menu
  <2>1. block \in Block /\ block.parent \in DOMAIN menu /\ block.prev \in DOMAIN menu
    BY <1>1, BlockFacts
  <2> QED BY <1>4, <2>1 DEF Block
<1>6. /\ blocks' \in Seq(Block) /\ DOMAIN blocks' = DOMAIN blocks \cup {Len(blocks) + 1}
      /\ Len(blocks) + 1 \notin DOMAIN blocks
      /\ blocks'[Len(blocks) + 1] = b
      /\ \A i \in DOMAIN blocks : blocks'[i] = blocks[i]
  BY <1>1, <1>2, <1>4, <1>5, BlockAppended
<1>7. /\ tokens.arg \in FileNames /\ here' \in Position /\ here'.file = tokens.arg
      /\ here'.linenr = 0 /\ here'.at = 0
  <2>1. tokens.arg \in FileNames
    BY <1>3 DEF Line, FileNames, Names
  <2> QED BY <1>2, <2>1 DEF Position
<1>8. /\ DOMAIN texts' = DOMAIN texts \cup {tokens.arg}
      /\ \A f \in DOMAIN texts : texts'[f] = texts[f]
      /\ texts' \in [DOMAIN texts' -> Seq(Line)]
  <2>1. <<>> \in Seq(Line) /\ \A f \in DOMAIN texts : texts[f] \in Seq(Line)
    BY <1>1 DEF Typed
  <2> QED BY <1>2, <2>1
<1>9. Typed'
  <2>1. filestack' \in Seq(Position)
    BY <1>1, <1>2 DEF Typed
  <2>2. DOMAIN texts' \subseteq FileNames
    BY <1>1, <1>7, <1>8 DEF Typed
  <2>3. ended' \subseteq DOMAIN texts'
    BY <1>1, <1>2, <1>8 DEF Typed
  <2> QED BY <1>1, <1>2, <1>6, <1>7, <1>8, <2>1, <2>2, <2>3 DEF Typed
<1>10. Grown
  <2> SUFFICES ASSUME NEW f \in DOMAIN texts
               PROVE  /\ f \in DOMAIN texts' /\ texts'[f] = texts[f]
                      /\ Len(texts[f]) <= Len(texts'[f])
    BY DEF Grown
  <2>1. Len(texts[f]) \in Nat
    BY <1>1 DEF Typed
  <2> QED BY <1>8, <2>1
<1>11. HereRight'
  <2>1. Placed(here)'
    <3>1. Len(texts'[here'.file]) \in Nat /\ here'.file \in DOMAIN texts'
      BY <1>7, <1>8
    <3> QED BY <1>7, <3>1 DEF Placed
  <2> QED BY <1>2, <1>3, <1>7, <2>1 DEF HereRight
<1> DEFINE n == Len(filestack) + 1
<1>12. /\ n \in Nat /\ n >= 1 /\ DOMAIN Reading = 1 .. n /\ Len(Reading) = n
       /\ DOMAIN filestack = 1 .. n - 1
       /\ \A j \in 1 .. n - 1 : Reading[j] = filestack[j]
       /\ Reading[n] = here
  BY <1>1, ReadingFacts DEF Typed, Reading
<1>13. /\ DOMAIN Reading' = 1 .. n + 1 /\ Len(Reading') = n + 1
       /\ \A j \in 1 .. n : Reading'[j] = Reading[j] /\ filestack'[j] = Reading[j]
       /\ DOMAIN filestack' = 1 .. n
       /\ Reading'[n + 1] = here'
  <2>1. Reading' = Append(filestack', here') /\ filestack' = Reading
    BY <1>2 DEF Reading
  <2>2. filestack' \in Seq(Position) /\ here' \in Position /\ Len(filestack') = n
    BY <1>9, <1>12, <2>1 DEF Typed
  <2> HIDE DEF n
  <2>3. /\ DOMAIN Reading' = 1 .. n + 1 /\ Len(Reading') = n + 1
        /\ DOMAIN filestack' = 1 .. n
        /\ \A j \in DOMAIN filestack' : Reading'[j] = filestack'[j]
        /\ Reading'[n + 1] = here'
    BY <2>1, <2>2, ReadingFacts
  <2> QED BY <2>1, <2>3
<1> HIDE DEF n
<1>14. \A j \in 1 .. n : Reading[j].file # tokens.arg
  <2> TAKE j \in 1 .. n
  <2>1. j = n \/ j \in 1 .. n - 1
    BY <1>12
  <2>2. here.file # tokens.arg /\ \A i \in DOMAIN filestack : filestack[i].file # tokens.arg
    BY <1>2 DEF Recursive
  <2> QED BY <1>12, <2>1, <2>2
<1>15. StackRight'
  <2>1. Reading'[1].file = Main
    BY <1>1, <1>12, <1>13 DEF StackRight
  <2>2. ASSUME NEW j \in DOMAIN filestack'
        PROVE  /\ Placed(filestack[j])'
               /\ filestack'[j].linenr = filestack'[j].at /\ filestack'[j].at # 0
               /\ texts'[filestack'[j].file][filestack'[j].at].op = "source"
               /\ texts'[filestack'[j].file][filestack'[j].at].arg = Reading'[j + 1].file
    <3>1. j \in 1 .. n /\ filestack'[j] = Reading[j]
      BY <1>13, <2>2
    <3>2. /\ Placed(Reading[j]) /\ Reading[j].linenr = Reading[j].at /\ Reading[j].at # 0
          /\ texts[Reading[j].file][Reading[j].at].op = "source"
          /\ texts[Reading[j].file][Reading[j].at].arg = Reading'[j + 1].file
      <4>1. CASE j = n
        <5>1. Reading[j] = here /\ Reading'[j + 1].file = tokens.arg
          BY <4>1, <1>7, <1>12, <1>13
        <5> QED BY <5>1, <1>2, <1>3
      <4>2. CASE j # n
        <5>1. j \in DOMAIN filestack /\ j + 1 \in 1 .. n /\ Reading[j] = filestack[j]
          BY <4>2, <3>1, <1>12
        <5>2. Reading'[j + 1] = Reading[j + 1]
          BY <5>1, <1>13
        <5> QED BY <5>1, <5>2, <1>1 DEF StackRight
      <4> QED BY <4>1, <4>2
    <3>3. PICK p : p = Reading[j]
      OBVIOUS
    <3>4. p.file \in DOMAIN texts /\ p.at <= Len(texts[p.file])
      BY <3>2, <3>3 DEF Placed
    <3>5. p.file \in DOMAIN texts' /\ texts'[p.file] = texts[p.file]
      BY <1>8, <3>4
    <3>6. Placed(p)'
      BY <3>4, <3>5 DEF Placed
    <3>7. filestack'[j] = p
      BY <3>1, <3>3
    <3>8. Placed(filestack[j])'
      BY <3>4, <3>5, <3>7 DEF Placed
    <3> QED BY <3>2, <3>3, <3>5, <3>7, <3>8
  <2>3. ASSUME NEW i \in DOMAIN Reading', NEW j \in DOMAIN Reading',
               Reading'[i].file = Reading'[j].file
        PROVE  i = j
    <3>1. /\ i \in 1 .. n \/ i = n + 1
          /\ j \in 1 .. n \/ j = n + 1
      BY <1>12, <1>13
    <3>2. CASE i \in 1 .. n /\ j \in 1 .. n
      BY <3>2, <2>3, <1>1, <1>12, <1>13 DEF StackRight
    <3>3. CASE i = n + 1 /\ j \in 1 .. n
      BY <3>3, <2>3, <1>7, <1>13, <1>14
    <3>4. CASE j = n + 1 /\ i \in 1 .. n
      BY <3>4, <2>3, <1>7, <1>13, <1>14
    <3> QED BY <3>1, <3>2, <3>3, <3>4
  <2>4. \A j \in DOMAIN filestack' :
               /\ Placed(filestack[j])'
               /\ filestack'[j].linenr = filestack'[j].at /\ filestack'[j].at # 0
               /\ texts'[filestack'[j].file][filestack'[j].at].op = "source"
               /\ texts'[filestack'[j].file][filestack'[j].at].arg = Reading'[j + 1].file
    BY <2>2
  <2> QED BY <2>1, <2>3, <2>4 DEF StackRight
<1>16. LinksRight'
  <2>1. ASSUME NEW i \in DOMAIN blocks'
        PROVE  {blocks'[i].parent, blocks'[i].prev} \subseteq DOMAIN menu'
    <3>1. CASE i \in DOMAIN blocks
      <4>1. blocks'[i] = blocks[i] /\ menu' = menu
        BY <3>1, <1>2, <1>6
      <4>2. {blocks[i].parent, blocks[i].prev} \subseteq DOMAIN menu
        BY <3>1, <1>1 DEF LinksRight
      <4> QED BY <4>1, <4>2
    <3>2. CASE i = Len(blocks) + 1
      <4>1. blocks'[i] = b /\ menu' = menu
        BY <3>2, <1>2, <1>6
      <4> QED BY <4>1, <1>5
    <3> QED BY <2>1, <3>1, <3>2, <1>6
  <2>2. menu' = menu
    BY <1>2
  <2> QED BY <1>1, <2>1, <2>2 DEF LinksRight
<1>17. ParsingRight'
  BY <1>2 DEF ParsingRight
<1>18. MenuKept
  BY <1>2 DEF MenuKept
<1>19. Nested'
  <2>1. PICK at \in [DOMAIN Reading -> DOMAIN blocks] : Level(at)
    BY <1>1 DEF Nested
  <2>2. /\ at \in [1 .. n -> DOMAIN blocks] /\ at[1] = 1
        /\ \A j \in 1 .. n : at[j] >= j /\ blocks[at[j]].end_token = "eof"
        /\ \A i, j \in 1 .. n : i < j => at[i] < at[j]
        /\ \A i \in DOMAIN blocks, j \in 1 .. n :
             at[j] < i /\ (j < n => i < at[j + 1]) => OpenedIn(i, j)
    BY <1>12, <2>1 DEF Level
  <2>3. PICK m : m = Len(blocks) + 1
    OBVIOUS
  <2>4. /\ m \in Nat /\ DOMAIN blocks = 1 .. m - 1 /\ DOMAIN blocks' = 1 .. m
        /\ blocks'[m].end_token = "eof"
    <3>1. Len(blocks) \in Nat /\ DOMAIN blocks = 1 .. Len(blocks)
      BY <1>1 DEF Typed
    <3>2. DOMAIN blocks' = 1 .. m
      BY <1>6, <2>3, <3>1
    <3> QED BY <1>5, <1>6, <2>3, <3>1, <3>2
  <2>5. PICK to : to = [j \in 1 .. n + 1 |-> IF j = n + 1 THEN m ELSE at[j]]
    OBVIOUS
  <2>6. \A j \in 1 .. n : at[j] \in 1 .. m - 1 /\ at[j] < m /\ at[j] >= j
    BY <2>2, <2>4
  <2>7. \A j \in 1 .. n : to[j] = at[j]
    BY <1>12, <2>5
  <2>8. to[n + 1] = m
    BY <1>12, <2>5
  <2>9. \A j \in 1 .. n + 1 : j \in 1 .. n \/ j = n + 1
    BY <1>12
  <2>10. to \in [1 .. n + 1 -> 1 .. m]
    <3>1. m \in 1 .. m
      <4>1. 1 \in 1 .. n
        BY <1>12
      <4> QED BY <4>1, <2>4, <2>6
    <3>2. \A j \in 1 .. n : to[j] \in 1 .. m
      BY <2>4, <2>6, <2>7
    <3>3. \A j \in 1 .. n + 1 : to[j] \in 1 .. m
      BY <2>8, <2>9, <3>1, <3>2
    <3> QED BY <2>5, <3>3
  <2>11. to[1] = 1
    BY <1>12, <2>2, <2>7
  <2>12. \A j \in 1 .. n + 1 : to[j] >= j /\ blocks'[to[j]].end_token = "eof"
    <3> TAKE j \in 1 .. n + 1
    <3>1. CASE j \in 1 .. n
      <4>1. at[j] \in DOMAIN blocks /\ to[j] = at[j]
        BY <3>1, <2>4, <2>6, <2>7
      <4>2. blocks'[at[j]] = blocks[at[j]]
        BY <4>1, <1>6
      <4> QED BY <3>1, <4>1, <4>2, <2>2
    <3>2. CASE j = n + 1
      <4>1. n \in 1 .. n
        BY <1>12
      <4>2. m >= n + 1
        BY <4>1, <2>4, <2>6, <1>12
      <4> QED BY <3>2, <4>2, <2>4, <2>8
    <3> QED BY <3>1, <3>2, <2>9
  <2>13. \A i, j \in 1 .. n + 1 : i < j => to[i] < to[j]
    <3> TAKE i, j \in 1 .. n + 1
    <3> HAVE i < j
    <3>1. i \in 1 .. n
      BY <1>12
    <3>2. CASE j \in 1 .. n
      BY <3>1, <3>2, <2>2, <2>7
    <3>3. CASE j = n + 1
      BY <3>1, <3>3, <2>6, <2>7, <2>8
    <3> QED BY <3>2, <3>3, <2>9
  <2>14. ASSUME NEW i \in DOMAIN blocks', NEW j \in 1 .. n + 1,
                to[j] < i, j < n + 1 => i < to[j + 1]
         PROVE  OpenedIn(i, j)'
    <3>1. j \in 1 .. n
      <4> SUFFICES ASSUME j = n + 1
                   PROVE  FALSE
        BY <2>9
      <4> QED BY <2>4, <2>8, <2>14
    <3>2. i \in DOMAIN blocks
      <4>1. j + 1 \in 1 .. n + 1 /\ i < to[j + 1]
        BY <3>1, <1>12, <2>14
      <4>2. to[j + 1] \in 1 .. m
        BY <4>1, <2>10
      <4> QED BY <4>1, <4>2, <2>4
    <3>3. j < n => i < at[j + 1]
      <4> HAVE j < n
      <4>1. j + 1 \in 1 .. n
        BY <3>1, <1>12
      <4> QED BY <4>1, <3>1, <1>12, <2>7, <2>14
    <3>4. OpenedIn(i, j)
      BY <3>1, <3>2, <3>3, <2>2, <2>7, <2>14
    <3>5. \A h \in 1 .. j - 1 : h \in 1 .. n
      BY <3>1, <1>12
    <3>6. \A h \in 1 .. j - 1 : /\ Reading'[h].file = Reading[h].file
                                /\ Reading'[h].linenr = Reading[h].linenr
      BY <3>5, <1>13
    <3>7. Reading'[j].file = Reading[j].file
      BY <3>1, <1>13
    <3>8. blocks'[i].parent = blocks[i].parent /\ blocks'[i].end_token = blocks[i].end_token
      BY <3>2, <1>6
    <3> QED BY <1>1, <1>18, <3>2, <3>4, <3>6, <3>7, <3>8, OpenedKept
  <2>15. \A i \in DOMAIN blocks', j \in 1 .. n + 1 :
           to[j] < i /\ (j < n + 1 => i < to[j + 1]) => OpenedIn(i, j)'
    BY <2>14
  <2>16. Level(to)'
    BY <1>13, <2>4, <2>10, <2>11, <2>12, <2>13, <2>15 DEF Level
  <2> QED BY <1>13, <2>4, <2>10, <2>16 DEF Nested
<1>20. Located'
  BY <1>1, <1>2, <1>9, <1>10, <1>18, LocatedKept
<1>21. BuiltLast'
  BY <1>1, <1>2 DEF BuiltLast, Built
<1> QED BY <1>9, <1>11, <1>15, <1>16, <1>17, <1>19, <1>20, <1>21 DEF IInv

LEMMA FrontFacts ==
    ASSUME NEW S, NEW s \in Seq(S), Len(s) # 0, NEW front, front = Front(s)
    PROVE  /\ front \in Seq(S) /\ Len(front) = Len(s) - 1 /\ DOMAIN front = 1 .. Len(s) - 1
           /\ \A i \in 1 .. Len(s) - 1 : front[i] = s[i]
<1> DEFINE m == Len(s) - 1
<1>1. Len(s) \in Nat /\ DOMAIN s = 1 .. Len(s)
  OBVIOUS
<1>2. m \in Nat /\ m <= Len(s) /\ 1 .. m \subseteq 1 .. Len(s)
  BY <1>1
<1>3. front = SubSeq(s, 1, m)
  BY DEF Front
<1> HIDE DEF m
<1>4. /\ front \in Seq(S) /\ Len(front) = m /\ DOMAIN front = 1 .. m
      /\ \A i \in 1 .. m : front[i] = s[i]
  BY <1>1, <1>2, <1>3, SubSeqProperties
<1> QED BY <1>4 DEF m

(* No block that the file opened is left: the call that reads it is the
   innermost one.                                                             *)
LEMMA InnermostReads ==
    ASSUME Typed, LinksRight, Nested, block.end_token = "eof", NEW at, Level(at)
    PROVE  at[Len(filestack) + 1] = Len(blocks)
<1> DEFINE n == Len(filestack) + 1
<1>1. n \in Nat /\ n >= 1 /\ DOMAIN Reading = 1 .. n /\ Len(Reading) = n
  BY ReadingFacts DEF Typed, Reading
<1>2. /\ Len(blocks) \in Nat /\ Len(blocks) \in DOMAIN blocks /\ DOMAIN blocks = 1 .. Len(blocks)
      /\ blocks[Len(blocks)].end_token = "eof"
  BY BlockFacts
<1> HIDE DEF n
<1>3. n \in DOMAIN Reading /\ at[n] \in 1 .. Len(blocks) /\ ~ n < Len(Reading)
  BY <1>1, <1>2 DEF Level
<1>4. ASSUME at[n] # Len(blocks)
      PROVE  FALSE
  <2>1. at[n] < Len(blocks)
    BY <1>2, <1>3, <1>4
  <2>2. OpenedIn(Len(blocks), n)
    BY <1>2, <1>3, <2>1 DEF Level
  <2>3. blocks[Len(blocks)].end_token \in Enders
    BY <2>2, Words DEF OpenedIn
  <2> QED BY <1>2, <2>3, Words
<1> QED BY <1>4 DEF n

(* A file is left for the one that sources it. *)
LEMMA EndOfFileStep ==
    ASSUME IInv, EndOfFile
    PROVE  IInv'
<1> USE EofIsNoLine
<1>1. /\ Typed /\ HereRight /\ StackRight /\ LinksRight /\ Nested /\ Located /\ BuiltLast
  BY DEF IInv
<1>2. /\ result = "none" /\ tokens # None /\ parsing = 0 /\ tokens' = None
      /\ block.end_token = "eof" /\ filestack # <<>>
      /\ here' = Last(filestack) /\ filestack' = Front(filestack)
      /\ blocks' = [Front(blocks) EXCEPT ![Len(blocks) - 1].prev = block.prev]
      /\ UNCHANGED <<suite, texts, ended, help, tree, result, parsing, menu>>
  BY DEF EndOfFile, InBlock, Done
<1>0. PICK n : n = Len(filestack)
  OBVIOUS
<1>3. /\ n \in Nat /\ n >= 1 /\ DOMAIN filestack = 1 .. n /\ filestack \in Seq(Position)
      /\ DOMAIN Reading = 1 .. n + 1 /\ Len(Reading) = n + 1
      /\ \A j \in 1 .. n : Reading[j] = filestack[j]
  <2>1. filestack \in Seq(Position) /\ here \in Position
    BY <1>1 DEF Typed
  <2>2. /\ DOMAIN Reading = 1 .. Len(filestack) + 1 /\ Len(Reading) = Len(filestack) + 1
        /\ DOMAIN filestack = 1 .. Len(filestack) /\ Len(filestack) \in Nat
        /\ \A j \in DOMAIN filestack : Reading[j] = filestack[j]
    BY <2>1, ReadingFacts DEF Reading
  <2>3. Len(filestack) # 0
    BY <1>2, <2>1
  <2> QED BY <1>0, <2>1, <2>2, <2>3
<1>4. /\ here' = filestack[n] /\ here' \in Position
      /\ filestack' \in Seq(Position) /\ Len(filestack') = n - 1 /\ DOMAIN filestack' = 1 .. n - 1
      /\ \A j \in 1 .. n - 1 : filestack'[j] = filestack[j]
  <2>1. here' = filestack[n] /\ n \in 1 .. n
    BY <1>0, <1>2, <1>3 DEF Last
  <2>2. /\ filestack' \in Seq(Position) /\ Len(filestack') = n - 1 /\ DOMAIN filestack' = 1 .. n - 1
        /\ \A j \in 1 .. n - 1 : filestack'[j] = filestack[j]
    BY <1>0, <1>2, <1>3, FrontFacts
  <2> QED BY <1>3, <2>1, <2>2
<1>5. /\ DOMAIN Reading' = 1 .. n /\ Len(Reading') = n
      /\ \A j \in 1 .. n : Reading'[j] = filestack[j] /\ Reading'[j] = Reading[j]
  <2>1. Reading' = Append(filestack', here')
    BY DEF Reading
  <2>2. /\ DOMAIN Reading' = 1 .. (n - 1) + 1 /\ Len(Reading') = (n - 1) + 1
        /\ \A j \in 1 .. n - 1 : Reading'[j] = filestack'[j]
        /\ Reading'[(n - 1) + 1] = here'
    BY <1>4, <2>1, ReadingFacts
  <2>3. (n - 1) + 1 = n /\ \A j \in 1 .. n : j \in 1 .. n - 1 \/ j = n
    BY <1>3
  <2>4. \A j \in 1 .. n : Reading'[j] = filestack[j]
    BY <1>4, <2>2, <2>3
  <2> QED BY <1>3, <2>2, <2>3, <2>4
<1>6. PICK at \in [DOMAIN Reading -> DOMAIN blocks] : Level(at)
  BY <1>1 DEF Nested
<1>7. /\ at \in [1 .. n + 1 -> DOMAIN blocks] /\ at[1] = 1
      /\ \A j \in 1 .. n + 1 : at[j] >= j /\ blocks[at[j]].end_token = "eof"
      /\ \A i, j \in 1 .. n + 1 : i < j => at[i] < at[j]
      /\ \A i \in DOMAIN blocks, j \in 1 .. n + 1 :
           at[j] < i /\ (j < n + 1 => i < at[j + 1]) => OpenedIn(i, j)
  BY <1>3, <1>6 DEF Level
<1>8. PICK m : m = Len(blocks)
  OBVIOUS
<1>9. /\ m \in Nat /\ DOMAIN blocks = 1 .. m /\ blocks \in Seq(Block)
      /\ block = blocks[m] /\ block.prev \in DOMAIN menu /\ block.prev \in Nat
      /\ menu \in Seq(NodeRec)
  <2>1. menu \in Seq(NodeRec) /\ blocks \in Seq(Block)
    BY <1>1 DEF Typed
  <2>2. block.prev \in DOMAIN menu
    BY <1>1, BlockFacts
  <2> QED BY <1>1, <1>8, <2>1, <2>2, BlockFacts
<1>10. at[n + 1] = m /\ m >= n + 1
  <2>1. at[n + 1] = m
    BY <1>0, <1>1, <1>2, <1>6, <1>8, InnermostReads
  <2>2. n + 1 \in 1 .. n + 1
    BY <1>3
  <2> QED BY <1>7, <2>1, <2>2
<1>11. PICK front : front = Front(blocks)
  OBVIOUS
<1>12. /\ front \in Seq(Block) /\ Len(front) = m - 1 /\ DOMAIN front = 1 .. m - 1
       /\ \A i \in 1 .. m - 1 : front[i] = blocks[i]
  <2>1. Len(blocks) # 0
    BY <1>3, <1>8, <1>10
  <2> QED BY <1>8, <1>9, <1>11, <2>1, FrontFacts
<1>13. m - 1 \in 1 .. m - 1 /\ m - 1 \in DOMAIN blocks
  BY <1>3, <1>9, <1>10
<1>14. PICK b : b = [blocks[m - 1] EXCEPT !.prev = block.prev]
  OBVIOUS
<1>15. /\ b \in Block /\ b.parent = blocks[m - 1].parent /\ b.end_token = blocks[m - 1].end_token
       /\ b.prev = block.prev
  <2>1. blocks[m - 1] \in Block
    BY <1>9, <1>13
  <2> QED BY <1>9, <1>14, <2>1 DEF Block
<1>16. blocks' = [front EXCEPT ![m - 1] = b]
  <2>1. front[m - 1] = blocks[m - 1]
    BY <1>12, <1>13
  <2> QED BY <1>2, <1>8, <1>11, <1>14, <2>1
<1>17. /\ blocks' \in Seq(Block) /\ DOMAIN blocks' = 1 .. m - 1
       /\ \A i \in 1 .. m - 1 : blocks'[i] = IF i = m - 1 THEN b ELSE blocks[i]
  <2>1. m - 1 \in 1 .. Len(front)
    BY <1>12, <1>13
  <2>2. blocks' \in Seq(Block) /\ Len(blocks') = Len(front)
    BY <1>12, <1>15, <1>16, <2>1, ExceptSeq
  <2> QED BY <1>12, <1>16, <2>2
<1>18. \A i \in 1 .. m - 1 :
         /\ i \in DOMAIN blocks /\ blocks'[i].parent = blocks[i].parent
         /\ blocks'[i].end_token = blocks[i].end_token
         /\ blocks'[i].prev \in {blocks[i].prev, block.prev}
  BY <1>9, <1>15, <1>17
<1>19. Typed'
  BY <1>1, <1>2, <1>4, <1>17 DEF Typed
<1>20. MenuKept /\ Grown
  BY <1>1, <1>2, GrownSame DEF MenuKept
<1>21. HereRight'
  <2>1. n \in DOMAIN filestack
    BY <1>3
  <2>2. Placed(filestack[n]) /\ filestack[n].linenr = filestack[n].at
    BY <1>1, <2>1 DEF StackRight
  <2>3. Placed(here)'
    BY <1>2, <1>4, <2>2 DEF Placed
  <2>4. help' = None
    BY <1>1, <1>2, Parsed
  <2> QED BY <1>2, <1>4, <2>2, <2>3, <2>4 DEF HereRight
<1>22. StackRight'
  <2>1. Reading'[1].file = Main
    <3>1. 1 \in 1 .. n
      BY <1>3
    <3> QED BY <3>1, <1>1, <1>5 DEF StackRight
  <2>2. ASSUME NEW j \in DOMAIN filestack'
        PROVE  /\ Placed(filestack[j])'
               /\ filestack'[j].linenr = filestack'[j].at /\ filestack'[j].at # 0
               /\ texts'[filestack'[j].file][filestack'[j].at].op = "source"
               /\ texts'[filestack'[j].file][filestack'[j].at].arg = Reading'[j + 1].file
    <3>1. /\ j \in DOMAIN filestack /\ j + 1 \in 1 .. n /\ filestack'[j] = filestack[j]
          /\ texts' = texts
      BY <1>2, <1>3, <1>4
    <3>2. Reading'[j + 1] = Reading[j + 1]
      BY <3>1, <1>5
    <3>3. /\ Placed(filestack[j])
          /\ filestack[j].linenr = filestack[j].at /\ filestack[j].at # 0
          /\ texts[filestack[j].file][filestack[j].at].op = "source"
          /\ texts[filestack[j].file][filestack[j].at].arg = Reading[j + 1].file
      BY <3>1, <1>1 DEF StackRight
    <3>4. Placed(filestack[j])'
      BY <3>1, <3>3 DEF Placed
    <3> QED BY <3>1, <3>2, <3>3, <3>4
  <2>3. \A i, j \in DOMAIN Reading' : Reading'[i].file = Reading'[j].file => i = j
    <3>1. \A i \in 1 .. n : i \in DOMAIN Reading
      BY <1>3
    <3> QED BY <3>1, <1>1, <1>5 DEF StackRight
  <2>4. \A j \in DOMAIN filestack' :
               /\ Placed(filestack[j])'
               /\ filestack'[j].linenr = filestack'[j].at /\ filestack'[j].at # 0
               /\ texts'[filestack'[j].file][filestack'[j].at].op = "source"
               /\ texts'[filestack'[j].file][filestack'[j].at].arg = Reading'[j + 1].file
    BY <2>2
  <2> QED BY <2>1, <2>3, <2>4 DEF StackRight
<1>23. LinksRight'
  <2>1. \A i \in DOMAIN blocks' : {blocks'[i].parent, blocks'[i].prev} \subseteq DOMAIN menu'
    BY <1>1, <1>2, <1>9, <1>17, <1>18 DEF LinksRight
  <2>2. menu' = menu
    BY <1>2
  <2> QED BY <1>1, <2>1, <2>2 DEF LinksRight
<1>24. ParsingRight'
  BY <1>2 DEF ParsingRight
<1>25. Nested'
  <2>1. PICK to : to = [j \in 1 .. n |-> at[j]]
    OBVIOUS
  <2>2. \A j \in 1 .. n : j \in 1 .. n + 1 /\ to[j] = at[j] /\ j < n + 1
    BY <1>3, <2>1
  <2>3. \A j \in 1 .. n : at[j] \in 1 .. m - 1
    <3> TAKE j \in 1 .. n
    <3>1. n + 1 \in 1 .. n + 1 /\ at[j] \in 1 .. m
      BY <1>3, <1>7, <1>9, <2>2
    <3>2. at[j] < m
      BY <3>1, <1>7, <1>10, <2>2
    <3> QED BY <3>1, <3>2, <1>9
  <2>4. to \in [1 .. n -> 1 .. m - 1]
    BY <2>1, <2>3
  <2>5. to[1] = 1
    BY <1>3, <1>7, <2>2
  <2>6. \A j \in 1 .. n : to[j] >= j /\ blocks'[to[j]].end_token = "eof"
    BY <1>7, <1>18, <2>2, <2>3
  <2>7. \A i, j \in 1 .. n : i < j => to[i] < to[j]
    BY <1>7, <2>2
  <2>8. ASSUME NEW i \in DOMAIN blocks', NEW j \in 1 .. n, to[j] < i, j < n => i < to[j + 1]
        PROVE  OpenedIn(i, j)'
    <3>1. i \in DOMAIN blocks /\ i \in 1 .. m - 1
      BY <1>17, <1>18
    <3>2. i < at[j + 1]
      <4>1. CASE j = n
        <5>1. i < m
          BY <3>1, <1>9
        <5> QED BY <4>1, <5>1, <1>10
      <4>2. CASE j # n
        <5>1. j < n /\ j + 1 \in 1 .. n
          BY <4>2, <1>3
        <5> QED BY <5>1, <2>2, <2>8
      <4> QED BY <4>1, <4>2
    <3>3. OpenedIn(i, j)
      BY <3>1, <3>2, <1>7, <2>2, <2>8
    <3>4. \A h \in 1 .. j - 1 : h \in 1 .. n
      BY <1>3
    <3>5. \A h \in 1 .. j - 1 : /\ Reading'[h].file = Reading[h].file
                                /\ Reading'[h].linenr = Reading[h].linenr
      BY <3>4, <1>5
    <3>6. Reading'[j].file = Reading[j].file
      BY <1>5
    <3>7. blocks'[i].parent = blocks[i].parent /\ blocks'[i].end_token = blocks[i].end_token
      BY <3>1, <1>18
    <3> QED BY <1>1, <1>20, <3>1, <3>3, <3>5, <3>6, <3>7, OpenedKept
  <2>9. Level(to)'
    BY <1>5, <1>17, <2>4, <2>5, <2>6, <2>7, <2>8 DEF Level
  <2> QED BY <1>5, <1>17, <2>4, <2>9 DEF Nested
<1>26. Located'
  BY <1>1, <1>2, <1>19, <1>20, LocatedKept
<1>27. BuiltLast'
  BY <1>1, <1>2 DEF BuiltLast, Built
<1> QED BY <1>19, <1>21, <1>22, <1>23, <1>24, <1>25, <1>26, <1>27 DEF IInv

(* Nothing changes but what is made of the nodes. *)
LEMMA ParserKept ==
    ASSUME IInv, UNCHANGED <<suite, texts, ended, here, tokens, help, filestack, blocks, parsing, menu>>,
           result' \in {"none", "refused", "looped", "finished"},
           help = None \/ result' = result, BuiltLast'
    PROVE  IInv'
<1>1. /\ Typed /\ HereRight /\ StackRight /\ LinksRight /\ ParsingRight /\ Nested /\ Located
  BY DEF IInv
<1>2. Typed'
  BY <1>1 DEF Typed
<1>3. HereRight'
  BY <1>1 DEF HereRight, Placed
<1>4. MenuKept /\ Grown
  BY <1>1, GrownSame DEF MenuKept
<1>5. StackRight' /\ LinksRight'
  BY <1>1, <1>2, <1>4, StackKept DEF LinksRight
<1>6. ParsingRight'
  BY <1>1, <1>2, PathKept DEF ParsingRight
<1>7. Nested'
  BY <1>1, <1>2, <1>4, NestedKept
<1>8. Located'
  BY <1>1, <1>2, <1>4, LocatedKept
<1> QED BY <1>2, <1>3, <1>5, <1>6, <1>7, <1>8 DEF IInv

LEMMA RefuseStep ==
    ASSUME IInv, RefuseLine \/ RefuseProperty
    PROVE  IInv'
<1>1. /\ UNCHANGED <<suite, texts, ended, here, tokens, help, filestack, blocks, parsing, menu, tree>>
      /\ result = "none" /\ tokens # None /\ result' = "refused"
  BY DEF RefuseLine, RefuseProperty, InProps, Refuse, reader, parser
<1>2. help = None
  BY <1>1, Parsed DEF IInv
<1>3. BuiltLast'
  <2>1. BuiltLast
    BY DEF IInv
  <2> QED BY <1>1, <2>1 DEF BuiltLast, Built
<1> QED BY <1>1, <1>2, <1>3, ParserKept

(* The tree is built when every file and every block has ended. *)
LEMMA FinishStep ==
    ASSUME IInv, Finish
    PROVE  IInv'
<1>1. /\ UNCHANGED <<suite, texts, ended, here, tokens, help, filestack, blocks, parsing, menu>>
      /\ tokens # None /\ filestack = <<>> /\ block.end_token = "eof"
  BY DEF Finish, InBlock, reader, parser
<1>2. result' \in {"looped", "finished"}
  BY DEF Finish
<1>3. Typed /\ HereRight /\ LinksRight /\ Nested
  BY DEF IInv
<1>4. help = None
  BY <1>1, <1>3, Parsed
<1>5. Len(blocks) = 1
  <2>1. PICK at \in [DOMAIN Reading -> DOMAIN blocks] : Level(at)
    BY <1>3 DEF Nested
  <2>2. at[Len(filestack) + 1] = Len(blocks) /\ Len(filestack) + 1 = 1
    BY <1>1, <1>3, <2>1, InnermostReads
  <2> QED BY <2>1, <2>2 DEF Level
<1>6. BuiltLast'
  BY <1>1, <1>2, <1>5 DEF BuiltLast
<1> QED BY <1>1, <1>2, <1>4, <1>6, ParserKept

(* A property is added to a node; it stays the same node. *)
LEMMA WithFacts ==
    ASSUME NEW n \in NodeRec, NEW l \in Line, l.arg \in Names, NEW new, new = With(n, l)
    PROVE  /\ new \in NodeRec
           /\ new.kind = n.kind /\ new.item = n.item /\ new.file = n.file /\ new.linenr = n.linenr
           /\ new.include_path = n.include_path
           /\ new.parent = n.parent /\ new.next = n.next /\ new.list = n.list
<1> DEFINE c == Cond(l)
<1>1. c \in SUBSET Names /\ {} \in SUBSET Names
  BY DEF Cond
<1>2. new \in {[n EXCEPT !.prompt = TRUE, !.cond = c], [n EXCEPT !.dep = n.dep \cup {l.arg}],
               [n EXCEPT !.visibility = n.visibility \cup {l.arg}], [n EXCEPT !.props = Append(n.props, c)],
               [n EXCEPT !.props = Append(n.props, {}), !.selects = n.selects \cup {l.arg}], n}
  BY DEF With
<1>3. /\ n.dep \cup {l.arg} \in SUBSET Names /\ n.visibility \cup {l.arg} \in SUBSET Names
      /\ n.selects \cup {l.arg} \in SUBSET Names
      /\ Append(n.props, c) \in Seq(SUBSET Names) /\ Append(n.props, {}) \in Seq(SUBSET Names)
  <2>1. n.dep \in SUBSET Names /\ n.visibility \in SUBSET Names /\ n.selects \in SUBSET Names
    BY DEF NodeRec
  <2>2. n.props \in Seq(SUBSET Names)
    BY DEF NodeRec
  <2> HIDE DEF c
  <2>3. Append(n.props, c) \in Seq(SUBSET Names) /\ Append(n.props, {}) \in Seq(SUBSET Names)
    BY <1>1, <2>2
  <2> QED BY <2>1, <2>3
<1> HIDE DEF c
<1> DEFINE Good(r) == /\ r \in NodeRec
                      /\ r.kind = n.kind /\ r.item = n.item /\ r.file = n.file /\ r.linenr = n.linenr
                      /\ r.include_path = n.include_path
                      /\ r.parent = n.parent /\ r.next = n.next /\ r.list = n.list
<1>4. Good([n EXCEPT !.prompt = TRUE, !.cond = c])
  BY <1>1 DEF NodeRec
<1>5. Good([n EXCEPT !.dep = n.dep \cup {l.arg}])
  BY <1>3 DEF NodeRec
<1>6. Good([n EXCEPT !.visibility = n.visibility \cup {l.arg}])
  BY <1>3 DEF NodeRec
<1>7. Good([n EXCEPT !.props = Append(n.props, c)])
  BY <1>3 DEF NodeRec
<1>8. Good([n EXCEPT !.props = Append(n.props, {}), !.selects = n.selects \cup {l.arg}])
  BY <1>3 DEF NodeRec
<1>9. Good(n)
  OBVIOUS
<1> HIDE DEF Good
<1>10. Good(new)
  BY <1>2, <1>4, <1>5, <1>6, <1>7, <1>8, <1>9
<1> QED BY <1>10 DEF Good

LEMMA PropertyStep ==
    ASSUME IInv, Property
    PROVE  IInv'
<1> USE EofIsNoLine
<1>1. /\ Typed /\ HereRight /\ StackRight /\ LinksRight /\ ParsingRight /\ Nested /\ Located /\ BuiltLast
  BY DEF IInv
<1>2. /\ result = "none" /\ tokens # None /\ parsing # 0 /\ tokens.op \in PropOps \cup {"blank"}
      /\ menu' = [menu EXCEPT ![parsing] = With(@, tokens)]
      /\ help' = IF tokens.op = "help" THEN [indent |-> 0, lines |-> 0] ELSE None
      /\ tokens' = None
      /\ UNCHANGED <<suite, texts, ended, here, filestack, blocks, parsing, tree, result>>
  BY DEF Property, InProps, reader
<1>3. tokens # Eof
  BY <1>2 DEF Eof, PropOps
<1>4. /\ help = None /\ tokens \in Line /\ here.linenr = here.at
      /\ here \in Position /\ Placed(here)
  BY <1>1, <1>2, <1>3, Parsed
<1>5. menu \in Seq(NodeRec) /\ parsing \in DOMAIN menu /\ parsing \in 1 .. Len(menu)
  BY <1>1, <1>2 DEF Typed, ParsingRight
<1>6. PICK new : new = With(menu[parsing], tokens)
  OBVIOUS
<1>7. /\ new \in NodeRec
      /\ new.kind = menu[parsing].kind /\ new.item = menu[parsing].item
      /\ new.file = menu[parsing].file /\ new.linenr = menu[parsing].linenr
      /\ new.include_path = menu[parsing].include_path
      /\ new.parent = menu[parsing].parent /\ new.next = menu[parsing].next
      /\ new.list = menu[parsing].list
  <2>1. tokens.arg \in Names
    BY <1>4 DEF Line, Names
  <2>2. menu[parsing] \in NodeRec
    BY <1>5
  <2> QED BY <1>4, <1>6, <2>1, <2>2, WithFacts
<1>8. menu' = [menu EXCEPT ![parsing] = new]
  BY <1>2, <1>6
<1>9. /\ menu' \in Seq(NodeRec) /\ Len(menu') = Len(menu) /\ DOMAIN menu' = DOMAIN menu
      /\ \A j \in DOMAIN menu : menu'[j] = IF j = parsing THEN new ELSE menu[j]
  <2>1. menu' \in Seq(NodeRec) /\ Len(menu') = Len(menu)
    BY <1>5, <1>7, <1>8, ExceptSeq
  <2> QED BY <1>8, <2>1
<1>10. \A j \in DOMAIN menu :
         /\ menu'[j].kind = menu[j].kind /\ menu'[j].item = menu[j].item
         /\ menu'[j].file = menu[j].file /\ menu'[j].linenr = menu[j].linenr
         /\ menu'[j].include_path = menu[j].include_path
         /\ menu'[j].parent = menu[j].parent /\ menu'[j].next = menu[j].next
         /\ menu'[j].list = menu[j].list
  BY <1>7, <1>9
<1>11. MenuKept /\ Grown
  BY <1>1, <1>2, <1>9, <1>10, GrownSame DEF MenuKept
<1>12. help' \in HelpText \cup {None} /\ (help' # None => help'.indent = 0)
  BY <1>2 DEF HelpText
<1>13. Typed'
  BY <1>1, <1>2, <1>9, <1>12 DEF Typed
<1>14. HereRight'
  <2>1. Placed(here)'
    BY <1>2, <1>4 DEF Placed
  <2> QED BY <1>2, <1>4, <1>12, <2>1 DEF HereRight
<1>15. StackRight'
  BY <1>1, <1>2, <1>11, <1>13, StackKept
<1>16. LinksRight'
  BY <1>1, <1>2, <1>9, <1>10 DEF LinksRight
<1>17. ParsingRight'
  BY <1>1, <1>2, <1>5, <1>9, <1>10, <1>13, PathKept DEF ParsingRight
<1>18. Nested'
  BY <1>1, <1>2, <1>11, <1>13, NestedKept
<1>19. Located'
  BY <1>1, <1>9, <1>11, <1>13, LocatedKept
<1>20. BuiltLast'
  BY <1>1, <1>2 DEF BuiltLast, Built
<1> QED BY <1>13, <1>14, <1>15, <1>16, <1>17, <1>18, <1>19, <1>20 DEF IInv

(* The properties end: the block of a menu or choice is opened, another node is
   linked.                                                                    *)
LEMMA EndPropsStep ==
    ASSUME IInv, EndProps
    PROVE  IInv'
<1> USE EofIsNoLine
<1>1. /\ Typed /\ HereRight /\ StackRight /\ LinksRight /\ ParsingRight /\ Nested /\ Located /\ BuiltLast
  BY DEF IInv
<1>2. /\ result = "none" /\ tokens # None /\ parsing # 0 /\ parsing' = 0
      /\ UNCHANGED <<suite, texts, ended, here, tokens, filestack, help, tree, result>>
  BY DEF EndProps, InProps, reader
<1>3. PICK k \in DOMAIN menu : k = parsing
  BY <1>1, <1>2 DEF ParsingRight
<1>4. /\ k \in DOMAIN menu \ {1} /\ k \in Nat /\ menu[k].file = here.file
      /\ menu[k].include_path = Path(Len(Reading))
      /\ menu \in Seq(NodeRec) /\ Len(menu) # 0
      /\ blocks \in Seq(Block) /\ DOMAIN blocks = 1 .. Len(blocks) /\ Len(blocks) \in Nat
  BY <1>1, <1>2, <1>3 DEF ParsingRight, Typed, LinksRight
<1>5. \/ /\ menu[k].kind \in Openers /\ menu' = menu
         /\ Open(k, menu[k].kind)
      \/ Link(menu, k, 0)
  BY <1>3 DEF EndProps
<1>6. ASSUME Typed', MenuKept, LinksRight', Nested', DOMAIN menu' = DOMAIN menu
      PROVE  IInv'
  <2>1. Grown
    BY <1>1, <1>2, GrownSame
  <2>2. HereRight'
    <3>1. tokens' = tokens /\ texts' = texts /\ here' = here /\ help' = help /\ result' = result
      BY <1>2
    <3>2. help = None
      BY <1>1, <1>2, Parsed
    <3> QED BY <1>1, <3>1, <3>2 DEF HereRight, Placed
  <2>3. StackRight'
    BY <1>1, <1>2, <1>6, <2>1, StackKept
  <2>4. ParsingRight'
    BY <1>2 DEF ParsingRight
  <2>5. Located'
    BY <1>1, <1>6, <2>1, LocatedKept
  <2>6. BuiltLast'
    BY <1>1, <1>2 DEF BuiltLast, Built
  <2> QED BY <1>6, <2>2, <2>3, <2>4, <2>5, <2>6 DEF IInv
<1>7. CASE menu[k].kind \in Openers /\ menu' = menu /\ Open(k, menu[k].kind)
  <2>1. PICK b : b = [end_token |-> EndOf[menu[k].kind], parent |-> k, prev |-> k]
    OBVIOUS
  <2>2. /\ b \in Block /\ b.end_token = EndOf[menu[k].kind] /\ b.parent = k /\ b.prev = k
    <3>1. EndOf[menu[k].kind] \in Enders
      BY <1>7, Words
    <3> QED BY <1>4, <2>1, <3>1 DEF Block
  <2>3. blocks' = Append(blocks, b)
    BY <1>7, <2>1 DEF Open
  <2>4. /\ blocks' \in Seq(Block)
        /\ DOMAIN blocks' = DOMAIN blocks \cup {Len(blocks) + 1}
        /\ Len(blocks) + 1 \notin DOMAIN blocks
        /\ blocks'[Len(blocks) + 1] = b
        /\ \A i \in DOMAIN blocks : blocks'[i] = blocks[i]
    BY <1>1, <2>2, <2>3, BlockAppended
  <2>5. MenuKept
    BY <1>7 DEF MenuKept
  <2>6. Typed'
    BY <1>1, <1>2, <1>7, <2>4 DEF Typed
  <2>7. LinksRight'
    <3>1. ASSUME NEW i \in DOMAIN blocks'
          PROVE  {blocks'[i].parent, blocks'[i].prev} \subseteq DOMAIN menu
      <4>1. CASE i \in DOMAIN blocks
        BY <4>1, <1>1, <2>4 DEF LinksRight
      <4>2. CASE i = Len(blocks) + 1
        BY <4>2, <1>4, <2>2, <2>4
      <4> QED BY <3>1, <4>1, <4>2, <2>4
    <3> QED BY <1>1, <1>7, <3>1 DEF LinksRight
  <2>8. PICK i : i = Len(blocks) + 1
    OBVIOUS
  <2>9. OpenedIn(i, Len(Reading))'
    BY <1>1, <1>2, <1>4, <1>7, <2>2, <2>4, <2>6, <2>8, OpenedNow
  <2>10. Nested'
    BY <1>1, <1>2, <2>4, <2>5, <2>6, <2>8, <2>9, NestedKept
  <2> QED BY <1>6, <1>7, <2>5, <2>6, <2>7, <2>10
<1>8. CASE Link(menu, k, 0)
  <2>1. 0 \in {0, 1} /\ 0 < Len(blocks)
    BY <1>1, BlockFacts
  <2>2. /\ menu' \in Seq(NodeRec) /\ DOMAIN menu' = DOMAIN menu /\ Len(menu') # 0
        /\ \A j \in DOMAIN menu :
             /\ menu'[j].kind = menu[j].kind /\ menu'[j].item = menu[j].item
             /\ menu'[j].file = menu[j].file /\ menu'[j].linenr = menu[j].linenr
             /\ menu'[j].include_path = menu[j].include_path
             /\ menu'[j].parent = menu[j].parent /\ menu'[j].list = menu[j].list
             /\ menu'[j].next \in {menu[j].next, k}
        /\ blocks' \in Seq(Block) /\ DOMAIN blocks' = 1 .. Len(blocks) - 0
        /\ \A i \in DOMAIN blocks' :
             /\ i \in DOMAIN blocks /\ blocks'[i].parent = blocks[i].parent
             /\ blocks'[i].end_token = blocks[i].end_token
             /\ blocks'[i].prev \in {blocks[i].prev, k}
    BY <1>1, <1>4, <1>8, <2>1, LinkFacts
  <2>3. MenuKept
    BY <2>2 DEF MenuKept
  <2>4. Typed'
    BY <1>1, <1>2, <2>2 DEF Typed
  <2>5. LinksRight'
    <3>1. \A i \in DOMAIN blocks' : {blocks'[i].parent, blocks'[i].prev} \subseteq DOMAIN menu'
      BY <1>1, <1>4, <2>2 DEF LinksRight
    <3>2. \A j \in DOMAIN menu' :
            {menu'[j].parent, menu'[j].next, menu'[j].list} \subseteq {0} \cup DOMAIN menu'
      BY <1>1, <1>4, <2>2 DEF LinksRight
    <3> QED BY <2>2, <3>1, <3>2 DEF LinksRight
  <2>6. Nested'
    <3>1. DOMAIN blocks' = DOMAIN blocks
      BY <1>4, <2>2
    <3> QED BY <1>1, <1>2, <2>2, <2>3, <2>4, <3>1, NestedKept
  <2> QED BY <1>6, <2>2, <2>3, <2>4, <2>5, <2>6
<1> QED BY <1>5, <1>7, <1>8

-----------------------------------------------------------------------------
(* The invariant *)

LEMMA InitHolds == Init => IInv
<1> SUFFICES ASSUME Init
             PROVE  IInv
  OBVIOUS
<1>1. /\ suite \in Suites /\ texts = [f \in {Main} |-> <<>>] /\ ended = {}
      /\ here = [file |-> Main, linenr |-> 0, at |-> 0] /\ filestack = <<>>
      /\ tokens = None /\ help = None /\ parsing = 0
      /\ blocks = <<[end_token |-> "eof", parent |-> 1, prev |-> 1]>>
      /\ menu = <<TopNode>> /\ tree = None /\ result = "none"
  BY DEF Init
<1>2. PICK b : b = [end_token |-> "eof", parent |-> 1, prev |-> 1]
  OBVIOUS
<1>3. /\ b \in Block /\ b.end_token = "eof" /\ b.parent = 1 /\ b.prev = 1
      /\ blocks = <<b>> /\ blocks \in Seq(Block) /\ DOMAIN blocks = {1} /\ Len(blocks) = 1
      /\ blocks[1] = b
  <2>1. b \in Block /\ b.end_token = "eof" /\ b.parent = 1 /\ b.prev = 1
    BY <1>2 DEF Block
  <2> QED BY <1>1, <1>2, <2>1
<1>4. here \in Position /\ here.file = Main /\ Main \in FileNames
  BY <1>1 DEF Position, FileNames
<1>5. PICK top : top = TopNode
  OBVIOUS
<1>6. /\ top \in NodeRec /\ menu = <<top>> /\ menu \in Seq(NodeRec) /\ DOMAIN menu = {1}
      /\ Len(menu) = 1 /\ menu[1] = top
      /\ top.parent = 0 /\ top.next = 0 /\ top.list = 0
  <2>1. top \in NodeRec
    BY <1>5, TopNodeIsNode
  <2>2. top.parent = 0 /\ top.next = 0 /\ top.list = 0
    BY <1>5 DEF TopNode
  <2> QED BY <1>1, <1>5, <2>1, <2>2
<1>7. /\ DOMAIN texts = {Main} /\ texts[Main] = <<>> /\ Len(texts[Main]) = 0
      /\ texts \in [DOMAIN texts -> Seq(Line)]
  BY <1>1
<1>8. /\ filestack \in Seq(Position) /\ DOMAIN filestack = {}
      /\ Reading = <<here>> /\ DOMAIN Reading = {1} /\ Len(Reading) = 1 /\ Reading[1] = here
  <2>1. filestack \in Seq(Position) /\ Len(filestack) = 0
    BY <1>1
  <2>2. /\ Len(Reading) = Len(filestack) + 1 /\ DOMAIN Reading = 1 .. Len(filestack) + 1
        /\ DOMAIN filestack = 1 .. Len(filestack)
        /\ Reading[Len(filestack) + 1] = here
    BY <1>4, <2>1, ReadingFacts DEF Reading
  <2> QED BY <1>1, <2>1, <2>2 DEF Reading
<1>9. Typed
  BY <1>1, <1>3, <1>4, <1>6, <1>7, <1>8 DEF Typed
<1>10. HereRight
  BY <1>1, <1>7, NoneAssumption DEF HereRight, Placed
<1>11. StackRight
  BY <1>4, <1>8 DEF StackRight
<1>12. LinksRight
  BY <1>3, <1>6 DEF LinksRight
<1>13. Nested
  <2>1. PICK at : at = [j \in {1} |-> 1]
    OBVIOUS
  <2>2. at \in [DOMAIN Reading -> DOMAIN blocks] /\ at[1] = 1
    BY <1>3, <1>8, <2>1
  <2>3. Level(at)
    BY <1>3, <1>8, <2>2 DEF Level
  <2> QED BY <2>2, <2>3 DEF Nested
<1>14. ParsingRight /\ BuiltLast /\ Located
  BY <1>1, <1>6 DEF ParsingRight, BuiltLast, Built, Located
<1> QED BY <1>9, <1>10, <1>11, <1>12, <1>13, <1>14 DEF IInv

LEMMA NextHolds == IInv /\ [Next]_vars => IInv'
<1> SUFFICES ASSUME IInv, [Next]_vars
             PROVE  IInv'
  OBVIOUS
<1>1. CASE NextLine \/ FirstLine \/ MoreLines
  BY <1>1, ReadStep
<1>2. CASE Blank
  BY <1>2, BlankStep
<1>3. CASE Define
  BY <1>3, DefineStep
<1>4. CASE If
  BY <1>4, IfStep
<1>5. CASE EndBlock
  BY <1>5, EndBlockStep
<1>6. CASE Source
  BY <1>6, SourceStep
<1>7. CASE EndOfFile
  BY <1>7, EndOfFileStep
<1>8. CASE Finish
  BY <1>8, FinishStep
<1>9. CASE RefuseLine \/ RefuseProperty
  BY <1>9, RefuseStep
<1>10. CASE Property
  BY <1>10, PropertyStep
<1>11. CASE EndProps
  BY <1>11, EndPropsStep
<1>12. CASE UNCHANGED vars
  <2>1. UNCHANGED <<suite, texts, ended, here, tokens, help, filestack, blocks, parsing, menu, tree, result>>
    BY <1>12 DEF vars, reader, parser
  <2>2. result \in {"none", "refused", "looped", "finished"} /\ BuiltLast
    BY DEF IInv, Typed
  <2>3. BuiltLast'
    BY <2>1, <2>2 DEF BuiltLast, Built
  <2> QED BY <2>1, <2>2, <2>3, ParserKept
<1> QED BY <1>1, <1>2, <1>3, <1>4, <1>5, <1>6, <1>7, <1>8, <1>9, <1>10, <1>11, <1>12 DEF Next

LEMMA TypeFollows == IInv => TypeOK
<1> SUFFICES ASSUME IInv
             PROVE  TypeOK
  OBVIOUS
<1>1. Typed /\ HereRight /\ LinksRight /\ ParsingRight /\ Nested
  BY DEF IInv
<1>2. suite \in Suites /\ ended \subseteq DOMAIN texts /\ tokens \in Line \cup {Eof, None}
      /\ result \in {"none", "refused", "looped", "finished"}
  BY <1>1 DEF Typed
<1>3. here.file \in DOMAIN texts /\ here.at \in 0 .. Len(texts[here.file])
  <2>1. here \in Position /\ Placed(here)
    BY <1>1 DEF Typed, HereRight
  <2>2. here.file \in DOMAIN texts /\ here.at \in Nat /\ here.at <= Len(texts[here.file])
    BY <2>1 DEF Position, Placed
  <2>3. texts[here.file] \in Seq(Line)
    BY <1>1, <2>2 DEF Typed
  <2> QED BY <2>2, <2>3
<1>4. \A f \in DOMAIN texts : \A p \in DOMAIN texts[f] : texts[f][p] \in Line
  <2> TAKE f \in DOMAIN texts
  <2>1. texts[f] \in Seq(Line)
    BY <1>1 DEF Typed
  <2> QED BY <2>1
<1>5. Len(blocks) > Len(filestack)
  <2>1. PICK at \in [DOMAIN Reading -> DOMAIN blocks] : Level(at)
    BY <1>1 DEF Nested
  <2>2. PICK n : n = Len(filestack) + 1
    OBVIOUS
  <2>3. /\ Len(filestack) \in Nat /\ n \in Nat /\ DOMAIN Reading = 1 .. n /\ n \in 1 .. n
        /\ DOMAIN blocks = 1 .. Len(blocks) /\ Len(blocks) \in Nat
    <3>1. DOMAIN Reading = 1 .. Len(filestack) + 1 /\ Len(filestack) \in Nat
      BY <1>1, ReadingFacts DEF Typed, Reading
    <3> QED BY <1>1, <2>2, <3>1 DEF Typed
  <2>4. at[n] \in 1 .. Len(blocks) /\ at[n] >= n
    BY <2>1, <2>3 DEF Level
  <2> QED BY <2>2, <2>3, <2>4
<1>6. parsing \in {0} \cup DOMAIN menu
  BY <1>1 DEF ParsingRight
<1>7. help # None => help.indent \in Nat /\ help.lines \in Nat /\ tokens = None /\ parsing # 0
  BY <1>1 DEF Typed, HereRight, HelpText
<1> QED BY <1>1, <1>2, <1>3, <1>4, <1>5, <1>6, <1>7 DEF TypeOK, LinksRight

LEMMA NestFollows == IInv => FilesNest
<1> SUFFICES ASSUME IInv
             PROVE  FilesNest
  OBVIOUS
<1>1. \A i, j \in DOMAIN Reading : Reading[i].file = Reading[j].file => i = j
  BY DEF IInv, StackRight
<1>2. Built => filestack = <<>> /\ Len(blocks) = 1
  BY DEF IInv, BuiltLast
<1>3. PICK at \in [DOMAIN Reading -> DOMAIN blocks] : Level(at)
  BY DEF IInv, Nested
<1>4. \A j \in DOMAIN Reading \ {1} : at[j - 1] < at[j]
  <2>1. DOMAIN Reading = 1 .. Len(filestack) + 1 /\ Len(filestack) \in Nat
    BY ReadingFacts DEF IInv, Typed, Reading
  <2> TAKE j \in DOMAIN Reading \ {1}
  <2>2. j - 1 \in DOMAIN Reading /\ j - 1 < j
    BY <2>1
  <2> QED BY <2>2, <1>3 DEF Level
<1>5. /\ at[1] = 1
      /\ \A j \in DOMAIN Reading : blocks[at[j]].end_token = "eof"
      /\ \A i \in DOMAIN blocks, j \in DOMAIN Reading :
           at[j] < i /\ (j < Len(Reading) => i < at[j + 1]) => OpenedIn(i, j)
  BY <1>3 DEF Level
<1> QED BY <1>1, <1>2, <1>4, <1>5 DEF FilesNest

(* Whatever is read, the parser's variables have their types: a line is parsed
   or a help text is read, never both, and no link leaves the menu.           *)
THEOREM TypeCorrect == Spec => []TypeOK
<1>1. Init => IInv
  BY InitHolds
<1>2. IInv /\ [Next]_vars => IInv'
  BY NextHolds
<1>3. IInv => TypeOK
  BY TypeFollows
<1> QED BY <1>1, <1>2, <1>3, PTL DEF Spec

(* However files source one another (_enter_file, _leave_file) and whatever
   blocks they open (_parse_block), no file is read inside itself and none ends
   a block that another one opened or leaves one open.                        *)
THEOREM FilesNested == Spec => []FilesNest
<1>1. Init => IInv
  BY InitHolds
<1>2. IInv /\ [Next]_vars => IInv'
  BY NextHolds
<1>3. IInv => FilesNest
  BY NestFollows
<1> QED BY <1>1, <1>2, <1>3, PTL DEF Spec

(* The file, line and include path of every node are those of the line that
   defines it, whatever help texts were read before (_parse_help).            *)
THEOREM NodesLocated == Spec => []Located
<1>1. Init => IInv
  BY InitHolds
<1>2. IInv /\ [Next]_vars => IInv'
  BY NextHolds
<1>3. IInv => Located
  BY DEF IInv
<1> QED BY <1>1, <1>2, <1>3, PTL DEF Spec
=============================================================================
