------------------------------ MODULE KconfigRead ------------------------------
(***************************************************************************)
(* kconfiglib.py reads Kconfig texts line by line (_next_line, _parse_help,*)
(* _enter_file, _leave_file) and makes the menu nodes that they define     *)
(* (_parse_block, _parse_props).  What is made of the nodes then is        *)
(* KconfigParse's to say: Finalize and LoopSeen stand for it.              *)
(*                                                                         *)
(* A text is decided line by line as it is read: Offer says which lines    *)
(* may come next.  A file that is read twice has the same lines.  A line   *)
(* is [op, arg, indent]: its first token (every form of a prompt is        *)
(* "prompt", every property with a mere condition "default"), the name,    *)
(* file or condition behind it, and how far it is indented, which matters  *)
(* to help texts only.  An exception of any kind ends in "refused".        *)
(***************************************************************************)
EXTENDS Naturals, Sequences, SequencesExt, FiniteSets, FiniteSetsExt

CONSTANTS
    Suites,          \* the instances
    Args,            \* names, files and conditions
    Offer(_, _, _),  \* the lines that may come next: by suite, file, its text so far
    MaxLines,        \* by suite: the number of lines of all files
    Finalize(_),     \* the tree that is made of the nodes: _finalize_node of top_node
    LoopSeen(_, _),  \* whether a loop is found in it: the answers that are possible
    None

VARIABLES
    suite,
    texts,      \* by file: its lines, as far as they were read
    ended,      \* the files whose end was reached
    here,       \* [file: filename, linenr, at: how many lines readline returned]
    filestack,  \* the same for the files that source this one; _include_path
    tokens,     \* the line that is parsed (again, by _reuse_tokens), Eof, or None
    blocks,     \* the calls of _parse_block: [end_token, parent, prev]
    parsing,    \* the node whose properties are parsed, or 0
    help,       \* the help text that is read: [indent, lines], or None
    menu,       \* the menu nodes
    tree,       \* what _finalize_node made of them
    result      \* "none", "refused", "looped", "finished"

reader == <<texts, ended, here>>
parser == <<filestack, blocks, parsing, menu>>
vars == <<suite, reader, tokens, parser, help, tree, result>>

Main == "Kconfig"

Statements == {"config", "choice", "menu", "comment", "if"}
Kinds == [op \in Statements |-> IF op = "config" THEN "symbol" ELSE op]
Openers == {"if", "menu", "choice"}
EndOf == [kind \in Openers |-> CASE kind = "if" -> "endif" [] kind = "menu" -> "endmenu"
                                 [] kind = "choice" -> "endchoice"]
Enders == {"endif", "endmenu", "endchoice"}
PropOps == {"prompt", "depends", "visible", "default", "select", "optional", "help"}

Line == [op : Statements \cup Enders \cup PropOps \cup {"source", "blank"},
         arg : Args \cup {None}, indent : Nat]
Eof == [op |-> "eof", arg |-> None, indent |-> 0]
HelpText == [indent : Nat, lines : Nat]

ASSUME LinesAssumption == \A s \in Suites : MaxLines[s] \in Nat
ASSUME NoneAssumption == None \notin Line /\ None # Eof /\ None \notin HelpText

TopNode == [kind |-> "menu", item |-> None, prompt |-> TRUE, cond |-> {}, dep |-> {},
            props |-> <<>>, selects |-> {}, visibility |-> {}, parent |-> 0, next |-> 0, list |-> 0,
            linenr |-> 1, file |-> Main, include_path |-> <<>>]

Init ==
    /\ suite \in Suites
    /\ texts = [f \in {Main} |-> <<>>]
    /\ ended = {}
    /\ here = [file |-> Main, linenr |-> 0, at |-> 0]
    /\ filestack = <<>>
    /\ tokens = None
    /\ blocks = <<[end_token |-> "eof", parent |-> 1, prev |-> 1]>>
    /\ parsing = 0
    /\ help = None
    /\ menu = <<TopNode>>
    /\ tree = None
    /\ result = "none"

-----------------------------------------------------------------------------
(* readline: a line of the file that was read before, or a new one, or its end *)

Total == FoldFunction(+, 0, [f \in DOMAIN texts |-> Len(texts[f])])

Known == here.at < Len(texts[here.file])
Lines == IF Known THEN {texts[here.file][here.at + 1]}
         ELSE {Eof} \cup IF here.file \in ended \/ Total = MaxLines[suite] THEN {}
                         ELSE {l \in Offer(suite, here.file, texts[here.file]) : l \in Line}

ReadLine(l) ==
    /\ texts' = IF Known \/ l = Eof THEN texts ELSE [texts EXCEPT ![here.file] = Append(@, l)]
    /\ ended' = IF l = Eof THEN ended \cup {here.file} ELSE ended

Passed(l, lines) ==
    [here EXCEPT !.linenr = @ + lines, !.at = IF l = Eof THEN @ ELSE @ + 1]

(* _next_line *)
NextLine ==
    /\ result = "none" /\ tokens = None /\ help = None
    /\ \E l \in Lines :
         /\ ReadLine(l)
         /\ here' = Passed(l, IF l = Eof THEN 0 ELSE 1)
         /\ tokens' = l
    /\ UNCHANGED <<suite, parser, help, tree, result>>

(* _parse_help, up to the first line that is not blank: if it is not indented,
   there is no text and it is parsed like any line                            *)
FirstLine ==
    /\ help # None /\ help.indent = 0
    /\ \E l \in Lines :
         /\ ReadLine(l)
         /\ here' = Passed(l, 1)
         /\ IF l.op = "blank" THEN UNCHANGED <<help, tokens>>
            ELSE IF l.indent = 0 THEN help' = None /\ tokens' = l
            ELSE help' = [indent |-> l.indent, lines |-> 1] /\ tokens' = None
    /\ UNCHANGED <<suite, parser, tree, result>>

(* The rest of the text, to the first line that is indented less.  linenr is
   put right when the text ends.                                              *)
MoreLines_NoBlank == \* mutant: blank lines of the text are not counted
    /\ help # None /\ help.indent > 0
    /\ \E l \in Lines :
         /\ ReadLine(l)
         /\ IF l.op = "blank"
            THEN here' = Passed(l, 0) /\ UNCHANGED <<help, tokens>>
            ELSE IF l.indent >= help.indent
            THEN here' = Passed(l, 0) /\ help' = [help EXCEPT !.lines = @ + 1] /\ UNCHANGED tokens
            ELSE here' = Passed(l, help.lines) /\ help' = None /\ tokens' = l
    /\ UNCHANGED <<suite, parser, tree, result>>

MoreLines ==
    /\ help # None /\ help.indent > 0
    /\ \E l \in Lines :
         /\ ReadLine(l)
         /\ IF l.op = "blank" \/ l.indent >= help.indent
            THEN here' = Passed(l, 0) /\ help' = [help EXCEPT !.lines = @ + 1] /\ UNCHANGED tokens
            ELSE here' = Passed(l, help.lines) /\ help' = None /\ tokens' = l
    /\ UNCHANGED <<suite, parser, tree, result>>

-----------------------------------------------------------------------------
(* _parse_block *)

InBlock(ops) == result = "none" /\ tokens # None /\ parsing = 0 /\ tokens.op \in ops
block == Last(blocks)

Done == tokens' = None /\ UNCHANGED <<suite, help, tree, result>>

Blank == InBlock({"blank"}) /\ Done /\ UNCHANGED <<reader, parser>>

(* An unnamed choice is one of its own *)
Unnamed(k) == "choice" \o ToString(k)
Item(k) == IF tokens.op = "choice" /\ tokens.arg = None THEN Unnamed(k)
           ELSE IF tokens.op \in {"config", "choice"} THEN tokens.arg ELSE None

(* An if has no place in the code; here it has one, which FilesNest needs *)
NewNode(k) ==
    [TopNode EXCEPT !.kind = Kinds[tokens.op], !.item = Item(k),
                    !.prompt = tokens.op \in {"menu", "comment"},
                    !.dep = IF tokens.op = "if" THEN {tokens.arg} ELSE {},
                    !.parent = block.parent, !.linenr = here.linenr, !.file = here.file,
                    !.include_path = [i \in DOMAIN filestack |->
                                        <<filestack[i].file, filestack[i].linenr>>]]

(* _parse_block is called for what is inside *)
Open(k, kind) == blocks' = Append(blocks, [end_token |-> EndOf[kind], parent |-> k, prev |-> k])

(* prev.next = prev = node, in the block called that much further out *)
Link(nodes, k, out) ==
    /\ menu' = [nodes EXCEPT ![blocks[Len(blocks) - out].prev].next = k]
    /\ blocks' = [SubSeq(blocks, 1, Len(blocks) - out) EXCEPT ![Len(blocks) - out].prev = k]

Define ==
    /\ InBlock({"config", "choice", "menu", "comment"})
    /\ menu' = Append(menu, NewNode(Len(menu) + 1))
    /\ parsing' = Len(menu) + 1
    /\ Done /\ UNCHANGED <<reader, filestack, blocks>>

If ==
    /\ InBlock({"if"})
    /\ menu' = Append(menu, NewNode(Len(menu) + 1))
    /\ Open(Len(menu) + 1, "if")
    /\ Done /\ UNCHANGED <<reader, filestack, parsing>>

(* The end of the innermost block: its nodes become the list of its parent *)
EndBlock_AnyEnd == \* mutant: any line that ends a block ends this one
    /\ InBlock(Enders) /\ block.end_token # "eof"
    /\ \E k \in {block.parent}, last \in {[menu EXCEPT ![block.prev].next = 0]} :
         Link([last EXCEPT ![k].list = last[k].next], k, 1)
    /\ Done /\ UNCHANGED <<reader, filestack, parsing>>

EndBlock ==
    /\ InBlock(Enders \cap {block.end_token})
    /\ \E k \in {block.parent}, last \in {[menu EXCEPT ![block.prev].next = 0]} :
         Link([last EXCEPT ![k].list = last[k].next], k, 1)
    /\ Done /\ UNCHANGED <<reader, filestack, parsing>>

(* _enter_file, where a file may not source itself *)
Recursive(f) == f = here.file \/ \E i \in DOMAIN filestack : filestack[i].file = f

Source ==
    /\ InBlock({"source"}) /\ ~ Recursive(tokens.arg)
    /\ filestack' = Append(filestack, here)
    /\ here' = [file |-> tokens.arg, linenr |-> 0, at |-> 0]
    /\ texts' = [f \in DOMAIN texts \cup {tokens.arg} |-> IF f \in DOMAIN texts THEN texts[f] ELSE <<>>]
    /\ blocks' = Append(blocks, [block EXCEPT !.end_token = "eof"])
    /\ Done /\ UNCHANGED <<ended, parsing, menu>>

(* The end of a sourced file, and _leave_file *)
EndOfFile_AnyBlock == \* mutant: a block that is open is closed with its file
    /\ InBlock({"eof"}) /\ filestack # <<>>
    /\ here' = Last(filestack)
    /\ filestack' = Front(filestack)
    /\ blocks' = [Front(blocks) EXCEPT ![Len(blocks) - 1].prev = block.prev]
    /\ Done /\ UNCHANGED <<texts, ended, parsing, menu>>

EndOfFile ==
    /\ InBlock({"eof"} \cap {block.end_token}) /\ filestack # <<>>
    /\ here' = Last(filestack)
    /\ filestack' = Front(filestack)
    /\ blocks' = [Front(blocks) EXCEPT ![Len(blocks) - 1].prev = block.prev]
    /\ Done /\ UNCHANGED <<texts, ended, parsing, menu>>

(* _init: the end of the first file, _finalize_node of the whole tree, and the
   search for loops                                                          *)
ItemsOf(kind) == {menu[k].item : k \in {j \in DOMAIN menu : menu[j].kind = kind}}
DefinedSyms == LET at == SelectSeq(menu, LAMBDA n : n.kind = "symbol")
               IN [i \in DOMAIN at |-> at[i].item]

Finish ==
    /\ InBlock({"eof"} \cap {block.end_token}) /\ filestack = <<>>
    /\ \E last \in {[menu EXCEPT ![block.prev].next = 0]} :
       \E top \in {[last EXCEPT ![1].list = last[1].next, ![1].next = 0]} :
       \E new \in {Finalize([nodes |-> top, added |-> <<>>,
                             syms |-> [c \in ItemsOf("choice") |-> <<>>],
                             choice |-> [s \in ItemsOf("symbol") |-> None]])} :
         /\ tree' = new
         /\ \E found \in LoopSeen(new, DefinedSyms) :
              result' = IF found THEN "looped" ELSE "finished"
    /\ UNCHANGED <<suite, reader, tokens, parser, help>>

Refuse == result' = "refused" /\ UNCHANGED <<suite, reader, tokens, parser, help, tree>>

(* Any other line, and the end of a file inside a block *)
RefuseLine ==
    /\ result = "none" /\ tokens # None /\ parsing = 0
    /\ \/ tokens.op \notin Statements \cup {"source", "blank", block.end_token}
       \/ tokens.op = "source" /\ Recursive(tokens.arg)
    /\ Refuse

-----------------------------------------------------------------------------
(* _parse_props *)

InProps == result = "none" /\ tokens # None /\ parsing # 0
(* The kinds of nodes that may have a property.  Where the code does not say
   so, it meets an attribute that the node or its item does not have.        *)
Allowed ==
    [op \in PropOps |->
        CASE op \in {"prompt", "help"} -> {"symbol", "choice"}
          [] op = "visible" -> {"menu"}
          [] op = "select" -> {"symbol"}
          [] op = "optional" -> {"choice"}
          [] OTHER -> {"symbol", "choice", "menu", "comment"}]

(* _parse_cond *)
Cond(l) == IF l.arg = None THEN {} ELSE {l.arg}

With(n, l) ==
    CASE l.op = "prompt" -> [n EXCEPT !.prompt = TRUE, !.cond = Cond(l)]
      [] l.op = "depends" -> [n EXCEPT !.dep = @ \cup {l.arg}]
      [] l.op = "visible" -> [n EXCEPT !.visibility = @ \cup {l.arg}]
      [] l.op = "default" -> [n EXCEPT !.props = Append(@, Cond(l))]
      [] l.op = "select" -> [n EXCEPT !.props = Append(@, {}), !.selects = @ \cup {l.arg}]
      [] OTHER -> n

Property ==
    /\ InProps /\ tokens.op \in PropOps \cup {"blank"}
    /\ tokens.op \in PropOps => menu[parsing].kind \in Allowed[tokens.op]
    /\ menu' = [menu EXCEPT ![parsing] = With(@, tokens)]
    /\ help' = IF tokens.op = "help" THEN [indent |-> 0, lines |-> 0] ELSE None
    /\ tokens' = None
    /\ UNCHANGED <<suite, reader, filestack, blocks, parsing, tree, result>>

RefuseProperty ==
    /\ InProps /\ tokens.op \in PropOps
    /\ menu[parsing].kind \notin Allowed[tokens.op]
    /\ Refuse

(* A line that is no property ends them and is parsed again: the node is
   linked, or the block inside it begins                                     *)
EndProps ==
    /\ InProps /\ tokens.op \notin PropOps \cup {"blank"}
    /\ \E kind \in {menu[parsing].kind} :
         IF kind \in Openers THEN Open(parsing, kind) /\ UNCHANGED menu
         ELSE Link(menu, parsing, 0)
    /\ parsing' = 0
    /\ UNCHANGED <<suite, reader, tokens, filestack, help, tree, result>>

Next ==
    \/ NextLine \/ FirstLine \/ MoreLines
    \/ Blank \/ Define \/ If \/ EndBlock \/ Source \/ EndOfFile \/ Finish \/ RefuseLine
    \/ Property \/ RefuseProperty \/ EndProps

Spec == Init /\ [][Next]_vars

Built == tree # None

-----------------------------------------------------------------------------
(* Properties *)

TypeOK ==
    /\ suite \in Suites
    /\ here.file \in DOMAIN texts /\ here.at \in 0 .. Len(texts[here.file])
    /\ \A f \in DOMAIN texts : \A p \in DOMAIN texts[f] : texts[f][p] \in Line
    /\ ended \subseteq DOMAIN texts
    /\ tokens \in Line \cup {Eof, None}
    /\ Len(blocks) > Len(filestack)
    /\ \A i \in DOMAIN blocks : {blocks[i].parent, blocks[i].prev} \subseteq DOMAIN menu
    /\ parsing \in {0} \cup DOMAIN menu
    /\ help # None => help.indent \in Nat /\ help.lines \in Nat /\ tokens = None /\ parsing # 0
    /\ \A k \in DOMAIN menu : {menu[k].parent, menu[k].next, menu[k].list} \subseteq {0} \cup DOMAIN menu
    /\ result \in {"none", "refused", "looped", "finished"}

(* The files that are being read, from the first one in, and the lines at which
   the j-th of them was sourced                                               *)
Reading == Append(filestack, here)
Path(j) == [i \in 1 .. j - 1 |-> <<Reading[i].file, Reading[i].linenr>>]

(* Block i was opened by a line of the j-th file *)
OpenedIn(i, j) ==
    LET n == menu[blocks[i].parent]
    IN /\ n.kind \in Openers /\ blocks[i].end_token = EndOf[n.kind]
       /\ n.file = Reading[j].file /\ n.include_path = Path(j)

(* No file is read while it is being read further out (_enter_file), so the
   texts come to an end.  Each file is read by a call of _parse_block of its
   own, and the calls between that one and the next are for blocks that this
   file opened, on this way to it: no file ends a block that another one opened,
   and at the end of a file none that it opened is left.                      *)
FilesNest ==
    /\ \A i, j \in DOMAIN Reading : Reading[i].file = Reading[j].file => i = j
    /\ \E at \in [DOMAIN Reading -> DOMAIN blocks] :
         /\ at[1] = 1
         /\ \A j \in DOMAIN Reading : blocks[at[j]].end_token = "eof"
         /\ \A j \in DOMAIN Reading \ {1} : at[j - 1] < at[j]
         /\ \A i \in DOMAIN blocks, j \in DOMAIN Reading :
              at[j] < i /\ (j < Len(Reading) => i < at[j + 1]) => OpenedIn(i, j)
    /\ Built => filestack = <<>> /\ Len(blocks) = 1

(* The place of a node: the lines that source its file and the line itself *)
Place(k) == Append(menu[k].include_path, <<menu[k].file, menu[k].linenr>>)
IsLine(place) == place[1] \in DOMAIN texts /\ place[2] \in DOMAIN texts[place[1]]
LineAt(place) == texts[place[1]][place[2]]

(* The line that defines node k, and those that source its file *)
SitsAt(k) ==
    \E places \in {Place(k)} :
      /\ places[1][1] = Main
      /\ \A i \in DOMAIN places : IsLine(places[i])
      /\ \A i \in DOMAIN places \ {1} :
           LineAt(places[i - 1]).op = "source" /\ LineAt(places[i - 1]).arg = places[i][1]
      /\ LineAt(Last(places)).op \in Statements
      /\ Kinds[LineAt(Last(places)).op] = menu[k].kind
      /\ menu[k].kind = "symbol" => menu[k].item = LineAt(Last(places)).arg

(* Each node has the file and line that defines it and the lines that source
   this file from the first one on, whatever was included or read as a help
   text before (_next_line, _parse_help, _leave_file).                        *)
Located == \A k \in DOMAIN menu \ {1} : SitsAt(k)
=============================================================================
