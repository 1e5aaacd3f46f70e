----------------------------- MODULE KconfigFiles -----------------------------
(***************************************************************************)
(* Configuration files and the programs that read and write them: writing  *)
(* and loading (kconfiglib.py), the unsaved changes of menuconfig.py, the  *)
(* passes of oldconfig.py, and defconfig.py, olddefconfig.py,              *)
(* alldefconfig.py and allnoconfig.py, which load and write at once.       *)
(* Programs run one after the other; they may be killed, and writing may   *)
(* fail, before or in the middle of a file.                                *)
(*                                                                         *)
(* A file is the sequence of its assignments <<symbol, value>>, with 0 for *)
(* "is not set" and NoValue for nothing after the equals sign.  What the   *)
(* user values make of the symbols is the constant View, which KconfigTree *)
(* computes from a tree.  That kconfiglib's caches agree with it is shown  *)
(* in KconfigCache, so there are no caches here.                           *)
(***************************************************************************)
EXTENDS KconfigItems, Integers, Sequences, SequencesExt, FiniteSets

CONSTANTS
    View(_),      \* by user values, the properties of the items: KconfigTree's Attr
    Toggles,      \* the items of type bool or tristate
    Order,        \* the items in the order of their menu nodes, one node each
    Conf,         \* .config, the standard_config_filename
    Names,        \* the names of files
    FirstConfs,   \* what .config may be at first
    CutValues(_), \* what is left of a value that is cut short inside its line
    Absent,       \* no such file
    MaxRuns,      \* bound: programs started
    MaxOps,       \* bound: changes and dialogs in menuconfig
    MaxFaults     \* bound: kills and failed writes

ASSUME FilesAssumption ==
    /\ Conf \in Names /\ Symbols \cap ChoiceSet = {} /\ NoValue \notin Items
    /\ Order \in Seq(Items) /\ ToSet(Order) = Items /\ IsInjective(Order)
    /\ Toggles \subseteq Items
    /\ ChoiceOf \in [Symbols -> ChoiceSet \cup {NoValue}]
    /\ \A i \in Items : NoValue \notin Accepts[i]
    /\ MaxRuns \in Nat /\ MaxOps \in Nat /\ MaxFaults \in Nat

VARIABLES
    pc,      \* "idle", "menu", "ask", or writing a file: "write", "open", "data"
    user,    \* the user values of the running program
    disk,    \* the files
    old,     \* their .old files
    conf_filename, \* menuconfig: _conf_filename
    changed, \* menuconfig: _conf_changed; oldconfig: conf_changed
    cursor,  \* oldconfig: the node it is at
    job,     \* the file being written, and by what: "dialog", "quit", "tool"
    torn,    \* history: what was to be written where a write did not end
    kept,    \* history: what each file held when it was last whole
    runs, ops, faults

program == <<user, conf_filename, changed, cursor>>
files == <<disk, old, torn, kept>>
vars == <<pc, program, job, files, runs, ops, faults>>

NoJob == [to |-> Conf, lines |-> <<>>, min |-> FALSE, by |-> "tool"]
Whole == [lines |-> <<>>, min |-> TRUE]  \* torn, where nothing was

Value(u) == View(u).value
SymbolOrder == SelectSeq(Order, LAMBDA i : i \in Symbols)
MembersOf(c) == {s \in Symbols : ChoiceOf[s] = c}

-----------------------------------------------------------------------------
(* Loading: load_config *)

(* A line that load_config takes, and the items it marks as set *)
Known(line) == line[1] \in Symbols /\ line[2] # NoValue
ReadLine(u, line) ==
    LET s == line[1]
        v == line[2]
    IN IF ~ Known(line) THEN u
       ELSE IF ChoiceOf[s] # NoValue /\ v # 0 /\ v \in Accepts[s]
            THEN Give(GiveMode(u, ChoiceOf[s], v), s, v)
       ELSE Give(u, s, v)

Marked(line) ==
    LET s == line[1]
        c == ChoiceOf[s]
    IN IF ~ Known(line) \/ line[2] \notin Accepts[s] THEN {}
       ELSE {s} \cup (IF c # NoValue /\ line[2] # 0
                         /\ (line[2] = 2 \/ line[2] \in Accepts[c]) THEN {c} ELSE {})

(* load_config without replace, line by line *)
Merge(u, f) ==
    LET after[k \in 0 .. Len(f)] ==
          IF k = 0 THEN u ELSE ReadLine(after[k - 1], f[k])
    IN after[Len(f)]

(* load_config with replace: what the file does not set is unset *)
Load(u, f) ==
    LET read == Merge(u, f)
        set == UNION {Marked(f[k]) : k \in DOMAIN f}
    IN [val |-> [s \in Symbols |-> IF s \in set THEN read.val[s] ELSE NoValue],
        mode |-> [c \in ChoiceSet |-> IF c \in set THEN read.mode[c] ELSE NoValue],
        sel |-> [c \in ChoiceSet |-> IF c \in set THEN read.sel[c] ELSE NoValue]]

LoadNew(f) == IF f = Absent THEN Blank ELSE Load(Blank, f)

-----------------------------------------------------------------------------
(* Contents: _config_contents and _min_config_contents *)

Lines(u, S) ==
    LET ss == SelectSeq(SymbolOrder, LAMBDA s : s \in S)
        value == Value(u)
    IN [k \in DOMAIN ss |-> <<ss[k], value[ss[k]]>>]

Contents_SkipsN(u) == \* mutant: "is not set" is left out
    LET w == View(u) IN Lines(u, {s \in Symbols : w.line[s] /\ w.value[s] # 0})

Contents(u) == LET w == View(u) IN Lines(u, {s \in Symbols : w.line[s]})

(* A symbol that cannot be changed: only selects raise it *)
Fixed(w, s) == ChoiceOf[s] = NoValue /\ w.vis[s] <= w.rev[s]

MinContents_SkipsN(u) == \* mutant: n counts as the default
    LET w == View(u)
    IN Lines(u, {s \in Symbols : w.line[s] /\ ~ Fixed(w, s) /\ w.value[s] # 0})

MinContents(u) ==
    LET w == View(u)
    IN Lines(u, {s \in Symbols : /\ w.line[s] /\ ~ Fixed(w, s)
                                 /\ w.value[s] # w.default[s]
                                 /\ ~ w.preselected[s]})

(* _needs_save of the user values u, after loading f *)
NeedsSave(u, f) ==
    LET w == View(u)
    IN \/ \E k \in DOMAIN f : f[k][1] \notin Symbols
       \/ \E s \in Symbols : IF u.val[s] = NoValue THEN w.line[s]
                             ELSE w.value[s] # u.val[s]

(* The files that may be written *)
Written(u) == {Contents(u), MinContents(u)}
IsFile(f) == f # Absent /\ f \in Seq(ToSet(f))

ASSUME ContentsAssumption ==
    /\ \A f \in FirstConfs \ {Absent} : IsFile(f)
    /\ \A u \in Users : \A f \in Written(u) : IsFile(f)

-----------------------------------------------------------------------------
(* Writing a file *)

(* write_config or write_min_config is called *)
Put(to, lines, min, by) ==
    /\ pc' = "write"
    /\ job' = [to |-> to, lines |-> lines, min |-> min, by |-> by]
    /\ UNCHANGED files

(* A program ends and forgets all but its files *)
Exit ==
    /\ pc' = "idle" /\ job' = NoJob /\ user' = Blank
    /\ conf_filename' = Conf /\ changed' = FALSE /\ cursor' = 1

Saved_Always == \* mutant: after a minimal configuration nothing counts as unsaved
    IF job.by # "dialog" THEN Exit
    ELSE /\ pc' = "menu" /\ job' = NoJob /\ changed' = FALSE /\ UNCHANGED <<user, cursor>>
         /\ conf_filename' = IF job.min THEN conf_filename ELSE job.to

(* The writer returns: menuconfig's save dialog takes the name *)
Saved ==
    IF job.by # "dialog" THEN Exit
    ELSE /\ pc' = "menu" /\ job' = NoJob /\ UNCHANGED <<user, cursor>>
         /\ IF job.min THEN UNCHANGED <<conf_filename, changed>>
            ELSE conf_filename' = job.to /\ changed' = FALSE

ContentsEq == disk[job.to] = job.lines

(* _save_old renames, and is silent where there is no file *)
SaveOld ==
    IF disk[job.to] = Absent THEN UNCHANGED <<disk, old, torn>>
    ELSE /\ old' = [old EXCEPT ![job.to] = disk[job.to]]
         /\ disk' = [disk EXCEPT ![job.to] = Absent]
         /\ torn' = [torn EXCEPT ![job.to] = [lines |-> job.lines, min |-> FALSE]]

BeginWrite_KeepsNot == \* mutant: no _save_old
    /\ pc = "write" /\ UNCHANGED <<runs, ops, faults>>
    /\ IF ContentsEq THEN Saved /\ UNCHANGED files
       ELSE pc' = "open" /\ UNCHANGED <<program, job, files>>

BeginWrite ==
    /\ pc = "write" /\ UNCHANGED <<runs, ops, faults>>
    /\ IF ContentsEq THEN Saved /\ UNCHANGED files
       ELSE /\ pc' = "open" /\ UNCHANGED <<program, job, kept>>
            /\ IF job.min THEN UNCHANGED <<disk, old, torn>> ELSE SaveOld

(* open(filename, "w") leaves an empty file *)
OpenFile ==
    /\ pc = "open" /\ pc' = "data"
    /\ disk' = [disk EXCEPT ![job.to] = <<>>]
    /\ torn' = [torn EXCEPT ![job.to] = [lines |-> job.lines, min |-> job.min]]
    /\ UNCHANGED <<program, job, old, kept, runs, ops, faults>>

WriteData ==
    /\ pc = "data" /\ Saved
    /\ disk' = [disk EXCEPT ![job.to] = job.lines]
    /\ torn' = [torn EXCEPT ![job.to] = Whole]
    /\ kept' = [kept EXCEPT ![job.to] = job.lines]
    /\ UNCHANGED <<old, runs, ops, faults>>

(* Part of the lines, the last one perhaps cut short *)
Cuts(lines) ==
    {SubSeq(lines, 1, k) : k \in 0 .. Len(lines) - 1}
    \cup UNION {{Append(SubSeq(lines, 1, k - 1), <<lines[k][1], v>>)
                 : v \in CutValues(lines[k][2])} : k \in DOMAIN lines}

(* What is left of a file that lost lines is not what kconfiglib makes of it *)
ASSUME CutsAssumption ==
    \A u \in Users : \A lines \in Written(u) : \A f \in Cuts(lines) :
        Len(f) < Len(lines) => NeedsSave(LoadNew(f), f)

Tear ==
    /\ faults < MaxFaults /\ faults' = faults + 1
    /\ IF pc = "data" THEN \E f \in Cuts(job.lines) : disk' = [disk EXCEPT ![job.to] = f]
       ELSE UNCHANGED disk
    /\ UNCHANGED <<old, torn, kept, runs, ops>>

Kill == pc # "idle" /\ Tear /\ Exit

(* An EnvironmentError: menuconfig shows it and goes on, the others end *)
Fail ==
    /\ pc \in {"open", "data"} /\ Tear
    /\ IF job.by = "tool" THEN Exit
       ELSE pc' = "menu" /\ job' = NoJob /\ UNCHANGED program

-----------------------------------------------------------------------------
(* Programs *)

Init ==
    /\ pc = "idle" /\ job = NoJob /\ user = Blank
    /\ conf_filename = Conf /\ changed = FALSE /\ cursor = 1
    /\ \E f \in FirstConfs : disk = [n \in Names |-> IF n = Conf THEN f ELSE Absent]
    /\ old = [n \in Names |-> Absent]
    /\ torn = [n \in Names |-> Whole] /\ kept = disk
    /\ runs = 0 /\ ops = 0 /\ faults = 0

Start == pc = "idle" /\ runs < MaxRuns /\ runs' = runs + 1 /\ UNCHANGED <<ops, faults>>

(* defconfig.py on a file, olddefconfig.py *)
Rewrite(f) ==
    /\ Start
    /\ f = Conf \/ disk[f] # Absent
    /\ user' = LoadNew(disk[f])
    /\ Put(Conf, Contents(user'), FALSE, "tool")
    /\ UNCHANGED <<conf_filename, changed, cursor>>

(* allnoconfig.py begins with n for every bool and tristate *)
AllNo == [Blank EXCEPT !.val = [s \in Symbols |->
            IF s \in Toggles /\ 0 \in Accepts[s] THEN 0 ELSE NoValue]]

(* alldefconfig.py and allnoconfig.py: over base they load what KCONFIG_ALLCONFIG
   names, which the Makefile sets, and end where there is no such file          *)
AllConfig(base, f) ==
    /\ Start
    /\ disk[f] # Absent
    /\ user' = Merge(base, disk[f])
    /\ Put(Conf, Contents(user'), FALSE, "tool")
    /\ UNCHANGED <<conf_filename, changed, cursor>>

StartMenu_Trusts == \* mutant: a .config that was loaded counts as up to date
    /\ Start /\ pc' = "menu" /\ user' = LoadNew(disk[Conf])
    /\ changed' = (disk[Conf] = Absent)
    /\ UNCHANGED <<conf_filename, cursor, job, files>>

StartMenu ==
    /\ Start /\ pc' = "menu" /\ user' = LoadNew(disk[Conf])
    /\ changed' = (disk[Conf] = Absent \/ NeedsSave(user', disk[Conf]))
    /\ UNCHANGED <<conf_filename, cursor, job, files>>

(* The values that a key or the input dialog can give to an item in the menu *)
Choosable_Accepted(w, i) == \* mutant: whatever the type takes can be set
    IF w.vis[i] = 0 THEN {} ELSE Accepts[i]

Choosable(w, i) ==
    IF w.vis[i] = 0 THEN {} ELSE IF i \in Toggles THEN w.asg[i] ELSE w.enter[i]

Current(w, i) == IF i \in ChoiceSet THEN w.mode[i] ELSE w.value[i]
Chosen(u, i, v) == IF i \in ChoiceSet THEN GiveMode(u, i, v) ELSE Give(u, i, v)

InMenu == pc = "menu" /\ ops < MaxOps /\ ops' = ops + 1

Edit(i, v) ==
    /\ InMenu
    /\ v # Current(View(user), i)
    /\ user' = Chosen(user, i, v) /\ changed' = TRUE
    /\ UNCHANGED <<pc, conf_filename, cursor, job, files, runs, faults>>

SaveDialog(to, min) ==
    /\ InMenu
    /\ Put(to, IF min THEN MinContents(user) ELSE Contents(user), min, "dialog")
    /\ UNCHANGED <<program, runs, faults>>

(* Loading over unsaved changes is confirmed first *)
LoadDialog(f) ==
    /\ InMenu /\ disk[f] # Absent
    /\ user' = Load(user, disk[f]) /\ conf_filename' = f
    /\ changed' = NeedsSave(user', disk[f])
    /\ UNCHANGED <<pc, cursor, job, files, runs, faults>>

(* Without changes, or with n in the dialog, menuconfig just ends *)
Quit == pc = "menu" /\ Exit /\ UNCHANGED <<files, runs, ops, faults>>
QuitAndSave ==
    /\ pc = "menu" /\ changed
    /\ Put(conf_filename, Contents(user), FALSE, "quit")
    /\ UNCHANGED <<program, runs, ops, faults>>

StartOldconfig ==
    /\ Start /\ pc' = "ask" /\ user' = LoadNew(disk[Conf])
    /\ changed' = FALSE /\ cursor' = 1
    /\ UNCHANGED <<conf_filename, job, files>>

-----------------------------------------------------------------------------
(* oldconfig: what it asks, and what an answer does *)

AsksSymbol_Again(s, u) == \* mutant: what was answered is asked again
    LET w == View(u) IN w.vis[s] # 0 /\ (s \in Toggles => Cardinality(w.asg[s]) # 1)

AsksSymbol(s, u) ==
    LET w == View(u)
    IN /\ w.vis[s] # 0 /\ u.val[s] = NoValue
       /\ s \in Toggles => Cardinality(w.asg[s]) # 1
       /\ ChoiceOf[s] # NoValue => w.mode[ChoiceOf[s]] # 2

Options(c, u) == LET w == View(u) IN {s \in MembersOf(c) : w.vis[s] = 2}

AsksChoice(c, u) ==
    LET w == View(u)
        new == {s \in MembersOf(c) \ {u.sel[c]} : w.vis[s] # 0 /\ u.val[s] = NoValue}
    IN /\ w.vis[c] # 0 /\ Options(c, u) # {}
       /\ u.sel[c] # NoValue => w.vis[u.sel[c]] # 2 \/ new # {}

Asks(i, u) == IF i \in ChoiceSet THEN AsksChoice(i, u) ELSE AsksSymbol(i, u)

(* y for one, and n for the other visible symbols of the choice *)
Picked(u, c, s) ==
    LET with == Give(u, s, 2)
        w == View(with)
    IN [with EXCEPT !.val = [t \in Symbols |->
          IF ChoiceOf[t] = c /\ t # s /\ w.vis[t] # 0 /\ 0 \in Accepts[t]
          THEN 0 ELSE with.val[t]]]

(* An answer that changes no value makes oldconfig ask for nothing else *)
ASSUME AnswersAssumption ==
    \A u \in Users :
        /\ \A s \in Symbols : AsksSymbol(s, u) =>
              \A v \in Accepts[s] : Value(Give(u, s, v))[s] = Value(u)[s] =>
                  \A i \in Items : Asks(i, Give(u, s, v)) => Asks(i, u)
        /\ \A c \in ChoiceSet : AsksChoice(c, u) =>
              \A s \in Options(c, u) : Value(u)[s] = 2 =>
                  \A i \in Items : Asks(i, Picked(u, c, s)) => i # c /\ Asks(i, u)

Step == UNCHANGED <<pc, conf_filename, job, files, runs, ops, faults>>

(* A blank answer stands for the present value; what set_value refuses is
   asked for again                                                        *)
AnswerSymbol_Silent == \* mutant: conf_changed is not set
    /\ pc = "ask" /\ cursor <= Len(Order)
    /\ LET s == Order[cursor]
       IN /\ s \in Symbols /\ AsksSymbol(s, user)
          /\ \E v \in Accepts[s] : user' = Give(user, s, v)
    /\ cursor' = cursor + 1 /\ UNCHANGED changed /\ Step

AnswerSymbol ==
    /\ pc = "ask" /\ cursor <= Len(Order)
    /\ LET s == Order[cursor]
       IN /\ s \in Symbols /\ AsksSymbol(s, user)
          /\ \E v \in Accepts[s] : user' = Give(user, s, v)
          /\ changed' = (changed \/ Value(user')[s] # Value(user)[s])
    /\ cursor' = cursor + 1 /\ Step

AnswerChoice ==
    /\ pc = "ask" /\ cursor <= Len(Order)
    /\ LET c == Order[cursor]
       IN /\ c \in ChoiceSet /\ AsksChoice(c, user)
          /\ \E s \in Options(c, user) :
                /\ user' = Picked(user, c, s)
                /\ changed' = (changed \/ Value(user)[s] # 2)
    /\ cursor' = cursor + 1 /\ Step

Skip ==
    /\ pc = "ask" /\ cursor <= Len(Order) /\ ~ Asks(Order[cursor], user)
    /\ cursor' = cursor + 1 /\ UNCHANGED <<user, changed>> /\ Step

(* Over again while an answer changed a value, then write *)
EndPass ==
    /\ pc = "ask" /\ cursor > Len(Order)
    /\ cursor' = 1 /\ changed' = FALSE
    /\ IF changed THEN Step /\ UNCHANGED user
       ELSE /\ Put(Conf, Contents(user), FALSE, "tool")
            /\ UNCHANGED <<user, conf_filename, runs, ops, faults>>

Oldconfig == AnswerSymbol \/ AnswerChoice \/ Skip \/ EndPass

Next ==
    \/ StartMenu \/ StartOldconfig \/ Quit \/ QuitAndSave \/ Oldconfig
    \/ BeginWrite \/ OpenFile \/ WriteData \/ Kill \/ Fail
    \/ \E f \in Names : Rewrite(f) \/ LoadDialog(f)
    \/ \E f \in Names : AllConfig(Blank, f) \/ AllConfig(AllNo, f)
    \/ \E f \in Names, min \in BOOLEAN : SaveDialog(f, min)
    \/ \E i \in Items : \E v \in Choosable(View(user), i) : Edit(i, v)

(* The user of oldconfig goes on answering; everybody else may stop *)
Spec == Init /\ [][Next]_vars /\ WF_vars(Oldconfig)

-----------------------------------------------------------------------------
(* Properties *)

Same(u, w) == Value(u) = Value(w)

TypeOK ==
    /\ user \in Users
    /\ pc \in {"idle", "menu", "ask", "write", "open", "data"}
    /\ conf_filename \in Names /\ changed \in BOOLEAN /\ cursor \in 1 .. Len(Order) + 1
    /\ job.to \in Names /\ job.min \in BOOLEAN /\ job.by \in {"dialog", "quit", "tool"}
    /\ pc \in {"write", "open", "data"} =>
            \E u \in Users : job.lines \in Written(u)
    /\ DOMAIN disk = Names /\ DOMAIN old = Names
    /\ DOMAIN torn = Names /\ DOMAIN kept = Names
    /\ \A n \in Names : disk[n] # Absent => Len(disk[n]) \in Nat
    /\ runs \in Nat /\ ops \in Nat /\ faults \in Nat

(* What write_config writes gives, loaded into a new Kconfig, every symbol
   the value it had: nothing of a configuration is lost by saving it, in
   whatever order user values were given.                                  *)
SavedIsLoaded == Same(Load(Blank, Contents(user)), user)

(* "a complete configuration can be derived from it by loading it", says
   write_min_config of the minimal configuration.                          *)
MinDerives == Same(Load(Blank, MinContents(user)), user)

(* menuconfig without unsaved changes holds the values of its file, whatever
   was edited, saved under other names, saved as a minimal configuration or
   loaded before.  Excepted is a file whose writing failed meanwhile: the
   save dialog leaves _conf_changed as it was.                              *)
Unsaved ==
    pc = "menu" /\ ~ changed /\ torn[conf_filename] = Whole =>
        disk[conf_filename] # Absent /\ Same(LoadNew(disk[conf_filename]), user)

(* After one kill or failed write of a .config the last whole one is in
   .config.old, also when menuconfig went on and saved again.              *)
OldKept ==
    pc = "idle" => \A n \in Names : ~ torn[n].min => old[n] = kept[n]

(* A .config that lost lines when it was written does not pass for up to date
   when menuconfig starts; only one whose last line was cut short may.        *)
TornNoticed ==
    [][pc = "idle" /\ pc' = "menu" /\ torn[Conf] # Whole
       /\ (disk[Conf] = Absent \/ Len(disk[Conf]) < Len(torn[Conf].lines))
       => changed']_vars

(* Whatever an item in the menu can be set to is what it is then worth:
   "the tristate user values that can currently be assigned to the symbol
   (that would be respected)".                                              *)
Respected ==
    pc = "menu" => \A i \in Items : \A v \in Choosable(View(user), i) :
        Current(View(Chosen(user, i, v)), i) = v

(* oldconfig writes when nothing is left that it would ask, although answers
   make new symbols visible before and behind the cursor.                     *)
AllAsked ==
    [][pc = "ask" /\ pc' = "write" => \A i \in Items : ~ Asks(i, user)]_vars

(* oldconfig comes to an end, whatever is answered. *)
OldconfigEnds == pc = "ask" ~> pc # "ask"
=============================================================================
