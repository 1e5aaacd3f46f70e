-------------------------- MODULE KconfigFilesProofs --------------------------
(***************************************************************************)
(* What the programs of KconfigFiles leave on the disk, for every Kconfig  *)
(* and any number of programs.                                             *)
(*                                                                         *)
(* load_config is a recursive function over the lines of a file.  That it  *)
(* is defined, and gives user values, is shown by looking at the first     *)
(* line at which it would not be (Least).                                  *)
(***************************************************************************)
EXTENDS KconfigFiles, LeastNumber, TLAPS

-----------------------------------------------------------------------------
(* User values *)

(* Nothing set is a user value, and so is what set_value makes of one. *)
LEMMA BlankIsUser == Blank \in Users
BY DEF Blank, Users, UserValues

LEMMA GiveIsUser ==
    ASSUME NEW u \in Users, NEW s \in Symbols, NEW v
    PROVE  Give(u, s, v) \in Users
<1>1. CASE v \notin Accepts[s]
  BY <1>1 DEF Give
<1>2. CASE v \in Accepts[s]
  <2>1. v \in UserValues
    BY <1>2 DEF UserValues, Items
  <2>2. ChoiceOf[s] \in ChoiceSet \cup {NoValue}
    BY FilesAssumption
  <2>3. Give(u, s, v).val = [u.val EXCEPT ![s] = v]
    BY <1>2 DEF Give, Users
  <2>4. Give(u, s, v).mode = u.mode
    BY <1>2 DEF Give, Users
  <2>5. Give(u, s, v).sel = IF ChoiceOf[s] # NoValue /\ v = 2
                            THEN [u.sel EXCEPT ![ChoiceOf[s]] = s] ELSE u.sel
    BY <1>2 DEF Give, Users
  <2>6. Give(u, s, v) \in [val : [Symbols -> UserValues], mode : [ChoiceSet -> UserValues],
                           sel : [ChoiceSet -> Symbols \cup {NoValue}]]
    BY <1>2, <2>1, <2>2 DEF Give, Users
  <2>7. \A t \in Symbols : Give(u, s, v).val[t] \in Accepts[t] \cup {NoValue}
    BY <1>2, <2>3 DEF Users
  <2>8. ASSUME NEW c \in ChoiceSet, Give(u, s, v).sel[c] # NoValue
        PROVE  /\ ChoiceOf[Give(u, s, v).sel[c]] = c
               /\ 2 \in Accepts[Give(u, s, v).sel[c]]
    BY <1>2, <2>2, <2>5, <2>8 DEF Users
  <2> QED BY <2>4, <2>6, <2>7, <2>8 DEF Users
<1> QED BY <1>1, <1>2

LEMMA GiveModeIsUser ==
    ASSUME NEW u \in Users, NEW c \in ChoiceSet, NEW v
    PROVE  GiveMode(u, c, v) \in Users
BY DEF GiveMode, Users, UserValues, Items

LEMMA ReadLineIsUser ==
    ASSUME NEW u \in Users, NEW line
    PROVE  ReadLine(u, line) \in Users
<1>1. CASE ~ Known(line)
  BY <1>1 DEF ReadLine
<1>2. CASE Known(line)
  <2>1. line[1] \in Symbols /\ ChoiceOf[line[1]] \in ChoiceSet \cup {NoValue}
    BY <1>2, FilesAssumption DEF Known
  <2> QED BY <1>2, <2>1, GiveIsUser, GiveModeIsUser DEF ReadLine
<1> QED BY <1>1, <1>2

-----------------------------------------------------------------------------
(* Loading *)

(* The user values after each line of a file *)
Reads(g, u, f, n) ==
    g = [k \in 0 .. n |-> IF k = 0 THEN u ELSE ReadLine(g[k - 1], f[k])]

(* Loading is defined for a file of any length. *)
LEMMA ReadsExist ==
    ASSUME NEW u, NEW f, NEW n \in Nat
    PROVE  \E g : Reads(g, u, f, n)
<1> DEFINE Bad == {m \in Nat : ~ \E g : Reads(g, u, f, m)}
<1>1. ASSUME Bad # {} PROVE FALSE
  <2>0. Bad \in SUBSET Nat
    OBVIOUS
  <2>1. PICK m \in Bad : \A k \in Bad : m <= k
    <3> HIDE DEF Bad
    <3> QED BY <1>1, <2>0, Least
  <2>2. m # 0
    <3>1. Reads([k \in 0 .. 0 |-> u], u, f, 0)
      BY DEF Reads
    <3> QED BY <3>1
  <2>3. m - 1 \in Nat /\ m - 1 \notin Bad
    BY <2>1, <2>2
  <2>4. PICK g : Reads(g, u, f, m - 1)
    BY <2>3
  <2> DEFINE h == [k \in 0 .. m |-> IF k = m THEN ReadLine(g[m - 1], f[m]) ELSE g[k]]
  <2>5. Reads(h, u, f, m)
    <3>1. ASSUME NEW k \in 0 .. m
          PROVE  h[k] = IF k = 0 THEN u ELSE ReadLine(h[k - 1], f[k])
      <4>1. CASE k = m
        <5>1. h[k] = ReadLine(g[m - 1], f[m]) /\ h[k - 1] = g[m - 1]
          BY <4>1, <2>2, <2>3
        <5> QED BY <5>1, <4>1, <2>2
      <4>2. CASE k # m
        <5>1. k \in 0 .. m - 1 /\ h[k] = g[k]
          BY <4>2, <2>3
        <5>2. g[k] = IF k = 0 THEN u ELSE ReadLine(g[k - 1], f[k])
          BY <5>1, <2>4 DEF Reads
        <5>3. k # 0 => k - 1 \in 0 .. m /\ k - 1 # m /\ h[k - 1] = g[k - 1]
          BY <5>1, <2>3
        <5> QED BY <5>1, <5>2, <5>3
      <4> QED BY <4>1, <4>2
    <3> QED BY <3>1 DEF Reads
  <2> QED BY <2>1, <2>5
<1> QED BY <1>1

(* Every line leaves user values. *)
LEMMA ReadsAreUsers ==
    ASSUME NEW u \in Users, NEW f, NEW n \in Nat, NEW g, Reads(g, u, f, n)
    PROVE  g[n] \in Users
<1> DEFINE Bad == {m \in 0 .. n : g[m] \notin Users}
<1>1. ASSUME Bad # {} PROVE FALSE
  <2>0. Bad \in SUBSET Nat
    OBVIOUS
  <2>1. PICK m \in Bad : \A k \in Bad : m <= k
    <3> HIDE DEF Bad
    <3> QED BY <1>1, <2>0, Least
  <2>2. g[m] = IF m = 0 THEN u ELSE ReadLine(g[m - 1], f[m])
    BY <2>1 DEF Reads
  <2>3. m # 0 => m - 1 \in 0 .. n /\ m - 1 \notin Bad
    BY <2>1, <2>0
  <2>4. m # 0 => g[m - 1] \in Users
    BY <2>3
  <2> QED BY <2>1, <2>2, <2>4, ReadLineIsUser
<1> QED BY <1>1

(* load_config gives user values, whatever the lines of the file say. *)
LEMMA MergeIsUser ==
    ASSUME NEW u \in Users, NEW f, Len(f) \in Nat
    PROVE  Merge(u, f) \in Users
<1> DEFINE after == CHOOSE g : Reads(g, u, f, Len(f))
<1>1. Reads(after, u, f, Len(f))
  BY ReadsExist
<1>2. after[Len(f)] \in Users
  BY <1>1, ReadsAreUsers
<1>3. Merge(u, f) = after[Len(f)]
  BY DEF Merge, Reads
<1> QED BY <1>2, <1>3

LEMMA LoadIsUser ==
    ASSUME NEW u \in Users, NEW f, Len(f) \in Nat
    PROVE  Load(u, f) \in Users
<1> DEFINE read == Merge(u, f)
           set == UNION {Marked(f[k]) : k \in DOMAIN f}
<1>2. read \in Users
  BY MergeIsUser
<1>3. Load(u, f) =
        [val |-> [s \in Symbols |-> IF s \in set THEN read.val[s] ELSE NoValue],
         mode |-> [c \in ChoiceSet |-> IF c \in set THEN read.mode[c] ELSE NoValue],
         sel |-> [c \in ChoiceSet |-> IF c \in set THEN read.sel[c] ELSE NoValue]]
  BY DEF Load
<1> HIDE DEF read, set
<1>4. Load(u, f) \in [val : [Symbols -> UserValues], mode : [ChoiceSet -> UserValues],
                      sel : [ChoiceSet -> Symbols \cup {NoValue}]]
  BY <1>2, <1>3 DEF Users, UserValues
<1>5. ASSUME NEW s \in Symbols
      PROVE  Load(u, f).val[s] \in Accepts[s] \cup {NoValue}
  <2>1. Load(u, f).val[s] \in {read.val[s], NoValue}
    BY <1>3
  <2> QED BY <1>2, <2>1 DEF Users
<1>6. ASSUME NEW c \in ChoiceSet
      PROVE  /\ Load(u, f).mode[c] \in Accepts[c] \cup {NoValue}
             /\ Load(u, f).sel[c] # NoValue =>
                    ChoiceOf[Load(u, f).sel[c]] = c /\ 2 \in Accepts[Load(u, f).sel[c]]
  <2>1. Load(u, f).mode[c] \in {read.mode[c], NoValue}
    BY <1>3
  <2>2. Load(u, f).sel[c] \in {read.sel[c], NoValue}
    BY <1>3
  <2> QED BY <1>2, <2>1, <2>2 DEF Users
<1> QED BY <1>4, <1>5, <1>6 DEF Users

LEMMA LoadNewIsUser ==
    ASSUME NEW f, f # Absent => Len(f) \in Nat
    PROVE  LoadNew(f) \in Users
BY BlankIsUser, LoadIsUser DEF LoadNew

LEMMA AllNoIsUser == AllNo \in Users
<1> DEFINE val == [s \in Symbols |->
                     IF s \in Toggles /\ 0 \in Accepts[s] THEN 0 ELSE NoValue]
<1>1. AllNo = [Blank EXCEPT !.val = val]
  BY DEF AllNo
<1>2. val \in [Symbols -> UserValues] /\ \A s \in Symbols : val[s] \in Accepts[s] \cup {NoValue}
  BY DEF UserValues, Items
<1> HIDE DEF val
<1> QED BY <1>1, <1>2, BlankIsUser DEF Users

-----------------------------------------------------------------------------
(* What may be written, and what is left of it *)

LEMMA WrittenIsFile ==
    ASSUME NEW u \in Users, NEW f \in Written(u)
    PROVE  f # Absent /\ Len(f) \in Nat /\ f \in Seq(ToSet(f))
BY ContentsAssumption DEF IsFile

LEMMA CutsHaveLength ==
    ASSUME NEW lines, lines \in Seq(ToSet(lines)), NEW f \in Cuts(lines)
    PROVE  Len(f) \in Nat
<1>1. CASE \E k \in 0 .. Len(lines) - 1 : f = SubSeq(lines, 1, k)
  BY <1>1
<1>2. CASE \E k \in DOMAIN lines : \E v \in CutValues(lines[k][2]) :
                f = Append(SubSeq(lines, 1, k - 1), <<lines[k][1], v>>)
  <2>0. PICK k \in DOMAIN lines : \E v \in CutValues(lines[k][2]) :
                f = Append(SubSeq(lines, 1, k - 1), <<lines[k][1], v>>)
    BY <1>2
  <2>1. PICK v \in CutValues(lines[k][2]) :
                f = Append(SubSeq(lines, 1, k - 1), <<lines[k][1], v>>)
    BY <2>0
  <2> DEFINE T == ToSet(lines) \cup {<<lines[k][1], v>>}
  <2>2. lines \in Seq(T) /\ k \in 1 .. Len(lines)
    BY <2>0
  <2>3. SubSeq(lines, 1, k - 1) \in Seq(T)
    BY <2>2
  <2>4. <<lines[k][1], v>> \in T
    OBVIOUS
  <2> HIDE DEF T
  <2> QED BY <2>1, <2>3, <2>4
<1> QED BY <1>1, <1>2 DEF Cuts

LEMMA PickedIsUser ==
    ASSUME NEW u \in Users, NEW c \in ChoiceSet, NEW s \in Symbols
    PROVE  Picked(u, c, s) \in Users
<1> DEFINE with == Give(u, s, 2)
           w == View(with)
           val == [t \in Symbols |->
                     IF ChoiceOf[t] = c /\ t # s /\ w.vis[t] # 0 /\ 0 \in Accepts[t]
                     THEN 0 ELSE with.val[t]]
<1>1. with \in Users
  BY GiveIsUser
<1>2. Picked(u, c, s) = [with EXCEPT !.val = val]
  BY DEF Picked
<1>3. val \in [Symbols -> UserValues]
      /\ \A t \in Symbols : val[t] \in Accepts[t] \cup {NoValue}
  BY <1>1 DEF Users, UserValues, Items
<1> HIDE DEF val, with
<1> QED BY <1>1, <1>2, <1>3 DEF Users

-----------------------------------------------------------------------------
(* Types *)

(* The first node of the tree, and .config *)
LEMMA AtFirst == 1 \in 1 .. Len(Order) + 1 /\ Conf \in Names
BY FilesAssumption

LEMMA TypeInit == Init => TypeOK
<1> SUFFICES ASSUME Init PROVE TypeOK
  OBVIOUS
<1>1. user \in Users
  BY BlankIsUser DEF Init
<1>2. \A n \in Names : disk[n] # Absent => Len(disk[n]) \in Nat
  BY FilesAssumption, ContentsAssumption DEF Init, IsFile
<1>3. cursor \in 1 .. Len(Order) + 1
  BY FilesAssumption DEF Init
<1>4. DOMAIN disk = Names /\ DOMAIN old = Names /\ DOMAIN torn = Names /\ DOMAIN kept = Names
  BY DEF Init
<1> QED BY <1>1, <1>2, <1>3, <1>4, FilesAssumption DEF Init, TypeOK, NoJob

(* A program that ends, or goes on after its writer returned, is well typed. *)
LEMMA ExitType ==
    ASSUME Exit
    PROVE  /\ user' \in Users /\ pc' = "idle"
           /\ conf_filename' \in Names /\ changed' \in BOOLEAN
           /\ cursor' \in 1 .. Len(Order) + 1
           /\ job'.to \in Names /\ job'.min \in BOOLEAN /\ job'.by \in {"dialog", "quit", "tool"}
BY AtFirst, BlankIsUser DEF Exit, NoJob

LEMMA SavedType ==
    ASSUME TypeOK, Saved
    PROVE  /\ user' \in Users /\ pc' \in {"idle", "menu"}
           /\ conf_filename' \in Names /\ changed' \in BOOLEAN
           /\ cursor' \in 1 .. Len(Order) + 1
           /\ job'.to \in Names /\ job'.min \in BOOLEAN /\ job'.by \in {"dialog", "quit", "tool"}
<1>1. CASE job.by # "dialog"
  BY <1>1, FilesAssumption, ExitType DEF Saved
<1>2. CASE job.by = "dialog"
  <2>1. job' = NoJob /\ pc' = "menu" /\ UNCHANGED <<user, cursor>>
    BY <1>2 DEF Saved
  <2>2. conf_filename' \in {conf_filename, job.to} /\ changed' \in {changed, FALSE}
    BY <1>2 DEF Saved
  <2> QED BY <2>1, <2>2, AtFirst DEF TypeOK, NoJob
<1> QED BY <1>1, <1>2

(* The item at the cursor of oldconfig. *)
LEMMA AtCursor ==
    ASSUME cursor \in 1 .. Len(Order) + 1, cursor <= Len(Order)
    PROVE  Order[cursor] \in Items /\ cursor + 1 \in 1 .. Len(Order) + 1
BY FilesAssumption

LEMMA TypeStep == TypeOK /\ [Next]_vars => TypeOK'
<1> SUFFICES ASSUME TypeOK, [Next]_vars PROVE TypeOK'
  OBVIOUS
<1>1. CASE StartMenu
  <2>1. user' \in Users
    BY <1>1, LoadNewIsUser DEF StartMenu, TypeOK
  <2> QED BY <1>1, <2>1 DEF StartMenu, Start, TypeOK, files
<1>2. CASE StartOldconfig
  <2>1. user' \in Users
    BY <1>2, LoadNewIsUser DEF StartOldconfig, TypeOK
  <2>2. cursor' \in 1 .. Len(Order) + 1
    BY <1>2, AtFirst DEF StartOldconfig
  <2>3. pc' = "ask" /\ changed' = FALSE
    BY <1>2 DEF StartOldconfig
  <2>4. UNCHANGED <<conf_filename, job, disk, old, torn, kept, ops, faults>>
        /\ runs' = runs + 1
    BY <1>2 DEF StartOldconfig, Start, files
  <2>5. ~ (pc' \in {"write", "open", "data"})
    BY <2>3
  <2>6. \A n \in Names : disk'[n] # Absent => Len(disk'[n]) \in Nat
    BY <2>4 DEF TypeOK
  <2>7. conf_filename' \in Names
    BY <2>4 DEF TypeOK
  <2>8. job'.to \in Names /\ job'.min \in BOOLEAN /\ job'.by \in {"dialog", "quit", "tool"}
    BY <2>4 DEF TypeOK
  <2>9. DOMAIN disk' = Names /\ DOMAIN old' = Names /\ DOMAIN torn' = Names /\ DOMAIN kept' = Names
    BY <2>4 DEF TypeOK
  <2>10. runs' \in Nat /\ ops' \in Nat /\ faults' \in Nat
    BY <2>4 DEF TypeOK
  <2> QED BY <2>1, <2>2, <2>3, <2>5, <2>6, <2>7, <2>8, <2>9, <2>10 DEF TypeOK
<1>3. CASE Quit
  BY <1>3, ExitType DEF Quit, TypeOK, files
<1>4. CASE QuitAndSave
  BY <1>4 DEF QuitAndSave, Put, Written, TypeOK, program, files
<1>5. CASE AnswerSymbol
  <2>1. cursor \in 1 .. Len(Order) + 1 /\ cursor <= Len(Order) /\ Order[cursor] \in Symbols
        /\ cursor' = cursor + 1
    BY <1>5 DEF AnswerSymbol, TypeOK
  <2>2. user' \in Users
    BY <1>5, <2>1, GiveIsUser DEF AnswerSymbol, TypeOK
  <2>3. changed' \in BOOLEAN
    BY <1>5 DEF AnswerSymbol
  <2>4. cursor' \in 1 .. Len(Order) + 1
    BY <2>1, AtCursor
  <2> QED BY <1>5, <2>2, <2>3, <2>4 DEF AnswerSymbol, Step, TypeOK, files
<1>6. CASE AnswerChoice
  <2>1. cursor \in 1 .. Len(Order) + 1 /\ cursor <= Len(Order) /\ Order[cursor] \in ChoiceSet
        /\ cursor' = cursor + 1
    BY <1>6 DEF AnswerChoice, TypeOK
  <2>2. user' \in Users
    BY <1>6, <2>1, PickedIsUser DEF AnswerChoice, Options, MembersOf, TypeOK
  <2>3. changed' \in BOOLEAN
    BY <1>6 DEF AnswerChoice
  <2>4. cursor' \in 1 .. Len(Order) + 1
    BY <2>1, AtCursor
  <2> QED BY <1>6, <2>2, <2>3, <2>4 DEF AnswerChoice, Step, TypeOK, files
<1>7. CASE Skip
  <2>1. cursor' \in 1 .. Len(Order) + 1
    BY <1>7, AtCursor DEF Skip, TypeOK
  <2> QED BY <1>7, <2>1 DEF Skip, Step, TypeOK, files
<1>8. CASE EndPass
  <2>1. cursor' \in 1 .. Len(Order) + 1
    BY <1>8, AtFirst DEF EndPass
  <2>2. CASE changed
    BY <1>8, <2>1, <2>2 DEF EndPass, Step, TypeOK, files
  <2>3. CASE ~ changed
    <3>1. pc' = "write" /\ changed' = FALSE
          /\ job' = [to |-> Conf, lines |-> Contents(user), min |-> FALSE, by |-> "tool"]
      BY <1>8, <2>3 DEF EndPass, Put
    <3>2. UNCHANGED <<user, conf_filename, disk, old, torn, kept, runs, ops, faults>>
      BY <1>8, <2>3 DEF EndPass, Put, files
    <3>3. job'.lines \in Written(user)
      BY <3>1 DEF Written
    <3> QED BY <2>1, <3>1, <3>2, <3>3, AtFirst DEF TypeOK
  <2> QED BY <2>2, <2>3
<1>9. CASE BeginWrite
  <2>1. CASE ContentsEq
    BY <1>9, <2>1, SavedType DEF BeginWrite, TypeOK, files
  <2>2. CASE ~ ContentsEq
    BY <1>9, <2>2 DEF BeginWrite, SaveOld, TypeOK, program
  <2> QED BY <2>1, <2>2
<1>10. CASE OpenFile
  BY <1>10 DEF OpenFile, TypeOK, program
<1>11. CASE WriteData
  <2>1. PICK u \in Users : job.lines \in Written(u)
    BY <1>11 DEF WriteData, TypeOK
  <2>2. Len(job.lines) \in Nat
    BY <2>1, WrittenIsFile
  <2> QED BY <1>11, <2>2, SavedType DEF WriteData, TypeOK
<1>12. ASSUME Tear, pc \in {"write", "open", "data"} \/ disk' = disk
       PROVE  /\ DOMAIN disk' = Names /\ DOMAIN old' = Names /\ DOMAIN torn' = Names /\ DOMAIN kept' = Names
              /\ \A n \in Names : disk'[n] # Absent => Len(disk'[n]) \in Nat
              /\ runs' \in Nat /\ ops' \in Nat /\ faults' \in Nat
  <2>1. CASE pc = "data"
    <3>1. PICK f \in Cuts(job.lines) : disk' = [disk EXCEPT ![job.to] = f]
      BY <1>12, <2>1 DEF Tear
    <3>2. PICK u \in Users : job.lines \in Written(u)
      BY <2>1 DEF TypeOK
    <3>3. Len(f) \in Nat
      BY <3>1, <3>2, WrittenIsFile, CutsHaveLength
    <3> QED BY <1>12, <3>1, <3>3 DEF Tear, TypeOK
  <2>2. CASE pc # "data"
    BY <1>12, <2>2 DEF Tear, TypeOK
  <2> QED BY <2>1, <2>2
<1>13. CASE Kill
  <2>1. pc \in {"write", "open", "data"} \/ disk' = disk
    BY <1>13 DEF Kill, Tear
  <2> QED BY <1>12, <1>13, <2>1, ExitType DEF Kill, TypeOK
<1>14. CASE Fail
  <2>1. CASE job.by = "tool"
    BY <1>12, <1>14, <2>1, ExitType DEF Fail, TypeOK
  <2>2. CASE job.by # "tool"
    <3>1. job' = NoJob /\ pc' = "menu" /\ UNCHANGED program
      BY <1>14, <2>2 DEF Fail
    <3> QED BY <1>12, <1>14, <3>1, AtFirst DEF Fail, TypeOK, program, NoJob
  <2> QED BY <2>1, <2>2
<1>15. ASSUME NEW f \in Names, Rewrite(f) PROVE TypeOK'
  <2>1. user' \in Users
    BY <1>15, LoadNewIsUser DEF Rewrite, TypeOK
  <2> QED BY <1>15, <2>1, AtFirst DEF Rewrite, Start, Put, Written, TypeOK, files
<1>16. ASSUME NEW f \in Names, LoadDialog(f) PROVE TypeOK'
  <2>1. user' \in Users
    BY <1>16, LoadIsUser DEF LoadDialog, TypeOK
  <2>2. changed' \in BOOLEAN
    BY <1>16 DEF LoadDialog, NeedsSave
  <2> QED BY <1>16, <2>1, <2>2 DEF LoadDialog, InMenu, TypeOK, files
<1>17. ASSUME NEW f \in Names, NEW min \in BOOLEAN, SaveDialog(f, min) PROVE TypeOK'
  BY <1>17 DEF SaveDialog, InMenu, Put, Written, TypeOK, program, files
<1>18. ASSUME NEW i \in Items, NEW v, Edit(i, v) PROVE TypeOK'
  <2>1. user' \in Users
    BY <1>18, GiveIsUser, GiveModeIsUser DEF Edit, Chosen, TypeOK, Items
  <2> QED BY <1>18, <2>1 DEF Edit, InMenu, TypeOK, files
<1>19. ASSUME NEW f \in Names, NEW base \in {Blank, AllNo}, AllConfig(base, f) PROVE TypeOK'
  <2>1. user' \in Users
    BY <1>19, BlankIsUser, AllNoIsUser, MergeIsUser DEF AllConfig, TypeOK
  <2> QED BY <1>19, <2>1, AtFirst DEF AllConfig, Start, Put, Written, TypeOK, files
<1>20. CASE UNCHANGED vars
  BY <1>20 DEF vars, program, files, TypeOK
<1> QED
  BY <1>1, <1>2, <1>3, <1>4, <1>5, <1>6, <1>7, <1>8, <1>9, <1>10, <1>11, <1>13,
     <1>14, <1>15, <1>16, <1>17, <1>18, <1>19, <1>20 DEF Next, Oldconfig

(* The programs keep to their types: above all, what load_config, the keys of
   menuconfig and the answers of oldconfig make are user values, and what is
   being written is what write_config or write_min_config makes of some.      *)
THEOREM TypeCorrect == Spec => []TypeOK
<1> QED BY TypeInit, TypeStep, PTL DEF Spec

-----------------------------------------------------------------------------
(* oldconfig asks everything *)

(* In a pass in which no answer changed a value, what is behind the cursor is
   not asked for any more.                                                    *)
AskedInv ==
    pc = "ask" /\ ~ changed =>
        \A k \in 1 .. cursor - 1 : ~ Asks(Order[k], user)

LEMMA AskedStep == TypeOK /\ AskedInv /\ [Next]_vars => AskedInv'
<1> SUFFICES ASSUME TypeOK, AskedInv, [Next]_vars, pc' = "ask", ~ changed'
             PROVE  \A k \in 1 .. cursor' - 1 : ~ Asks(Order[k], user')
  BY DEF AskedInv
<1>1. CASE StartOldconfig
  BY <1>1 DEF StartOldconfig
<1>2. CASE AnswerSymbol
  <2> DEFINE s == Order[cursor]
  <2>1. s \in Symbols /\ AsksSymbol(s, user) /\ pc = "ask" /\ cursor' = cursor + 1
    BY <1>2 DEF AnswerSymbol
  <2>2. PICK v \in Accepts[s] : user' = Give(user, s, v)
    BY <1>2 DEF AnswerSymbol
  <2>3. ~ changed /\ Value(user')[s] = Value(user)[s]
    BY <1>2 DEF AnswerSymbol
  <2>4. \A i \in Items : Asks(i, user') => Asks(i, user)
    BY <2>1, <2>2, <2>3, AnswersAssumption DEF TypeOK
  <2>5. ~ Asks(s, user')
    <3>1. s \notin ChoiceSet /\ v # NoValue /\ ChoiceOf[s] \in ChoiceSet \cup {NoValue}
      BY <2>1, FilesAssumption DEF Items
    <3>2. user'.val[s] = v
      BY <2>1, <2>2, <3>1 DEF Give, TypeOK, Users
    <3> QED BY <3>1, <3>2 DEF Asks, AsksSymbol
  <2>6. ASSUME NEW k \in 1 .. cursor' - 1 PROVE ~ Asks(Order[k], user')
    <3>1. CASE k = cursor
      BY <2>5, <3>1
    <3>2. CASE k # cursor
      <4>1. k \in 1 .. cursor - 1 /\ k \in 1 .. Len(Order)
        BY <2>1, <3>2, FilesAssumption DEF TypeOK
      <4>2. Order[k] \in Items
        BY <4>1, FilesAssumption
      <4> QED BY <2>1, <2>3, <2>4, <4>1, <4>2 DEF AskedInv
    <3> QED BY <3>1, <3>2
  <2> QED BY <2>6
<1>3. CASE AnswerChoice
  <2> DEFINE c == Order[cursor]
  <2>1. c \in ChoiceSet /\ AsksChoice(c, user) /\ pc = "ask" /\ cursor' = cursor + 1
    BY <1>3 DEF AnswerChoice
  <2>2. PICK s \in Options(c, user) : user' = Picked(user, c, s) /\ Value(user)[s] = 2
    BY <1>3 DEF AnswerChoice
  <2>3. ~ changed
    BY <1>3 DEF AnswerChoice
  <2>4. \A i \in Items : Asks(i, user') => i # c /\ Asks(i, user)
    BY <2>1, <2>2, AnswersAssumption DEF TypeOK
  <2>5. ASSUME NEW k \in 1 .. cursor' - 1 PROVE ~ Asks(Order[k], user')
    <3>1. CASE k = cursor
      BY <2>1, <2>4, <3>1 DEF Items
    <3>2. CASE k # cursor
      <4>1. k \in 1 .. cursor - 1 /\ k \in 1 .. Len(Order)
        BY <2>1, <3>2, FilesAssumption DEF TypeOK
      <4>2. Order[k] \in Items
        BY <4>1, FilesAssumption
      <4> QED BY <2>1, <2>3, <2>4, <4>1, <4>2 DEF AskedInv
    <3> QED BY <3>1, <3>2
  <2> QED BY <2>5
<1>4. CASE Skip
  <2>1. pc = "ask" /\ cursor' = cursor + 1 /\ UNCHANGED <<user, changed>>
        /\ ~ Asks(Order[cursor], user)
    BY <1>4 DEF Skip
  <2>2. ASSUME NEW k \in 1 .. cursor' - 1 PROVE ~ Asks(Order[k], user')
    <3>1. k = cursor \/ k \in 1 .. cursor - 1
      BY <2>1 DEF TypeOK
    <3> QED BY <2>1, <3>1 DEF AskedInv
  <2> QED BY <2>2
<1>5. CASE EndPass
  BY <1>5 DEF EndPass
<1>6. CASE UNCHANGED vars
  BY <1>6 DEF vars, program, AskedInv
<1>7. CASE Fail \/ Kill \/ Quit
  BY <1>7 DEF Fail, Kill, Quit, Exit
<1>8. CASE BeginWrite \/ WriteData
  BY <1>8 DEF BeginWrite, WriteData, Saved, Exit
<1>9. CASE \/ StartMenu \/ QuitAndSave \/ OpenFile
           \/ \E f \in Names : Rewrite(f) \/ LoadDialog(f)
           \/ \E f \in Names : AllConfig(Blank, f) \/ AllConfig(AllNo, f)
           \/ \E f \in Names, min \in BOOLEAN : SaveDialog(f, min)
           \/ \E i \in Items : \E v \in Choosable(View(user), i) : Edit(i, v)
  BY <1>9 DEF StartMenu, QuitAndSave, OpenFile, Rewrite, AllConfig, LoadDialog, SaveDialog, Edit, Put,
     InMenu
<1> QED
  BY <1>1, <1>2, <1>3, <1>4, <1>5, <1>6, <1>7, <1>8, <1>9 DEF Next, Oldconfig

(* oldconfig writes when nothing is left that it would ask, whatever was
   answered before: the pass that changes nothing has looked at every node
   with the user values that are written (oldconfig.py:50).                 *)
THEOREM EverythingAsked == Spec => AllAsked
<1> DEFINE Good == pc = "ask" /\ pc' = "write" => \A i \in Items : ~ Asks(i, user)
<1>1. Init => AskedInv
  BY DEF Init, AskedInv
<1>2. TypeOK /\ AskedInv /\ [Next]_vars => Good
  <2> SUFFICES ASSUME TypeOK, AskedInv, Next, pc = "ask", pc' = "write", NEW i \in Items
               PROVE  ~ Asks(i, user)
    BY DEF vars
  <2>1. EndPass
    BY DEF Next, Oldconfig, StartMenu, StartOldconfig, Start, Quit, Exit, QuitAndSave, Step,
       AnswerSymbol, AnswerChoice, Skip, BeginWrite, OpenFile, WriteData, Kill, Fail,
       Rewrite, AllConfig, LoadDialog, SaveDialog, Edit, InMenu
  <2>2. ~ changed /\ cursor > Len(Order)
    BY <2>1 DEF EndPass, Step
  <2>3. PICK k \in 1 .. Len(Order) : i = Order[k]
    BY FilesAssumption DEF ToSet
  <2>4. k \in 1 .. cursor - 1
    BY <2>2, <2>3, FilesAssumption DEF TypeOK
  <2> QED BY <2>2, <2>3, <2>4 DEF AskedInv
<1>3. TypeOK /\ AskedInv /\ [Next]_vars => [Good]_vars
  BY <1>2
<1> QED BY <1>1, <1>3, TypeInit, TypeStep, AskedStep, PTL DEF Spec, AllAsked

-----------------------------------------------------------------------------
(* Files that were not written to their end *)

(* Most steps are not about the files. *)
LEMMA Elsewhere ==
    ASSUME Next
    PROVE  \/ BeginWrite \/ OpenFile \/ WriteData \/ Kill \/ Fail
           \/ /\ UNCHANGED files /\ UNCHANGED faults
              /\ pc \notin {"write", "open", "data"} /\ pc' \notin {"open", "data"}
              /\ pc = "idle" /\ pc' = "menu" => StartMenu
BY DEF Next, Oldconfig, StartMenu, StartOldconfig, Start, Quit, Exit, QuitAndSave, Step,
   AnswerSymbol, AnswerChoice, Skip, EndPass, Rewrite, AllConfig, LoadDialog, SaveDialog, Edit, InMenu,
   Put, files

(* A write that did not end was to write what is in torn, and left no file,
   or part of it.                                                           *)
TornInv ==
    /\ pc = "data" => torn[job.to] = [lines |-> job.lines, min |-> job.min]
    /\ \A n \in Names : torn[n] # Whole =>
          /\ \E u \in Users : torn[n].lines \in Written(u)
          /\ \/ pc = "data" /\ job.to = n
             \/ disk[n] = Absent
             \/ disk[n] \in Cuts(torn[n].lines)

LEMMA TornStep == TypeOK /\ TornInv /\ [Next]_vars => TornInv'
<1> SUFFICES ASSUME TypeOK, TornInv, [Next]_vars PROVE TornInv'
  OBVIOUS
<1>1. CASE BeginWrite
  <2>1. CASE ContentsEq
    <3>1. UNCHANGED files /\ pc = "write" /\ pc' # "data"
      BY <1>1, <2>1 DEF BeginWrite, Saved, Exit
    <3> QED BY <3>1 DEF TornInv, files
  <2>2. CASE ~ ContentsEq /\ (job.min \/ disk[job.to] = Absent)
    <3>1. UNCHANGED <<disk, torn, job>> /\ pc = "write" /\ pc' = "open"
      BY <1>1, <2>2 DEF BeginWrite, SaveOld
    <3> QED BY <3>1 DEF TornInv
  <2>3. CASE ~ ContentsEq /\ ~ job.min /\ disk[job.to] # Absent
    <3>1. /\ disk' = [disk EXCEPT ![job.to] = Absent]
          /\ torn' = [torn EXCEPT ![job.to] = [lines |-> job.lines, min |-> FALSE]]
          /\ pc = "write" /\ pc' = "open"
      BY <1>1, <2>3 DEF BeginWrite, SaveOld
    <3>2. PICK u \in Users : job.lines \in Written(u)
      BY <3>1 DEF TypeOK
    <3> QED BY <3>1, <3>2 DEF TornInv, TypeOK
  <2> QED BY <2>1, <2>2, <2>3
<1>2. CASE OpenFile
  <2>1. /\ disk' = [disk EXCEPT ![job.to] = <<>>]
        /\ torn' = [torn EXCEPT ![job.to] = [lines |-> job.lines, min |-> job.min]]
        /\ pc = "open" /\ pc' = "data" /\ UNCHANGED job
    BY <1>2 DEF OpenFile
  <2>2. PICK u \in Users : job.lines \in Written(u)
    BY <2>1 DEF TypeOK
  <2> QED BY <2>1, <2>2 DEF TornInv, TypeOK
<1>3. CASE WriteData
  <2>1. /\ disk' = [disk EXCEPT ![job.to] = job.lines]
        /\ torn' = [torn EXCEPT ![job.to] = Whole]
        /\ pc' # "data"
    BY <1>3 DEF WriteData, Saved, Exit
  <2> QED BY <2>1 DEF TornInv, TypeOK
<1>4. CASE Kill \/ Fail
  <2>1. UNCHANGED torn /\ pc' # "data" /\ Tear
    BY <1>4 DEF Kill, Fail, Tear, Exit
  <2>2. CASE pc = "data"
    <3>1. PICK f \in Cuts(job.lines) : disk' = [disk EXCEPT ![job.to] = f]
      BY <2>1, <2>2 DEF Tear
    <3> QED BY <2>1, <2>2, <3>1 DEF TornInv, TypeOK
  <2>3. CASE pc # "data"
    <3>1. UNCHANGED disk
      BY <2>1, <2>3 DEF Tear
    <3> QED BY <2>1, <2>3, <3>1 DEF TornInv
  <2> QED BY <2>2, <2>3
<1>5. CASE UNCHANGED files /\ pc \notin {"write", "open", "data"} /\ pc' \notin {"open", "data"}
  BY <1>5 DEF TornInv, files
<1>6. CASE UNCHANGED vars
  BY <1>6 DEF TornInv, vars, files
<1> QED BY <1>1, <1>2, <1>3, <1>4, <1>5, <1>6, Elsewhere

(* A .config that lost lines when it was written is not taken for up to date
   by menuconfig, however many writes went wrong (menuconfig.py:749): what is
   left of it is no file that write_config makes.                            *)
THEOREM LossIsNoticed == Spec => TornNoticed
<1> DEFINE Lost == /\ pc = "idle" /\ pc' = "menu" /\ torn[Conf] # Whole
                   /\ disk[Conf] = Absent \/ Len(disk[Conf]) < Len(torn[Conf].lines)
<1>1. Init => TornInv
  BY DEF Init, TornInv
<1>2. TypeOK /\ TornInv /\ [Next]_vars => [Lost => changed']_vars
  <2> SUFFICES ASSUME TypeOK, TornInv, Next, Lost PROVE changed'
    BY DEF vars
  <2>1. StartMenu
    BY Elsewhere DEF BeginWrite, OpenFile, WriteData, Kill, Fail
  <2>2. CASE disk[Conf] = Absent
    BY <2>1, <2>2 DEF StartMenu
  <2>3. CASE disk[Conf] # Absent
    <3>1. PICK u \in Users : torn[Conf].lines \in Written(u)
      BY AtFirst DEF TornInv
    <3>2. disk[Conf] \in Cuts(torn[Conf].lines)
      BY <2>3, AtFirst DEF TornInv
    <3>3. NeedsSave(LoadNew(disk[Conf]), disk[Conf])
      BY <2>3, <3>1, <3>2, CutsAssumption
    <3> QED BY <2>1, <3>3 DEF StartMenu
  <2> QED BY <2>2, <2>3
<1> QED BY <1>1, <1>2, TypeInit, TypeStep, TornStep, PTL DEF Spec, TornNoticed

(* A file that nobody writes is whole, and has an older one only behind it. *)
Settled(n) == torn[n] = Whole /\ kept[n] = disk[n] /\ (disk[n] = Absent => old[n] = Absent)
Writing(n) == pc \in {"open", "data"} /\ job.to = n

OldInv ==
    /\ faults = 0 =>
          /\ \A n \in Names : ~ Writing(n) => Settled(n)
          /\ pc = "open" /\ job.min => Settled(job.to)
          /\ pc \in {"open", "data"} /\ ~ job.min => old[job.to] = kept[job.to]
          /\ pc = "data" => torn[job.to].min = job.min
    /\ \A n \in Names :
          (faults = 0 \/ ~ Writing(n)) /\ ~ torn[n].min => old[n] = kept[n]

LEMMA OldStep ==
    ASSUME MaxFaults = 1
    PROVE  TypeOK /\ OldInv /\ [Next]_vars => OldInv'
<1> SUFFICES ASSUME TypeOK, OldInv, [Next]_vars PROVE OldInv'
  OBVIOUS
<1>0. Whole.min
  BY DEF Whole
<1>1. CASE BeginWrite
  <2>1. CASE ContentsEq
    <3>1. UNCHANGED files /\ UNCHANGED faults /\ pc = "write" /\ pc' \notin {"open", "data"}
      BY <1>1, <2>1 DEF BeginWrite, Saved, Exit
    <3> QED BY <3>1 DEF OldInv, Settled, Writing, files
  <2>2. CASE ~ ContentsEq /\ (job.min \/ disk[job.to] = Absent)
    <3>1. UNCHANGED <<disk, old, torn, kept, job, faults>> /\ pc = "write" /\ pc' = "open"
      BY <1>1, <2>2 DEF BeginWrite, SaveOld
    <3> QED BY <1>0, <2>2, <3>1 DEF OldInv, Settled, Writing, TypeOK
  <2>3. CASE ~ ContentsEq /\ ~ job.min /\ disk[job.to] # Absent
    <3>1. /\ old' = [old EXCEPT ![job.to] = disk[job.to]]
          /\ disk' = [disk EXCEPT ![job.to] = Absent]
          /\ torn' = [torn EXCEPT ![job.to] = [lines |-> job.lines, min |-> FALSE]]
          /\ pc = "write" /\ pc' = "open" /\ UNCHANGED <<job, kept, faults>>
      BY <1>1, <2>3 DEF BeginWrite, SaveOld
    <3> QED BY <2>3, <3>1 DEF OldInv, Settled, Writing, TypeOK
  <2> QED BY <2>1, <2>2, <2>3
<1>2. CASE OpenFile
  <2>1. /\ disk' = [disk EXCEPT ![job.to] = <<>>]
        /\ torn' = [torn EXCEPT ![job.to] = [lines |-> job.lines, min |-> job.min]]
        /\ pc = "open" /\ pc' = "data" /\ UNCHANGED <<job, old, kept, faults>>
    BY <1>2 DEF OpenFile
  <2> QED BY <2>1 DEF OldInv, Settled, Writing, TypeOK
<1>3. CASE WriteData
  <2>1. /\ disk' = [disk EXCEPT ![job.to] = job.lines]
        /\ torn' = [torn EXCEPT ![job.to] = Whole]
        /\ kept' = [kept EXCEPT ![job.to] = job.lines]
        /\ pc = "data" /\ pc' \notin {"open", "data"} /\ UNCHANGED <<old, faults>>
    BY <1>3 DEF WriteData, Saved, Exit
  <2>2. job.lines # Absent
    BY <2>1, WrittenIsFile DEF TypeOK
  <2> QED BY <1>0, <2>1, <2>2 DEF OldInv, Settled, Writing, TypeOK
<1>4. CASE Kill \/ Fail
  <2>1. UNCHANGED <<old, torn, kept>> /\ faults = 0 /\ faults' = 1 /\ pc' \notin {"open", "data"}
    BY <1>4 DEF Kill, Fail, Tear, Exit, TypeOK
  <2> QED BY <2>1 DEF OldInv, Writing
<1>5. CASE /\ UNCHANGED files /\ UNCHANGED faults
           /\ pc \notin {"write", "open", "data"} /\ pc' \notin {"open", "data"}
  BY <1>5 DEF OldInv, Settled, Writing, files
<1>6. CASE UNCHANGED vars
  BY <1>6 DEF OldInv, Settled, Writing, vars, files
<1> QED BY <1>1, <1>2, <1>3, <1>4, <1>5, <1>6, Elsewhere

(* After one kill or failed write the last whole .config is in .config.old,
   for any Kconfig, files and number of programs (kconfiglib.py:6396).        *)
THEOREM OldFileKept ==
    ASSUME MaxFaults = 1
    PROVE  Spec => []OldKept
<1>1. Init => OldInv
  BY FilesAssumption DEF Init, OldInv, Settled, Writing, Whole
<1>2. OldInv => OldKept
  BY DEF OldInv, OldKept, Writing
<1>3. TypeOK /\ OldInv /\ [Next]_vars => OldInv'
  BY OldStep
<1> QED BY <1>1, <1>2, <1>3, TypeInit, TypeStep, PTL DEF Spec

-----------------------------------------------------------------------------
(* Loading over what was there *)

(* The types of choices that this repository's Kconfig files use.  For a
   tristate choice the lemma is false: the run kconfig_load shows it.      *)
BoolChoices == \A c \in ChoiceSet : Accepts[c] = {0, 2}

Agree(g, h, S) ==
    /\ \A s \in Symbols \cap S : g.val[s] = h.val[s]
    /\ \A c \in ChoiceSet \cap S : g.mode[c] = h.mode[c] /\ g.sel[c] = h.sel[c]

(* A line makes the items that it marks the same, and leaves what was. *)
LEMMA LineAgrees ==
    ASSUME BoolChoices, NEW g \in Users, NEW h \in Users, NEW S, Agree(g, h, S), NEW line
    PROVE  Agree(ReadLine(g, line), ReadLine(h, line), S \cup Marked(line))
<1> DEFINE s == line[1]
           v == line[2]
           c == ChoiceOf[s]
<1>1. CASE ~ Known(line)
  BY <1>1 DEF ReadLine, Marked
<1>2. CASE Known(line) /\ v \notin Accepts[s]
  BY <1>2 DEF ReadLine, Marked, Give
<1>3. CASE Known(line) /\ v \in Accepts[s]
  <2>1. s \in Symbols /\ c \in ChoiceSet \cup {NoValue} /\ s \notin ChoiceSet
    BY <1>3, FilesAssumption DEF Known
  <2>2. CASE c # NoValue /\ v # 0 /\ v = 2
    <3>1. c \in ChoiceSet /\ Accepts[c] = {0, 2} /\ c \notin Symbols
      BY <2>1, <2>2, FilesAssumption DEF BoolChoices
    <3>2. Marked(line) = {s, c}
      BY <1>3, <2>2 DEF Marked
    <3>3. ASSUME NEW w \in Users
          PROVE  ReadLine(w, line) =
                   [val |-> [w.val EXCEPT ![s] = v], mode |-> [w.mode EXCEPT ![c] = v],
                    sel |-> [w.sel EXCEPT ![c] = s]]
      BY <1>3, <2>1, <2>2, <3>1 DEF ReadLine, Give, GiveMode, Users
    <3> QED BY <2>1, <3>1, <3>2, <3>3 DEF Agree, Users
  <2>3. CASE ~ (c # NoValue /\ v # 0 /\ v = 2)
    <3>1. Marked(line) = {s}
      BY <1>3, <2>1, <2>3 DEF Marked, BoolChoices
    <3>2. ASSUME NEW w \in Users
          PROVE  ReadLine(w, line) =
                   [val |-> [w.val EXCEPT ![s] = v], mode |-> w.mode, sel |-> w.sel]
      BY <1>3, <2>1, <2>3 DEF ReadLine, Give, GiveMode, Users, BoolChoices
    <3> QED BY <2>1, <3>1, <3>2 DEF Agree, Users
  <2> QED BY <2>2, <2>3
<1> QED BY <1>1, <1>2, <1>3

MarkedUpTo(f, n) == UNION {Marked(f[k]) : k \in 1 .. n}

LEMMA ReadsAgree ==
    ASSUME BoolChoices, NEW u \in Users, NEW w \in Users, NEW f, NEW n \in Nat,
           NEW g, Reads(g, u, f, n), NEW h, Reads(h, w, f, n)
    PROVE  Agree(g[n], h[n], MarkedUpTo(f, n))
<1> DEFINE Bad == {m \in 0 .. n : ~ Agree(g[m], h[m], MarkedUpTo(f, m))}
<1>1. ASSUME Bad # {} PROVE FALSE
  <2>0. Bad \in SUBSET Nat
    OBVIOUS
  <2>1. PICK m \in Bad : \A k \in Bad : m <= k
    <3> HIDE DEF Bad
    <3> QED BY <1>1, <2>0, Least
  <2>2. m \in 0 .. n /\ ~ Agree(g[m], h[m], MarkedUpTo(f, m))
    BY <2>1
  <2>3. CASE m = 0
    <3>1. MarkedUpTo(f, 0) = {}
      BY DEF MarkedUpTo
    <3> QED BY <2>2, <2>3, <3>1 DEF Agree
  <2>4. CASE m # 0
    <3>1. m - 1 \in 0 .. n /\ m - 1 \in Nat /\ m - 1 \notin Bad
      BY <2>1, <2>2, <2>4
    <3>2. Agree(g[m - 1], h[m - 1], MarkedUpTo(f, m - 1))
      BY <3>1
    <3>3. g[m] = ReadLine(g[m - 1], f[m]) /\ h[m] = ReadLine(h[m - 1], f[m])
      BY <2>2, <2>4 DEF Reads
    <3>4. Reads([k \in 0 .. m - 1 |-> g[k]], u, f, m - 1)
          /\ Reads([k \in 0 .. m - 1 |-> h[k]], w, f, m - 1)
      <4>1. \A k \in 0 .. m - 1 : /\ k \in 0 .. n
                                  /\ k # 0 => k - 1 \in 0 .. m - 1
        BY <2>2, <2>4
      <4> QED BY <4>1 DEF Reads
    <3>5. g[m - 1] \in Users /\ h[m - 1] \in Users
      <4>1. /\ [k \in 0 .. m - 1 |-> g[k]][m - 1] \in Users
            /\ [k \in 0 .. m - 1 |-> h[k]][m - 1] \in Users
        BY <3>1, <3>4, ReadsAreUsers
      <4> QED BY <3>1, <4>1
    <3>6. MarkedUpTo(f, m) = MarkedUpTo(f, m - 1) \cup Marked(f[m])
      <4>1. \A k : k \in 1 .. m <=> k \in 1 .. m - 1 \/ k = m
        BY <2>2, <2>4
      <4> QED BY <4>1 DEF MarkedUpTo
    <3> QED BY <2>2, <3>2, <3>3, <3>5, <3>6, LineAgrees
  <2> QED BY <2>3, <2>4
<1> QED BY <1>1

(* A replacing load_config forgets what was there. *)
LEMMA LoadForgets ==
    ASSUME BoolChoices, NEW u \in Users, NEW f, Len(f) \in Nat, DOMAIN f = 1 .. Len(f)
    PROVE  Load(u, f) = Load(Blank, f)
<1> DEFINE n == Len(f)
           g == CHOOSE r : Reads(r, u, f, n)
           h == CHOOSE r : Reads(r, Blank, f, n)
           set == MarkedUpTo(f, n)
<1>1. Reads(g, u, f, n) /\ Reads(h, Blank, f, n)
  BY ReadsExist
<1>2. Merge(u, f) = g[n] /\ Merge(Blank, f) = h[n]
  BY DEF Merge, Reads
<1>3. Agree(g[n], h[n], set)
  BY <1>1, BlankIsUser, ReadsAgree
<1>4. set = UNION {Marked(f[k]) : k \in DOMAIN f}
  BY DEF MarkedUpTo
<1> HIDE DEF g, h, set, n
<1>5. ASSUME NEW w, NEW r, Merge(w, f) = r
      PROVE  Load(w, f) =
        [val |-> [s \in Symbols |-> IF s \in set THEN r.val[s] ELSE NoValue],
         mode |-> [c \in ChoiceSet |-> IF c \in set THEN r.mode[c] ELSE NoValue],
         sel |-> [c \in ChoiceSet |-> IF c \in set THEN r.sel[c] ELSE NoValue]]
  BY <1>4, <1>5 DEF Load
<1> QED BY <1>2, <1>3, <1>5 DEF Agree

-----------------------------------------------------------------------------
(* Unsaved changes *)

(* menuconfig runs, or writes a file *)
Interactive == pc = "menu" \/ (pc \in {"write", "open", "data"} /\ job.by # "tool")

UpToDate ==
    Interactive /\ ~ changed /\ torn[conf_filename] = Whole =>
        disk[conf_filename] # Absent /\ Same(LoadNew(disk[conf_filename]), user)

(* What the save dialogs write is of the user values, which stay meanwhile. *)
JobInv ==
    pc \in {"write", "open", "data"} =>
        \/ job.by = "tool"
        \/ job.by = "quit" /\ changed
        \/ /\ job.by = "dialog"
           /\ \E u \in Users :
                u = user /\ job.lines = IF job.min THEN MinContents(u) ELSE Contents(u)

FilesAreSequences == \A n \in Names : disk[n] # Absent => DOMAIN disk[n] = 1 .. Len(disk[n])

UnsavedInv ==
    /\ FilesAreSequences
    /\ pc = "idle" => conf_filename = Conf
    /\ JobInv
    /\ UpToDate

LEMMA CutsAreSequences ==
    ASSUME NEW lines, lines \in Seq(ToSet(lines)), NEW f \in Cuts(lines)
    PROVE  DOMAIN f = 1 .. Len(f) /\ lines # <<>>
<1>1. CASE \E k \in 0 .. Len(lines) - 1 : f = SubSeq(lines, 1, k)
  BY <1>1
<1>2. CASE \E k \in DOMAIN lines : \E v \in CutValues(lines[k][2]) :
                f = Append(SubSeq(lines, 1, k - 1), <<lines[k][1], v>>)
  <2>0. PICK k \in DOMAIN lines : \E v \in CutValues(lines[k][2]) :
                f = Append(SubSeq(lines, 1, k - 1), <<lines[k][1], v>>)
    BY <1>2
  <2>1. PICK v \in CutValues(lines[k][2]) :
                f = Append(SubSeq(lines, 1, k - 1), <<lines[k][1], v>>)
    BY <2>0
  <2> DEFINE T == ToSet(lines) \cup {<<lines[k][1], v>>}
  <2>2. lines \in Seq(T) /\ k \in 1 .. Len(lines)
    BY <2>0
  <2>3. SubSeq(lines, 1, k - 1) \in Seq(T)
    BY <2>2
  <2>4. <<lines[k][1], v>> \in T
    OBVIOUS
  <2> HIDE DEF T
  <2> QED BY <2>1, <2>2, <2>3, <2>4
<1> QED BY <1>1, <1>2 DEF Cuts

(* The file a writer leaves holds the values that it wrote. *)
LEMMA WrittenIsLoaded ==
    ASSUME TypeOK, SavedIsLoaded, MinDerives, JobInv, job.by = "dialog",
           pc \in {"write", "open", "data"}
    PROVE  job.lines # Absent /\ Same(LoadNew(job.lines), user)
<1>1. job.lines = IF job.min THEN MinContents(user) ELSE Contents(user)
  BY DEF JobInv
<1>2. user \in Users
  BY DEF TypeOK
<1>3. job.lines # Absent
  BY <1>1, <1>2, WrittenIsFile DEF Written
<1>4. Same(Load(Blank, job.lines), user)
  BY <1>1 DEF SavedIsLoaded, MinDerives
<1> QED BY <1>3, <1>4 DEF LoadNew

(* The writer returns, and what it wrote is in the file. *)
LEMMA UnsavedSaved ==
    ASSUME TypeOK, SavedIsLoaded, MinDerives, UnsavedInv, pc \in {"write", "data"}, Saved,
           disk'[job.to] = job.lines,
           \A n \in Names : n # job.to => disk'[n] = disk[n] /\ torn'[n] = torn[n]
    PROVE  (pc' = "idle" => conf_filename' = Conf) /\ JobInv' /\ UpToDate'
<1>1. CASE job.by # "dialog"
  BY <1>1 DEF Saved, Exit, JobInv, UpToDate, Interactive
<1>2. CASE job.by = "dialog"
  <2>1. pc' = "menu" /\ user' = user
    BY <1>2 DEF Saved
  <2>2. job.lines # Absent /\ Same(LoadNew(job.lines), user)
    BY <1>2, WrittenIsLoaded DEF UnsavedInv
  <2>3. CASE conf_filename' = job.to
    BY <2>1, <2>2, <2>3 DEF JobInv, UpToDate, Same
  <2>4. CASE conf_filename' # job.to
    <3>1. UNCHANGED <<conf_filename, changed>>
      BY <1>2, <2>4 DEF Saved
    <3>2. conf_filename \in Names /\ conf_filename # job.to
      BY <2>4, <3>1 DEF TypeOK
    <3>3. ~ changed /\ torn[conf_filename] = Whole =>
             disk[conf_filename] # Absent /\ Same(LoadNew(disk[conf_filename]), user)
      BY <1>2 DEF UnsavedInv, UpToDate, Interactive
    <3>4. disk'[conf_filename] = disk[conf_filename] /\ torn'[conf_filename] = torn[conf_filename]
      BY <3>2
    <3> QED BY <2>1, <3>1, <3>3, <3>4 DEF JobInv, UpToDate, Same
  <2> QED BY <2>3, <2>4
<1> QED BY <1>1, <1>2

(* Until then the file is not whole, or has nothing to hold. *)
LEMMA UnsavedWrites ==
    ASSUME TypeOK, TornInv, SavedIsLoaded, MinDerives, UnsavedInv,
           BeginWrite \/ OpenFile \/ WriteData
    PROVE  UnsavedInv'
<1>0. job.to \in Names /\ DOMAIN disk = Names /\ DOMAIN torn = Names /\ Whole.min
  BY DEF TypeOK, Whole
<1>1. CASE BeginWrite /\ ContentsEq
  <2>1. pc = "write" /\ UNCHANGED files /\ Saved /\ disk[job.to] = job.lines
    BY <1>1 DEF BeginWrite, ContentsEq
  <2>2. UNCHANGED <<disk, torn>>
    BY <2>1 DEF files
  <2> QED BY <2>1, <2>2, UnsavedSaved DEF UnsavedInv, FilesAreSequences
<1>2. CASE BeginWrite /\ ~ ContentsEq
  <2>1. pc = "write" /\ pc' = "open" /\ UNCHANGED <<program, job>>
        /\ IF job.min THEN UNCHANGED <<disk, old, torn>> ELSE SaveOld
    BY <1>2 DEF BeginWrite
  <2>2. JobInv' /\ (Interactive' <=> Interactive)
    BY <2>1 DEF JobInv, UnsavedInv, Interactive, program
  <2>3. CASE UNCHANGED <<disk, torn>>
    BY <2>1, <2>2, <2>3 DEF UnsavedInv, FilesAreSequences, UpToDate, Same, program
  <2>4. CASE ~ UNCHANGED <<disk, torn>>
    <3>1. /\ disk' = [disk EXCEPT ![job.to] = Absent]
          /\ torn' = [torn EXCEPT ![job.to] = [lines |-> job.lines, min |-> FALSE]]
      BY <2>1, <2>4 DEF SaveOld
    <3>2. torn'[job.to] # Whole
      BY <1>0, <3>1
    <3>3. \A n \in Names : n # job.to => disk'[n] = disk[n] /\ torn'[n] = torn[n]
      BY <3>1
    <3>4. FilesAreSequences'
      BY <1>0, <3>1 DEF UnsavedInv, FilesAreSequences
    <3>5. UpToDate'
      BY <2>1, <2>2, <3>2, <3>3 DEF UnsavedInv, UpToDate, Same, program, TypeOK
    <3> QED BY <2>1, <2>2, <3>4, <3>5 DEF UnsavedInv
  <2> QED BY <2>3, <2>4
<1>3. CASE OpenFile
  <2>1. /\ disk' = [disk EXCEPT ![job.to] = <<>>]
        /\ torn' = [torn EXCEPT ![job.to] = [lines |-> job.lines, min |-> job.min]]
        /\ pc = "open" /\ pc' = "data" /\ UNCHANGED <<program, job>>
    BY <1>3 DEF OpenFile
  <2>2. JobInv' /\ (Interactive' <=> Interactive)
    BY <2>1 DEF JobInv, UnsavedInv, Interactive, program
  <2>3. FilesAreSequences'
    <3>1. DOMAIN <<>> = 1 .. Len(<<>>)
      OBVIOUS
    <3> QED BY <1>0, <2>1, <3>1 DEF UnsavedInv, FilesAreSequences
  <2>4. ASSUME Interactive, ~ changed, torn'[conf_filename] = Whole
        PROVE  disk'[conf_filename] # Absent /\ Same(LoadNew(disk'[conf_filename]), user)
    <3>1. CASE conf_filename = job.to
      <4>1. job.lines = <<>> /\ job.by = "dialog"
        BY <1>0, <2>1, <2>4, <3>1 DEF Whole, Interactive, JobInv, UnsavedInv
      <4>2. disk'[conf_filename] = job.lines
        BY <1>0, <2>1, <3>1, <4>1
      <4> QED BY <2>1, <4>1, <4>2, WrittenIsLoaded DEF UnsavedInv
    <3>2. CASE conf_filename # job.to
      <4>1. disk'[conf_filename] = disk[conf_filename] /\ torn'[conf_filename] = torn[conf_filename]
        BY <2>1, <3>2 DEF TypeOK
      <4> QED BY <2>4, <4>1 DEF UnsavedInv, UpToDate
    <3> QED BY <3>1, <3>2
  <2> QED BY <2>1, <2>2, <2>3, <2>4 DEF UnsavedInv, UpToDate, Same, program
<1>4. CASE WriteData
  <2>1. /\ disk' = [disk EXCEPT ![job.to] = job.lines]
        /\ torn' = [torn EXCEPT ![job.to] = Whole]
        /\ pc = "data" /\ Saved
    BY <1>4 DEF WriteData
  <2>2. disk'[job.to] = job.lines
        /\ \A n \in Names : n # job.to => disk'[n] = disk[n] /\ torn'[n] = torn[n]
    BY <1>0, <2>1
  <2>3. DOMAIN job.lines = 1 .. Len(job.lines)
    <3>1. PICK u \in Users : job.lines \in Written(u)
      BY <2>1 DEF TypeOK
    <3> QED BY <3>1, WrittenIsFile
  <2>4. FilesAreSequences'
    BY <1>0, <2>2, <2>3 DEF UnsavedInv, FilesAreSequences
  <2> QED BY <2>1, <2>2, <2>4, UnsavedSaved DEF UnsavedInv
<1> QED BY <1>1, <1>2, <1>3, <1>4

LEMMA UnsavedFaults ==
    ASSUME TypeOK, TornInv, UnsavedInv, Kill \/ Fail
    PROVE  UnsavedInv'
<1>1. UNCHANGED torn /\ Tear /\ pc' \in {"idle", "menu"}
  BY DEF Kill, Fail, Tear, Exit
<1>2. /\ FilesAreSequences'
      /\ pc = "data" => torn[job.to] # Whole
      /\ \A n \in Names : (pc = "data" /\ n = job.to) \/ disk'[n] = disk[n]
  <2>1. CASE pc = "data"
    <3>1. PICK f \in Cuts(job.lines) : disk' = [disk EXCEPT ![job.to] = f]
      BY <1>1, <2>1 DEF Tear
    <3>2. PICK u \in Users : job.lines \in Written(u)
      BY <2>1 DEF TypeOK
    <3>3. DOMAIN f = 1 .. Len(f) /\ job.lines # <<>>
      BY <3>2, WrittenIsFile, CutsAreSequences
    <3>4. torn[job.to] # Whole
      BY <2>1, <3>3 DEF TornInv, Whole
    <3>5. \A n \in Names : disk'[n] = IF n = job.to THEN f ELSE disk[n]
      BY <3>1 DEF TypeOK
    <3>6. FilesAreSequences'
      BY <3>3, <3>5 DEF UnsavedInv, FilesAreSequences
    <3> QED BY <2>1, <3>4, <3>5, <3>6
  <2>2. CASE pc # "data"
    <3>1. UNCHANGED disk
      BY <1>1, <2>2 DEF Tear
    <3> QED BY <2>2, <3>1 DEF UnsavedInv, FilesAreSequences
  <2> QED BY <2>1, <2>2
<1>3. CASE pc' = "idle"
  <2>1. Exit
    BY <1>3 DEF Kill, Fail
  <2> QED BY <1>2, <1>3, <2>1 DEF Exit, UnsavedInv, JobInv, UpToDate, Interactive
<1>4. CASE pc' = "menu"
  <2>1. pc \in {"open", "data"} /\ job.by # "tool" /\ UNCHANGED program
    BY <1>4 DEF Kill, Fail, Exit
  <2>2. Interactive /\ conf_filename \in Names
    BY <2>1 DEF Interactive, TypeOK
  <2>3. ASSUME ~ changed, torn[conf_filename] = Whole
        PROVE  disk'[conf_filename] # Absent /\ Same(LoadNew(disk'[conf_filename]), user)
    <3>1. disk'[conf_filename] = disk[conf_filename]
      BY <1>2, <2>2, <2>3
    <3> QED BY <2>2, <2>3, <3>1 DEF UnsavedInv, UpToDate
  <2> QED BY <1>1, <1>2, <1>4, <2>1, <2>3 DEF UnsavedInv, JobInv, UpToDate, Same, program
<1> QED BY <1>1, <1>3, <1>4

(* What a program does without writing. *)
LEMMA UnsavedElsewhere ==
    ASSUME BoolChoices, TypeOK, UnsavedInv, Next, ~ (BeginWrite \/ OpenFile \/ WriteData \/ Kill \/ Fail)
    PROVE  UnsavedInv'
<1>1. UNCHANGED files /\ pc \notin {"write", "open", "data"} /\ pc' \notin {"open", "data"}
  BY Elsewhere
<1>2. FilesAreSequences' /\ UNCHANGED <<disk, torn>>
  BY <1>1 DEF UnsavedInv, FilesAreSequences, files
<1>3. CASE StartMenu
  <2>1. /\ pc = "idle" /\ pc' = "menu" /\ conf_filename' = Conf /\ user' = LoadNew(disk[Conf])
        /\ changed' = (disk[Conf] = Absent \/ NeedsSave(user', disk[Conf]))
    BY <1>3 DEF StartMenu, Start, UnsavedInv
  <2> QED BY <1>2, <2>1 DEF UnsavedInv, JobInv, UpToDate, Same
<1>4. CASE Quit
  BY <1>2, <1>4 DEF Quit, Exit, UnsavedInv, JobInv, UpToDate, Interactive
<1>5. CASE QuitAndSave
  <2>1. pc' = "write" /\ job'.by = "quit" /\ changed /\ changed' = changed
    BY <1>5 DEF QuitAndSave, Put, program
  <2> QED BY <1>2, <2>1 DEF UnsavedInv, JobInv, UpToDate
<1>6. CASE \/ StartOldconfig \/ Oldconfig
           \/ \E f \in Names : Rewrite(f) \/ AllConfig(Blank, f) \/ AllConfig(AllNo, f)
  <2>1. /\ pc' \in {"ask", "write"}
        /\ pc' = "write" => job'.by = "tool"
    BY <1>6 DEF StartOldconfig, Oldconfig, AnswerSymbol, AnswerChoice, Skip, EndPass, Step,
       Rewrite, AllConfig, Put
  <2> QED BY <1>2, <2>1 DEF UnsavedInv, JobInv, UpToDate, Interactive
<1>7. ASSUME NEW f \in Names, LoadDialog(f) PROVE UnsavedInv'
  <2>1. /\ pc = "menu" /\ pc' = "menu" /\ disk[f] # Absent
        /\ user' = Load(user, disk[f]) /\ conf_filename' = f
    BY <1>7 DEF LoadDialog, InMenu
  <2>2. user' = LoadNew(disk[f])
    <3>1. Len(disk[f]) \in Nat /\ DOMAIN disk[f] = 1 .. Len(disk[f])
      BY <2>1 DEF TypeOK, UnsavedInv, FilesAreSequences
    <3> QED BY <2>1, <3>1, LoadForgets DEF TypeOK, LoadNew
  <2> QED BY <1>2, <2>1, <2>2 DEF UnsavedInv, JobInv, UpToDate, Same
<1>8. ASSUME NEW f \in Names, NEW min \in BOOLEAN, SaveDialog(f, min) PROVE UnsavedInv'
  <2>1. /\ pc = "menu" /\ pc' = "write" /\ UNCHANGED program /\ job'.by = "dialog"
        /\ job'.min = min
        /\ job'.lines = IF min THEN MinContents(user) ELSE Contents(user)
    BY <1>8 DEF SaveDialog, InMenu, Put
  <2>2. user' = user /\ user \in Users
    BY <2>1 DEF program, TypeOK
  <2>3. JobInv'
    BY <2>1, <2>2 DEF JobInv
  <2> QED BY <1>2, <2>1, <2>3 DEF UnsavedInv, UpToDate, Interactive, Same, program
<1>9. ASSUME NEW i \in Items, NEW v, Edit(i, v) PROVE UnsavedInv'
  <2>1. pc' = "menu" /\ changed'
    BY <1>9 DEF Edit, InMenu
  <2> QED BY <1>2, <2>1 DEF UnsavedInv, JobInv, UpToDate
<1> QED BY <1>3, <1>4, <1>5, <1>6, <1>7, <1>8, <1>9 DEF Next

(* menuconfig that counts no change as unsaved holds the values of its file,
   after any number of edits, loads and saves that fail or not
   (menuconfig.py:681, 1754): as far as what write_config and write_min_config
   write can be loaded again, which is for the tree to show.                  *)
THEOREM NothingUnsaved ==
    ASSUME BoolChoices
    PROVE  Spec /\ []SavedIsLoaded /\ []MinDerives => []Unsaved
<1>1. Init => UnsavedInv
  <2> SUFFICES ASSUME Init PROVE UnsavedInv
    OBVIOUS
  <2>1. FilesAreSequences
    BY ContentsAssumption DEF Init, FilesAreSequences, IsFile
  <2> QED BY <2>1 DEF Init, UnsavedInv, JobInv, UpToDate, Interactive
<1>2. TypeOK /\ TornInv /\ SavedIsLoaded /\ MinDerives /\ UnsavedInv /\ [Next]_vars => UnsavedInv'
  <2> SUFFICES ASSUME TypeOK, TornInv, SavedIsLoaded, MinDerives, UnsavedInv, [Next]_vars
               PROVE  UnsavedInv'
    OBVIOUS
  <2>1. CASE UNCHANGED vars
    BY <2>1 DEF vars, program, files, UnsavedInv, FilesAreSequences, JobInv, UpToDate,
       Interactive, Same
  <2>2. CASE Next
    BY <2>2, UnsavedWrites, UnsavedFaults, UnsavedElsewhere
  <2> QED BY <2>1, <2>2
<1>3. UnsavedInv => Unsaved
  BY DEF UnsavedInv, UpToDate, Interactive, Unsaved
<1>4. Init => TornInv
  BY DEF Init, TornInv
<1> QED BY <1>1, <1>2, <1>3, <1>4, TypeInit, TypeStep, TornStep, PTL DEF Spec
=============================================================================
