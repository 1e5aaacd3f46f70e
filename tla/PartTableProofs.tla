--------------------------- MODULE PartTableProofs ---------------------------
(* Proofs about PartTable, for any partition lists, flashes and units.      *)
EXTENDS PartTable, SequenceTheorems, TLAPS

Placing == <<tab, flash, pc, i, pos1, pos2, chip, rest, half, plan>>

\* Where main can be: what the counters point at.
Stage ==
  /\ flash \in Flashes /\ tab \in Tables[flash]
  /\ pc \in {"read", "tail", "redo", "write", "check", "emit", "done", "failed"}
  /\ i \in 0..(Len(tab) + 1)
  /\ pos1 \in Int /\ pos2 \in Int /\ chip \in Int
  /\ rest \in 0..Len(tab) /\ half \in 0..Len(tab)
  /\ plan \in [Entries -> [start : Int, size : Int]]
  /\ rest # 0 => tab[rest].rest
  /\ half # 0 => Emmc
  /\ pc = "read" => i >= 1 /\ rest < i /\ half < i
  /\ pc \in {"tail", "redo"} => rest # 0 /\ i >= rest /\ i <= Len(tab)
  /\ pc = "redo" => half = rest
  /\ pc \in {"check", "emit"} => i >= 1

LEMMA TabType ==
  ASSUME flash \in Flashes, tab \in Tables[flash]
  PROVE  /\ tab \in Seq(Line) /\ Len(tab) \in Nat /\ Entries = 1..Len(tab)
         /\ \A k \in Entries : /\ tab[k] \in Line
                               /\ tab[k].enhanced => Emmc
  <1>1. tab \in Seq(Line)
    BY TablesAssumption
  <1>2. Len(tab) \in Nat /\ DOMAIN tab = 1..Len(tab)
    BY <1>1
  <1>3. \A k \in 1..Len(tab) : tab[k] \in Line
    BY <1>1
  <1>4. \A k \in Entries : tab[k].enhanced => Emmc
    BY TablesAssumption DEF Entries, Emmc
  <1> QED
    BY <1>1, <1>2, <1>3, <1>4 DEF Entries

\* With the flash, the program and what it can use stay what they are.
LEMMA VariantByFlash ==
  ASSUME flash' = flash
  PROVE  (Emmc' <=> Emmc) /\ Usable(flash)' = Usable(flash)
  BY DEF Emmc, Usable

LEMMA VariantStays ==
  ASSUME \/ ReadLine \/ RejectLine \/ EndRead \/ PlaceHigh \/ PlaceRest \/ PlaceHalfRest
         \/ RedoHigh \/ EndRedo \/ RejectHigh \/ WritePartTable \/ CheckEntry \/ RejectOverlap
         \/ OpenFiles \/ EmitEntry \/ RejectPreboot \/ Finish \/ IoError \/ UNCHANGED vars
  PROVE  flash' = flash /\ (Emmc' <=> Emmc) /\ Usable(flash)' = Usable(flash)
  <1>1. flash' = flash
    BY DEF vars, ReadLine, RejectLine, EndRead, PlaceHigh, PlaceRest, PlaceHalfRest, RedoHigh,
      EndRedo, RejectHigh, WritePartTable, CheckEntry, RejectOverlap, OpenFiles, EmitEntry,
      RejectPreboot, Finish, IoError, Rejected, args
  <1> QED
    BY <1>1, VariantByFlash

LEMMA AsIntType ==
  ASSUME NEW x \in Int
  PROVE  AsInt(x) \in Int
  BY UnitAssumption DEF AsInt

LEMMA AsIntFits ==
  ASSUME NEW x \in Nat, x <= IntMax
  PROVE  AsInt(x) = x
  <1>1. (x + IntMax + 1) % (2 * IntMax + 2) = x + IntMax + 1
    BY UnitAssumption
  <1> QED
    BY <1>1, UnitAssumption DEF AsInt

LEMMA HalfType ==
  ASSUME NEW x \in Int
  PROVE  /\ Unsigned(x) \in Int /\ Half(x) \in Int
         /\ x >= 0 => Unsigned(x) = x /\ Half(x) >= 0 /\ 2 * Half(x) <= x
  BY UnitAssumption DEF Half, Unsigned

LEMMA LineType ==
  ASSUME NEW line \in Line
  PROVE  /\ SizeOf(line) \in Int /\ OffsetOf(line) \in Int /\ LowSize(line) \in Int
         /\ line.rest \in BOOLEAN /\ line.enhanced \in BOOLEAN
         /\ line.size \in Nat /\ line.at \in Nat
  <1>1. line.size \in Nat /\ line.at \in Nat /\ line.rest \in BOOLEAN /\ line.enhanced \in BOOLEAN
    BY DEF Line
  <1>2. SizeOf(line) \in Int /\ OffsetOf(line) \in Int
    BY <1>1, AsIntType DEF SizeOf, OffsetOf, Bytes
  <1>3. LowSize(line) \in Int
    BY <1>2, HalfType DEF LowSize
  <1> QED
    BY <1>1, <1>2, <1>3

\* The flash that can be used is an integer, and leaves the backup GPT alone.
LEMMA UsableType ==
  ASSUME NEW x \in Nat
  PROVE  /\ Usable(x) \in Int
         /\ Emmc => Usable(x) + MinBackup <= x
  <1>1. x % Reserve \in Nat
    BY ReserveAssumption
  <1> QED
    BY <1>1, ReserveAssumption DEF Usable, TailReserve

-----------------------------------------------------------------------------
\* What it is to put an entry into the table.
LEMMA PutType ==
  ASSUME plan \in [Entries -> [start : Int, size : Int]],
         NEW k \in Entries, NEW x \in Int, NEW y \in Int,
         plan' = [plan EXCEPT ![k] = [start |-> x, size |-> y]]
  PROVE  /\ plan' \in [Entries -> [start : Int, size : Int]]
         /\ plan'[k].start = x /\ plan'[k].size = y
         /\ \A j \in Entries : j # k => plan'[j] = plan[j]
  OBVIOUS

LEMMA StageInit == Init => Stage
  <1> SUFFICES ASSUME Init PROVE Stage
    OBVIOUS
  <1>1. chip \in Int
    BY UsableType, TablesAssumption DEF Init
  <1>2. Len(tab) \in Nat
    BY TabType DEF Init
  <1> QED
    BY <1>1, <1>2, ReserveAssumption DEF Init, Stage

LEMMA StageReadLine == Stage /\ ReadLine => Stage'
  <1> SUFFICES ASSUME Stage, ReadLine PROVE Stage'
    OBVIOUS
  <1> DEFINE line == tab[i]
  <1>1. /\ tab' = tab /\ i \in 1..Len(tab) /\ Len(tab) \in Nat /\ line \in Line
        /\ line.enhanced => Emmc
    BY TabType DEF Stage, ReadLine, InList, args
  <1>2. LowSize(line) \in Int /\ LowStart(line) \in Int /\ LowEnd(line) \in Int /\ LowChip(line) \in Int
    BY <1>1, LineType DEF Stage, LowStart, LowEnd, LowChip
  <1>3. /\ plan' \in [Entries' -> [start : Int, size : Int]]
        /\ pos1' \in Int /\ chip' \in Int
    <2>1. CASE Low(line)
      <3>1. /\ plan' = [plan EXCEPT ![i] = [start |-> LowStart(line), size |-> LowSize(line)]]
            /\ chip' = LowChip(line) /\ pos1' = LowEnd(line)
        BY <2>1 DEF ReadLine
      <3>2. i \in Entries /\ Entries' = Entries /\ plan \in [Entries -> [start : Int, size : Int]]
        BY <1>1 DEF Stage, Entries
      <3> QED
        BY <3>1, <3>2, <1>2, PutType
    <2>2. CASE ~Low(line)
      BY <1>1, <2>2 DEF ReadLine, Stage, Entries
    <2> QED BY <2>1, <2>2
  <1>4. pc' = "read" /\ i' = i + 1 /\ pos2' = pos2 /\ flash' = flash
    BY DEF ReadLine, InList, args
  <1>5. /\ rest' = (IF line.rest THEN i ELSE rest)
        /\ half' = (IF line.enhanced THEN i ELSE half)
    BY DEF ReadLine
  <1> QED
    BY <1>1, <1>3, <1>4, <1>5, VariantStays DEF Stage, ReadLine, InList

LEMMA StageEndRead == Stage /\ EndRead => Stage'
  <1> SUFFICES ASSUME Stage, EndRead PROVE Stage'
    OBVIOUS
  <1>1. Len(tab) \in Nat /\ Entries = 1..Len(tab)
    BY TabType DEF Stage
  <1> QED
    BY <1>1, VariantStays DEF Stage, EndRead, Entries, args

LEMMA StagePlaceHigh == Stage /\ PlaceHigh => Stage'
  <1> SUFFICES ASSUME Stage, PlaceHigh PROVE Stage'
    OBVIOUS
  <1> DEFINE line == tab[i]
  <1>0. Len(tab) \in Nat /\ Entries = 1..Len(tab) /\ \A k \in Entries : tab[k] \in Line
    BY TabType DEF Stage
  <1>1. /\ tab' = tab /\ i \in Entries /\ Len(tab) \in Nat /\ line \in Line
        /\ Entries = 1..Len(tab) /\ Entries' = Entries
    <2>1. i \in 1..Len(tab)
      BY <1>0 DEF Stage, PlaceHigh
    <2>2. tab' = tab /\ Entries' = Entries
      BY DEF PlaceHigh, args, Entries
    <2> QED
      BY <1>0, <2>1, <2>2
  <1>2. /\ HighSize(line) \in Int /\ HighStart(line) \in Int
        /\ HighEnd(line) \in Int /\ LowChip(line) \in Int
    BY <1>1, LineType DEF Stage, HighSize, HighStart, HighEnd, LowChip
  <1>3. plan' = [plan EXCEPT ![i] = [start |-> HighStart(line), size |-> HighSize(line)]]
    BY DEF PlaceHigh
  <1>4. plan' \in [Entries -> [start : Int, size : Int]]
    BY <1>1, <1>2, <1>3, PutType DEF Stage
  <1>5. pos2' \in Int /\ chip' \in Int
    BY <1>2 DEF PlaceHigh
  <1>6. i > rest /\ i' = i - 1 /\ pc = "tail"
    BY DEF PlaceHigh
  <1> QED
    BY <1>1, <1>4, <1>5, <1>6, VariantStays DEF Stage, PlaceHigh, args

\* The entry of the "-" gets what lies between.
LEMMA RestEntry ==
  ASSUME Stage, pc = "tail"
  PROVE  /\ rest \in Entries /\ Entries = 1..Len(tab) /\ Len(tab) \in Nat
         /\ pos2 - pos1 \in Int /\ Half(pos2 - pos1) \in Int
  <1>1. Len(tab) \in Nat /\ Entries = 1..Len(tab)
    BY TabType DEF Stage
  <1>2. pos2 - pos1 \in Int
    BY DEF Stage
  <1> QED
    BY <1>1, <1>2, HalfType DEF Stage

LEMMA StagePlaceRest == Stage /\ PlaceRest => Stage'
  <1> SUFFICES ASSUME Stage, PlaceRest PROVE Stage'
    OBVIOUS
  <1>1. plan' = [plan EXCEPT ![rest] = [start |-> pos1, size |-> pos2 - pos1]]
    BY DEF PlaceRest
  <1>2. Entries' = Entries /\ plan' \in [Entries -> [start : Int, size : Int]]
    BY <1>1, RestEntry, PutType DEF Stage, PlaceRest, args, Entries
  <1> QED
    BY <1>2, VariantStays DEF Stage, PlaceRest, args

LEMMA StagePlaceHalfRest == Stage /\ PlaceHalfRest => Stage'
  <1> SUFFICES ASSUME Stage, PlaceHalfRest PROVE Stage'
    OBVIOUS
  <1>1. plan' = [plan EXCEPT ![rest] = [start |-> pos1, size |-> Half(pos2 - pos1)]]
    BY DEF PlaceHalfRest
  <1>2. Entries' = Entries /\ plan' \in [Entries -> [start : Int, size : Int]]
    BY <1>1, RestEntry, PutType DEF Stage, PlaceHalfRest, args, Entries
  <1>3. chip' \in Int /\ pos2' \in Int
    BY RestEntry DEF Stage, PlaceHalfRest
  <1> QED
    BY <1>2, <1>3, RestEntry, VariantStays DEF Stage, PlaceHalfRest, args

LEMMA StageRedoHigh == Stage /\ RedoHigh => Stage'
  <1> SUFFICES ASSUME Stage, RedoHigh PROVE Stage'
    OBVIOUS
  <1> DEFINE line == tab[i]
  <1>0. Len(tab) \in Nat /\ Entries = 1..Len(tab) /\ \A k \in Entries : tab[k] \in Line
    BY TabType DEF Stage
  <1>1. /\ tab' = tab /\ i \in Entries /\ Len(tab) \in Nat /\ line \in Line
        /\ Entries = 1..Len(tab) /\ Entries' = Entries
    <2>1. i \in 1..Len(tab)
      BY <1>0 DEF Stage, RedoHigh
    <2>2. tab' = tab /\ Entries' = Entries
      BY DEF RedoHigh, args, Entries
    <2> QED
      BY <1>0, <2>1, <2>2
  <1>2. SizeOf(line) \in Int /\ OffsetOf(line) \in Int
    BY <1>1, LineType
  <1>3. plan' = [plan EXCEPT ![i] = [start |-> OffsetOf(line), size |-> SizeOf(line)]]
    BY DEF RedoHigh
  <1>4. plan' \in [Entries -> [start : Int, size : Int]]
    BY <1>1, <1>2, <1>3, PutType DEF Stage
  <1>5. pos2' \in Int /\ i > rest /\ i' = i - 1 /\ pc = "redo"
    BY <1>2 DEF RedoHigh, Stage
  <1> QED
    BY <1>1, <1>4, <1>5, VariantStays DEF Stage, RedoHigh, args

\* The other actions move no partition.
Describe ==
  \/ RejectLine \/ EndRedo \/ RejectHigh \/ WritePartTable \/ CheckEntry
  \/ RejectOverlap \/ OpenFiles \/ EmitEntry \/ RejectPreboot \/ Finish \/ IoError

LEMMA StageDescribe == Stage /\ Describe => Stage'
  <1> SUFFICES ASSUME Stage, Describe PROVE Stage'
    OBVIOUS
  <1>1. Len(tab) \in Nat /\ Entries = 1..Len(tab)
    BY TabType DEF Stage
  <1>2. tab' = tab /\ flash' = flash /\ Entries' = Entries /\ UNCHANGED place
    BY DEF Describe, RejectLine, EndRedo, RejectHigh, WritePartTable, CheckEntry,
      RejectOverlap, OpenFiles, EmitEntry, RejectPreboot, Finish, IoError, Rejected, args, Entries
  <1>3. /\ pc' \in {"write", "check", "emit", "done", "failed"}
        /\ i' \in 0..(Len(tab) + 1)
        /\ pc' \in {"check", "emit"} => i' >= 1
    BY <1>1 DEF Stage, Describe, RejectLine, EndRedo, RejectHigh, WritePartTable, CheckEntry,
      RejectOverlap, OpenFiles, EmitEntry, RejectPreboot, Finish, IoError, Rejected
  <1> QED
    BY <1>1, <1>2, <1>3, VariantByFlash DEF Stage, place

LEMMA StageNext == Stage /\ [Next]_vars => Stage'
  <1> SUFFICES ASSUME Stage, [Next]_vars PROVE Stage'
    OBVIOUS
  <1>1. CASE UNCHANGED vars
    BY <1>1, VariantStays DEF vars, args, place, Stage, Entries
  <1> QED
    BY <1>1, StageReadLine, StageEndRead, StagePlaceHigh, StagePlaceRest, StagePlaceHalfRest,
      StageRedoHigh, StageDescribe DEF Next, Describe

LEMMA NamesInv ==
  ASSUME Stage, Stage', [Next]_vars,
         back \in [Entries -> 0..Len(tab)], copies \subseteq Entries
  PROVE  back' \in [Entries' -> 0..Len(tab')] /\ copies' \subseteq Entries'
  <1>1. Len(tab) \in Nat /\ Entries = 1..Len(tab)
    BY TabType DEF Stage
  <1>2. tab' = tab /\ Entries' = Entries
    BY DEF Next, vars, ReadLine, RejectLine, EndRead, PlaceHigh, PlaceRest, PlaceHalfRest,
      RedoHigh, EndRedo, RejectHigh, WritePartTable, CheckEntry, RejectOverlap, OpenFiles,
      EmitEntry, RejectPreboot, Finish, IoError, Rejected, args, Entries
  <1>3. CASE UNCHANGED names
    BY <1>2, <1>3 DEF names
  <1>4. CASE CheckEntry
    <2>1. i \in Entries
      BY <1>4 DEF CheckEntry
    <2>2. CASE UNCHANGED names
      BY <1>2, <2>2 DEF names
    <2>3. CASE ~UNCHANGED names
      <3>1. PICK m : back' = [back EXCEPT ![m] = i]
        BY <1>4, <2>3 DEF CheckEntry, TakeName
      <3>2. copies' = copies \cup {i}
        BY <1>4, <2>3 DEF CheckEntry, TakeName
      <3>3. i \in 0..Len(tab)
        BY <1>1, <2>1
      <3> QED
        BY <1>2, <2>1, <3>1, <3>2, <3>3
    <2> QED BY <2>2, <2>3
  <1> QED
    BY <1>3, <1>4 DEF Next, vars, ReadLine, RejectLine, EndRead, PlaceHigh, PlaceRest,
      PlaceHalfRest, RedoHigh, EndRedo, RejectHigh, WritePartTable, RejectOverlap, OpenFiles,
      EmitEntry, RejectPreboot, Finish, IoError, Rejected

TypeInv == Stage /\ back \in [Entries -> 0..Len(tab)] /\ copies \subseteq Entries

LEMMA TypeInvariant == Spec => []TypeInv
  <1>1. Init => TypeInv
    <2> SUFFICES ASSUME Init PROVE TypeInv
      OBVIOUS
    <2>1. Stage
      BY StageInit
    <2>2. Len(tab) \in Nat
      BY <2>1, TabType DEF Stage
    <2> QED
      BY <2>1, <2>2 DEF Init, TypeInv
  <1>2. TypeInv /\ [Next]_vars => TypeInv'
    BY StageNext, NamesInv DEF TypeInv
  <1> QED
    BY <1>1, <1>2, PTL DEF Spec

\* Every variable of parse_pt keeps its type, whatever list it is given.
THEOREM TypeCorrect == Spec => []TypeOK
  <1>1. TypeInv => TypeOK
    <2> SUFFICES ASSUME TypeInv PROVE TypeOK
      OBVIOUS
    <2>1. tab \in Seq(Line) /\ flash \in Nat
      BY TabType, TablesAssumption DEF TypeInv, Stage
    <2> QED
      BY <2>1 DEF TypeInv, Stage, TypeOK
  <1> QED
    BY <1>1, TypeInvariant, PTL

-----------------------------------------------------------------------------
(* Starts and sizes are not negative, so that the unsigned comparison of   *)
(* Overlaps means what it says.  Only the tail may hold negative starts,   *)
(* until PlaceRest finds that it reaches below pos1.                       *)

Ok == Fits /\ LowHalf

NonNeg(k) == plan[k].start >= 0 /\ plan[k].size >= 0

Above ==
  /\ pos1 >= 0 /\ (Emmc => pos1 > 0)
  /\ pc = "read" =>
       \A k \in Entries : k < i /\ (rest = 0 \/ k < rest) => NonNeg(k)
  /\ pc = "tail" =>
       \A k \in Entries : /\ k < rest => NonNeg(k)
                          /\ k > i => /\ plan[k].size >= 0
                                      /\ plan[k].start >= 0 \/ plan[k].start >= pos2
  /\ pc \in {"redo", "write", "check", "emit", "done"} => \A k \in Entries : NonNeg(k)

LEMMA LineFits ==
  ASSUME Stage, Fits, NEW k \in Entries
  PROVE  /\ SizeOf(tab[k]) = tab[k].size /\ OffsetOf(tab[k]) = tab[k].at
         /\ tab[k].size \in Nat /\ tab[k].at \in Nat
         /\ LowSize(tab[k]) \in Nat /\ LowSize(tab[k]) <= tab[k].size
  <1>1. tab[k] \in Line
    BY TabType DEF Stage
  <1>2. tab[k].size \in Nat /\ tab[k].at \in Nat
    BY <1>1 DEF Line
  <1>3. SizeOf(tab[k]) = tab[k].size /\ OffsetOf(tab[k]) = tab[k].at
    BY <1>2, AsIntFits DEF Fits, SizeOf, OffsetOf, Bytes
  <1> QED
    BY <1>2, <1>3, HalfType DEF LowSize

LEMMA AboveInit == Init => Above
  BY ReserveAssumption DEF Init, Above

LEMMA AboveReadLine == Stage /\ Ok /\ Above /\ ReadLine => Above'
  <1> SUFFICES ASSUME Stage, Ok, Above, ReadLine PROVE Above'
    OBVIOUS
  <1> DEFINE line == tab[i]
  <1>1. /\ i \in Entries /\ Entries' = Entries /\ pc' = "read" /\ pc = "read" /\ i' = i + 1
        /\ rest' = IF line.rest THEN i ELSE rest
    BY DEF ReadLine, InList, args, Entries
  <1>2. Entries = 1..Len(tab) /\ Len(tab) \in Nat
    BY TabType DEF Stage
  <1>3. CASE Low(line)
    <2>1. LowSize(line) >= 0 /\ LowStart(line) >= 0 /\ LowEnd(line) >= 0 /\ (Emmc => LowEnd(line) > 0)
      BY <1>1, LineFits, VariantStays DEF Ok, Above, Stage, LowStart, LowEnd
    <2>2. LowSize(line) \in Int /\ LowStart(line) \in Int
      BY <1>1, LineFits DEF Ok, LowStart, Stage
    <2>3. plan' = [plan EXCEPT ![i] = [start |-> LowStart(line), size |-> LowSize(line)]]
      BY <1>3 DEF ReadLine
    <2>4. pos1' = LowEnd(line)
      BY <1>3 DEF ReadLine
    <2>5. /\ plan'[i].start = LowStart(line) /\ plan'[i].size = LowSize(line)
          /\ \A j \in Entries : j # i => plan'[j] = plan[j]
      BY <1>1, <2>2, <2>3, PutType DEF Stage
    <2>6. rest = 0 /\ rest' = 0
      BY <1>1, <1>3 DEF Low
    <2> QED
      BY <1>1, <1>2, <2>1, <2>4, <2>5, <2>6, VariantStays DEF Above, NonNeg
  <1>4. CASE ~Low(line)
    <2>1. plan' = plan /\ pos1' = pos1
      BY <1>4 DEF ReadLine
    <2>2. \A k \in Entries : k < i' /\ (rest' = 0 \/ k < rest') => k < i /\ (rest = 0 \/ k < rest)
      <3>1. rest # 0 => ~line.rest
        BY <1>1 DEF ReadLine, BadLine
      <3>2. rest < i /\ i >= 1
        BY <1>1 DEF Stage
      <3> QED
        BY <1>1, <1>2, <1>4, <3>1, <3>2 DEF Low, Stage
    <2> QED
      BY <1>1, <2>1, <2>2, VariantStays DEF Above, NonNeg
  <1> QED BY <1>3, <1>4

LEMMA AboveEndRead == Stage /\ Above /\ EndRead => Above'
  <1> SUFFICES ASSUME Stage, Above, EndRead PROVE Above'
    OBVIOUS
  <1>1. Entries = 1..Len(tab) /\ Len(tab) \in Nat
    BY TabType DEF Stage
  <1>2. Entries' = Entries /\ pos1' = pos1 /\ plan' = plan /\ rest' = rest
    BY DEF EndRead, args, Entries
  <1>3. \A k \in Entries : k < i
    BY <1>1 DEF EndRead, Stage
  <1>4. CASE rest = 0
    BY <1>2, <1>3, <1>4, VariantStays DEF EndRead, Above, NonNeg
  <1>5. CASE rest # 0
    BY <1>1, <1>2, <1>3, <1>5, VariantStays DEF EndRead, Above, NonNeg
  <1> QED BY <1>4, <1>5

\* Behind the "-" nothing is enhanced: the high partitions go down from pos2.
LEMMA HighLine ==
  ASSUME Stage, Ok, pc = "tail", i > rest
  PROVE  /\ i \in Entries /\ Entries = 1..Len(tab) /\ Len(tab) \in Nat
         /\ HighSize(tab[i]) = tab[i].size /\ tab[i].size \in Nat /\ tab[i].at \in Nat
         /\ HighEnd(tab[i]) = pos2 /\ LowChip(tab[i]) = chip
         /\ HighStart(tab[i]) = IF tab[i].at = 0 THEN pos2 - tab[i].size ELSE tab[i].at
  <1>1. Entries = 1..Len(tab) /\ Len(tab) \in Nat
    BY TabType DEF Stage
  <1>2. i \in Entries /\ rest \in Entries /\ tab[rest].rest
    BY <1>1 DEF Stage
  <1>3. ~tab[i].enhanced
    BY <1>2 DEF Ok, LowHalf, Behind
  <1>4. /\ SizeOf(tab[i]) = tab[i].size /\ OffsetOf(tab[i]) = tab[i].at
        /\ tab[i].size \in Nat /\ tab[i].at \in Nat
    BY <1>2, LineFits DEF Ok
  <1> QED
    BY <1>1, <1>2, <1>3, <1>4 DEF HighSize, LowSize, HighEnd, HighStart, LowChip

LEMMA AbovePlaceHigh == Stage /\ Ok /\ Above /\ PlaceHigh => Above'
  <1> SUFFICES ASSUME Stage, Ok, Above, PlaceHigh PROVE Above'
    OBVIOUS
  <1> DEFINE line == tab[i]
  <1>1. /\ Entries' = Entries /\ pos1' = pos1 /\ rest' = rest /\ i' = i - 1
        /\ pc = "tail" /\ pc' = "tail" /\ i > rest
        /\ pos2' = HighEnd(line) - HighSize(line)
        /\ plan' = [plan EXCEPT ![i] = [start |-> HighStart(line), size |-> HighSize(line)]]
    BY DEF PlaceHigh, args, Entries
  <1>2. /\ i \in Entries /\ Entries = 1..Len(tab) /\ pos2 \in Int /\ rest \in Nat
        /\ line.size \in Nat /\ line.at \in Nat /\ HighSize(line) = line.size
        /\ pos2' = pos2 - line.size
        /\ HighStart(line) = IF line.at = 0 THEN pos2 - line.size ELSE line.at
    BY <1>1, HighLine DEF Stage
  <1>3. HighStart(line) \in Int
    BY <1>2
  <1>4. /\ plan'[i].start = HighStart(line) /\ plan'[i].size = line.size
        /\ \A j \in Entries : j # i => plan'[j] = plan[j]
    BY <1>1, <1>2, <1>3, PutType DEF Stage
  <1>5. plan'[i].size >= 0 /\ (plan'[i].start >= 0 \/ plan'[i].start >= pos2')
    BY <1>2, <1>4
  <1>6. \A k \in Entries : plan[k].start \in Int /\ plan[k].size \in Int
    BY DEF Stage
  <1>7. \A k \in Entries : k < rest => k # i
    BY <1>1, <1>2
  <1>8. \A k \in Entries : k > i - 1 => k = i \/ k > i
    BY <1>2
  <1>9. Emmc' <=> Emmc
    BY VariantStays
  <1> QED
    BY <1>1, <1>2, <1>4, <1>5, <1>6, <1>7, <1>8, <1>9 DEF Above, NonNeg

LEMMA AbovePlaceRest == Stage /\ Above /\ (PlaceRest \/ PlaceHalfRest) => Above'
  <1> SUFFICES ASSUME Stage, Above, PlaceRest \/ PlaceHalfRest PROVE Above'
    OBVIOUS
  <1> DEFINE gap == IF half = rest THEN Half(pos2 - pos1) ELSE pos2 - pos1
  <1>1. /\ Entries' = Entries /\ pos1' = pos1 /\ rest' = rest /\ pc = "tail" /\ i = rest
        /\ pc' \in {"write", "redo"} /\ pos2 >= pos1
        /\ plan' = [plan EXCEPT ![rest] = [start |-> pos1, size |-> gap]]
    BY DEF PlaceRest, PlaceHalfRest, args, Entries
  <1>2. pos1 \in Int /\ pos2 \in Int /\ gap \in Int /\ gap >= 0
    <2>1. pos1 \in Int /\ pos2 \in Int /\ pos2 - pos1 \in Int /\ pos2 - pos1 >= 0
      BY <1>1 DEF Stage
    <2> QED
      BY <2>1, HalfType
  <1>3. rest \in Entries /\ Entries = 1..Len(tab)
    BY <1>1, RestEntry
  <1>4. /\ plan'[rest].start = pos1 /\ plan'[rest].size = gap
        /\ \A j \in Entries : j # rest => plan'[j] = plan[j]
    BY <1>1, <1>2, <1>3, PutType DEF Stage
  <1>5. \A k \in Entries : k # rest => NonNeg(k)
    <2>1. \A k \in Entries : plan[k].start \in Int /\ plan[k].size \in Int
      BY DEF Stage
    <2>2. pos1 >= 0
      BY DEF Above
    <2>3. \A k \in Entries : k # rest => k < rest \/ k > i
      BY <1>1, <1>3
    <2> QED
      BY <1>1, <1>2, <2>1, <2>2, <2>3 DEF Above, NonNeg
  <1>6. \A k \in Entries : NonNeg(k)'
    BY <1>1, <1>2, <1>4, <1>5 DEF NonNeg, Above
  <1> QED
    BY <1>1, <1>6, VariantStays DEF Above

LEMMA AboveRedoHigh == Stage /\ Ok /\ Above /\ RedoHigh => Above'
  <1> SUFFICES ASSUME Stage, Ok, Above, RedoHigh PROVE Above'
    OBVIOUS
  <1> DEFINE line == tab[i]
  <1>1. /\ Entries' = Entries /\ pos1' = pos1 /\ pc = "redo" /\ pc' = "redo" /\ i > rest
        /\ plan' = [plan EXCEPT ![i] = [start |-> OffsetOf(line), size |-> SizeOf(line)]]
    BY DEF RedoHigh, args, Entries
  <1>2. i \in Entries
    <2>1. Entries = 1..Len(tab) /\ Len(tab) \in Nat
      BY TabType DEF Stage
    <2> QED
      BY <1>1, <2>1 DEF Stage
  <1>3. OffsetOf(line) \in Nat /\ SizeOf(line) \in Nat
    BY <1>2, LineFits DEF Ok
  <1>4. /\ plan'[i].start = OffsetOf(line) /\ plan'[i].size = SizeOf(line)
        /\ \A j \in Entries : j # i => plan'[j] = plan[j]
    BY <1>1, <1>2, <1>3, PutType DEF Stage
  <1> QED
    BY <1>1, <1>3, <1>4, VariantStays DEF Above, NonNeg

LEMMA AboveDescribe == Above /\ Describe => Above'
  BY VariantStays DEF Above, NonNeg, Describe, RejectLine, EndRedo, RejectHigh, WritePartTable, CheckEntry,
    RejectOverlap, OpenFiles, EmitEntry, RejectPreboot, Finish, IoError, Rejected, args, place,
    Entries

LEMMA OkStays == Stage /\ [Next]_vars => (Ok' <=> Ok)
  <1> SUFFICES ASSUME [Next]_vars PROVE Ok' <=> Ok
    OBVIOUS
  <1>1. tab' = tab
    BY DEF Next, vars, ReadLine, RejectLine, EndRead, PlaceHigh, PlaceRest, PlaceHalfRest,
      RedoHigh, EndRedo, RejectHigh, WritePartTable, CheckEntry, RejectOverlap, OpenFiles,
      EmitEntry, RejectPreboot, Finish, IoError, Rejected, args
  <1> QED
    BY <1>1 DEF Ok, Fits, LowHalf, Behind, Entries

LEMMA AboveNext == Stage /\ Ok /\ Above /\ [Next]_vars => Above'
  <1> SUFFICES ASSUME Stage, Ok, Above, [Next]_vars PROVE Above'
    OBVIOUS
  <1>1. CASE UNCHANGED vars
    BY <1>1, VariantStays DEF vars, args, place, Above, NonNeg, Entries
  <1> QED
    BY <1>1, AboveReadLine, AboveEndRead, AbovePlaceHigh, AbovePlaceRest, AboveRedoHigh,
      AboveDescribe DEF Next, Describe

-----------------------------------------------------------------------------
(* Neighbours that do not overlap leave no pair that does.                 *)

Apart ==
  /\ pc = "check" =>
       \A k \in Entries : k < i => \A j \in 1..(k-1) : End(j) <= plan[k].start
  /\ pc \in {"emit", "done"} =>
       \A k \in Entries : \A j \in 1..(k-1) : End(j) <= plan[k].start

LEMMA ApartCheckEntry == Stage /\ Above /\ Apart /\ CheckEntry => Apart'
  <1> SUFFICES ASSUME Stage, Above, Apart, CheckEntry PROVE Apart'
    OBVIOUS
  <1>1. /\ Entries' = Entries /\ plan' = plan /\ pc = "check" /\ pc' = "check" /\ i' = i + 1
        /\ i \in Entries /\ ~Overlaps(i)
    BY DEF CheckEntry, args, place, Entries
  <1>2. Entries = 1..Len(tab) /\ Len(tab) \in Nat
    BY TabType DEF Stage
  <1>3. \A k \in Entries : /\ plan[k].start \in Int /\ plan[k].size \in Int
                           /\ plan[k].start >= 0 /\ plan[k].size >= 0
    BY <1>1 DEF Stage, Above, NonNeg
  <1>4. ASSUME NEW j \in 1..(i-1) PROVE End(j) <= plan[i].start
    <2>1. i - 1 \in Entries /\ j \in Entries /\ i > 1
      BY <1>1, <1>2
    <2>2. End(i-1) <= plan[i].start
      BY <1>1, <1>3, <2>1 DEF Overlaps, Unsigned, End
    <2>3. CASE j = i - 1
      BY <2>2, <2>3
    <2>4. CASE j < i - 1
      <3>1. End(j) <= plan[i-1].start
        BY <1>1, <2>1, <2>4 DEF Apart
      <3> QED
        BY <1>1, <1>3, <2>1, <2>2, <3>1 DEF End
    <2> QED BY <1>1, <1>2, <2>3, <2>4
  <1>5. \A k \in Entries : k < i + 1 => \A j \in 1..(k-1) : End(j) <= plan[k].start
    BY <1>1, <1>2, <1>4 DEF Apart
  <1> QED
    BY <1>1, <1>5 DEF Apart, End

LEMMA ApartNext == Stage /\ Above /\ Apart /\ [Next]_vars => Apart'
  <1> SUFFICES ASSUME Stage, Above, Apart, [Next]_vars PROVE Apart'
    OBVIOUS
  <1>1. CASE UNCHANGED vars
    BY <1>1 DEF vars, args, place, Apart, End, Entries
  <1>2. CASE ReadLine \/ RejectLine \/ EndRead \/ PlaceHigh \/ PlaceRest \/ PlaceHalfRest
             \/ RedoHigh \/ EndRedo \/ RejectHigh \/ RejectOverlap \/ RejectPreboot \/ IoError
    <2>1. pc' \notin {"check", "emit", "done"}
      BY <1>2 DEF ReadLine, InList, RejectLine, EndRead, PlaceHigh, PlaceRest, PlaceHalfRest,
        RedoHigh, EndRedo, RejectHigh, RejectOverlap, RejectPreboot, IoError, Rejected
    <2> QED BY <2>1 DEF Apart
  <1>3. CASE WritePartTable
    <2>1. Entries = 1..Len(tab) /\ Entries' = Entries /\ pc' = "check" /\ i' = 1
      BY <1>3, TabType DEF Stage, WritePartTable, args, Entries
    <2> QED BY <2>1 DEF Apart
  <1>4. CASE OpenFiles
    <2>1. /\ Entries' = Entries /\ plan' = plan /\ pc = "check" /\ pc' = "emit" /\ i \notin Entries
      BY <1>4 DEF OpenFiles, args, place, Entries
    <2>2. Entries = 1..Len(tab) /\ Len(tab) \in Nat
      BY TabType DEF Stage
    <2>3. \A k \in Entries : k < i
      BY <2>1, <2>2 DEF Stage
    <2> QED BY <2>1, <2>3 DEF Apart, End
  <1>5. CASE EmitEntry \/ Finish
    BY <1>5 DEF EmitEntry, Finish, args, place, Apart, End, Entries
  <1> QED
    BY <1>1, <1>2, <1>3, <1>4, <1>5, ApartCheckEntry DEF Next

DisjointInv == Ok => Above /\ Apart

LEMMA DisjointInvariant == Spec => []DisjointInv
  <1>1. Init => DisjointInv
    <2>1. Init => Apart
      BY DEF Init, Apart
    <2> QED BY <2>1, AboveInit DEF DisjointInv
  <1>2. TypeInv /\ DisjointInv /\ [Next]_vars => DisjointInv'
    BY AboveNext, ApartNext, OkStays DEF TypeInv, DisjointInv
  <1> QED
    BY <1>1, <1>2, TypeInvariant, PTL DEF Spec

\* No two partitions of an accepted list overlap.
THEOREM PartitionsAreDisjoint == Spec => []Disjoint
  <1>1. DisjointInv => Disjoint
    BY DEF DisjointInv, Disjoint, Accepted, Ok, Apart
  <1> QED
    BY <1>1, DisjointInvariant, PTL

-----------------------------------------------------------------------------
(* What is placed ends inside the flash.  Of the low partitions only the   *)
(* last one is compared with it, so only that one is followed here; Apart  *)
(* bounds the others.  When the "-" is halved, what is behind it starts at *)
(* 0 again: such a list will not pass the check.                           *)

Plain == Fits /\ PlainTail

LastLow == IF rest # 0 THEN rest - 1 ELSE IF pc = "read" THEN i - 1 ELSE Len(tab)

Doomed ==
  /\ rest # 0 /\ rest + 1 \in Entries /\ pc \in {"write", "check"}
  /\ plan[rest + 1].start = 0 /\ End(rest) > 0
  /\ pc = "check" => i <= rest + 1

Inside ==
  /\ chip <= Usable(flash)
  /\ pc \in {"read", "tail"} => (LastLow >= 1 => End(LastLow) = pos1)
  /\ pc = "read" => (LastLow >= 1 => pos1 <= chip)
  /\ pc = "tail" => /\ pos2 <= chip
                    /\ i = Len(tab) => pos2 = chip
                    /\ \A k \in Entries : k > i => End(k) <= chip
  /\ pc = "redo" => /\ End(rest) > 0
                    /\ \A k \in Entries : k > i => plan[k].start = 0
                    /\ rest = Len(tab) => \A k \in Entries : k >= LastLow => End(k) <= chip
  /\ pc \in {"write", "check", "emit", "done"} =>
       Doomed \/ \A k \in Entries : k >= LastLow => End(k) <= chip

LEMMA InsideInit == Init => Inside
  <1> SUFFICES ASSUME Init PROVE Inside
    OBVIOUS
  <1>1. chip \in Int /\ chip = Usable(flash)
    BY UsableType, TablesAssumption DEF Init
  <1> QED
    BY <1>1 DEF Init, Inside, LastLow

LEMMA InsideReadLine == Stage /\ Plain /\ Above /\ Inside /\ ReadLine => Inside'
  <1> SUFFICES ASSUME Stage, Plain, Above, Inside, ReadLine PROVE Inside'
    OBVIOUS
  <1> DEFINE line == tab[i]
  <1>1. /\ i \in Entries /\ Entries' = Entries /\ pc' = "read" /\ pc = "read" /\ i' = i + 1
        /\ rest' = (IF line.rest THEN i ELSE rest) /\ flash' = flash /\ ~BadLine(line)
    BY DEF ReadLine, InList, args, Entries
  <1>2. /\ chip \in Int /\ pos1 \in Int /\ i \in Nat /\ rest \in Nat /\ rest < i
        /\ Usable(flash) \in Int
    BY <1>1, UsableType, TablesAssumption DEF Stage
  <1>3. CASE Low(line)
    <2>1. LowSize(line) \in Nat /\ LowStart(line) \in Int /\ LowChip(line) \in Int
      BY <1>1, <1>2, LineFits DEF Plain, LowStart, LowChip
    <2>2. /\ plan' = [plan EXCEPT ![i] = [start |-> LowStart(line), size |-> LowSize(line)]]
          /\ pos1' = LowEnd(line) /\ chip' = LowChip(line)
      BY <1>3 DEF ReadLine
    <2>3. plan'[i].start = LowStart(line) /\ plan'[i].size = LowSize(line)
      BY <1>1, <2>1, <2>2, PutType DEF Stage
    <2>4. rest' = 0 /\ LastLow' = i
      BY <1>1, <1>2, <1>3 DEF Low, LastLow
    <2>5. chip' <= chip
      BY <1>2, <2>1, <2>2 DEF LowChip
    <2>6. LowEnd(line) <= LowChip(line)
      BY <1>1, <1>2, <1>3, <2>1 DEF BadLine, LowEnd
    <2>7. End(LastLow)' = pos1'
      BY <2>2, <2>3, <2>4 DEF End, LowEnd
    <2> QED
      BY <1>1, <1>2, <2>1, <2>2, <2>4, <2>5, <2>6, <2>7, VariantStays DEF Inside
  <1>4. CASE ~Low(line)
    <2>1. plan' = plan /\ pos1' = pos1 /\ chip' = chip
      BY <1>4 DEF ReadLine
    <2>2. rest # 0 => ~line.rest
      BY <1>1 DEF BadLine
    <2>3. LastLow' = LastLow
      BY <1>1, <1>2, <1>4, <2>2 DEF Low, LastLow
    <2> QED
      BY <1>1, <2>1, <2>3, VariantStays DEF Inside, End
  <1> QED BY <1>3, <1>4

LEMMA InsideEndRead == Stage /\ Inside /\ EndRead => Inside'
  <1> SUFFICES ASSUME Stage, Inside, EndRead PROVE Inside'
    OBVIOUS
  <1>1. Entries = 1..Len(tab) /\ Len(tab) \in Nat
    BY TabType DEF Stage
  <1>2. /\ Entries' = Entries /\ pos1' = pos1 /\ plan' = plan /\ rest' = rest /\ chip' = chip
        /\ flash' = flash /\ tab' = tab /\ pc = "read"
    BY DEF EndRead, args, Entries
  <1>3. i = Len(tab) + 1 /\ chip \in Int
    BY <1>1, <1>2 DEF EndRead, Stage
  <1>4. CASE rest = 0
    <2>1. pc' = "write" /\ LastLow' = Len(tab) /\ LastLow = Len(tab)
      BY <1>1, <1>2, <1>3, <1>4 DEF EndRead, LastLow
    <2>2. \A k \in Entries : k >= Len(tab) => End(k) <= chip
      BY <1>1, <1>2, <2>1 DEF Inside
    <2> QED
      BY <1>2, <2>1, <2>2, VariantStays DEF Inside, End
  <1>5. CASE rest # 0
    <2>1. pc' = "tail" /\ LastLow' = LastLow /\ i' = Len(tab) /\ pos2' = chip
      BY <1>2, <1>5 DEF EndRead, LastLow
    <2>2. \A k \in Entries : ~(k > Len(tab))
      BY <1>1
    <2> QED
      BY <1>2, <1>3, <2>1, <2>2, VariantStays DEF Inside, End
  <1> QED BY <1>4, <1>5

LEMMA InsidePlaceHigh == Stage /\ Plain /\ Inside /\ PlaceHigh => Inside'
  <1> SUFFICES ASSUME Stage, Plain, Inside, PlaceHigh PROVE Inside'
    OBVIOUS
  <1> DEFINE line == tab[i]
  <1>1. /\ Entries' = Entries /\ pos1' = pos1 /\ rest' = rest /\ i' = i - 1
        /\ pc = "tail" /\ pc' = "tail" /\ i > rest /\ flash' = flash /\ tab' = tab
        /\ pos2' = HighEnd(line) - HighSize(line) /\ chip' = LowChip(line)
        /\ plan' = [plan EXCEPT ![i] = [start |-> HighStart(line), size |-> HighSize(line)]]
    BY DEF PlaceHigh, args, Entries
  <1>2. /\ i \in Entries /\ Entries = 1..Len(tab) /\ Len(tab) \in Nat /\ rest \in Entries
        /\ pos2 \in Int /\ line.size \in Nat /\ HighSize(line) = line.size
        /\ pos2' = pos2 - line.size /\ chip' = chip /\ chip \in Int
        /\ HighStart(line) = IF line.at = 0 THEN pos2 - line.size ELSE line.at
    BY <1>1, HighLine, RestEntry DEF Stage, Plain, PlainTail, Ok
  <1>3. line.at = 0
    BY <1>1, <1>2 DEF Plain, PlainTail, Behind, Stage
  <1>4. /\ plan'[i].start = pos2 - line.size /\ plan'[i].size = line.size
        /\ \A j \in Entries : j # i => plan'[j] = plan[j]
    BY <1>1, <1>2, <1>3, PutType DEF Stage
  <1>5. \A k \in Entries : k = i => End(k)' <= chip
    BY <1>1, <1>2, <1>4 DEF Inside, End
  <1>6. \A k \in Entries : k > i' => End(k)' <= chip'
    BY <1>1, <1>2, <1>4, <1>5 DEF Inside, End
  <1>7. LastLow' = LastLow /\ (LastLow >= 1 => End(LastLow)' = End(LastLow))
    BY <1>1, <1>2, <1>4 DEF LastLow, End
  <1>8. pos2' <= chip' /\ i' # Len(tab)
    BY <1>1, <1>2 DEF Inside
  <1> QED
    BY <1>1, <1>2, <1>6, <1>7, <1>8, VariantStays DEF Inside, LastLow, End

LEMMA InsidePlaceRest == Stage /\ Inside /\ PlaceRest => Inside'
  <1> SUFFICES ASSUME Stage, Inside, PlaceRest PROVE Inside'
    OBVIOUS
  <1>1. /\ Entries' = Entries /\ pos1' = pos1 /\ rest' = rest /\ pc = "tail" /\ i = rest
        /\ pc' = "write" /\ pos2 >= pos1 /\ chip' = chip /\ flash' = flash
        /\ plan' = [plan EXCEPT ![rest] = [start |-> pos1, size |-> pos2 - pos1]]
    BY DEF PlaceRest, args, Entries
  <1>2. /\ pos1 \in Int /\ pos2 \in Int /\ pos2 - pos1 \in Int /\ chip \in Int
        /\ rest \in Entries /\ Entries = 1..Len(tab) /\ rest # 0
    BY <1>1, RestEntry DEF Stage
  <1>3. /\ plan'[rest].start = pos1 /\ plan'[rest].size = pos2 - pos1
        /\ \A j \in Entries : j # rest => plan'[j] = plan[j]
    BY <1>1, <1>2, PutType DEF Stage
  <1>4. End(rest)' <= chip
    BY <1>1, <1>2, <1>3 DEF Inside, End
  <1>5. \A k \in Entries : k # rest => End(k)' = End(k)
    BY <1>3 DEF End
  <1>6. LastLow' = rest - 1 /\ LastLow = rest - 1
    BY <1>1, <1>2 DEF LastLow
  <1>7. \A k \in Entries : k >= rest - 1 => End(k)' <= chip
    <2>1. \A k \in Entries : k >= rest - 1 => k = rest \/ k > rest \/ (k = rest - 1 /\ k >= 1)
      BY <1>2
    <2> QED
      BY <1>1, <1>2, <1>4, <1>5, <1>6, <2>1 DEF Inside
  <1> QED
    BY <1>1, <1>6, <1>7, VariantStays DEF Inside

\* A "-" that is halved and last ends inside the flash it shrinks by as much.
LEMMA InsidePlaceHalfRest == Stage /\ Plain /\ Above /\ Inside /\ PlaceHalfRest => Inside'
  <1> SUFFICES ASSUME Stage, Plain, Above, Inside, PlaceHalfRest PROVE Inside'
    OBVIOUS
  <1> DEFINE h == Half(pos2 - pos1)
  <1>1. /\ Entries' = Entries /\ pos1' = pos1 /\ rest' = rest /\ pc = "tail" /\ i = rest
        /\ pc' = "redo" /\ pos2 >= pos1 /\ chip' = chip - h /\ flash' = flash /\ tab' = tab
        /\ i' = Len(tab) /\ half = rest
        /\ plan' = [plan EXCEPT ![rest] = [start |-> pos1, size |-> h]]
    BY DEF PlaceHalfRest, args, Entries
  <1>2. /\ pos1 \in Int /\ pos2 \in Int /\ h \in Int /\ chip \in Int
        /\ rest \in Entries /\ Entries = 1..Len(tab) /\ Len(tab) \in Nat /\ rest # 0
    BY <1>1, RestEntry DEF Stage
  <1>3. h >= 0 /\ 2 * h <= pos2 - pos1
    BY <1>1, <1>2, HalfType
  <1>4. /\ plan'[rest].start = pos1 /\ plan'[rest].size = h
        /\ \A j \in Entries : j # rest => plan'[j] = plan[j]
    BY <1>1, <1>2, PutType DEF Stage
  <1>5. \A k \in Entries : k # rest => End(k)' = End(k)
    BY <1>4 DEF End
  <1>6. LastLow' = rest - 1 /\ LastLow = rest - 1
    BY <1>1, <1>2 DEF LastLow
  <1>7. End(rest)' = pos1 + h
    BY <1>1, <1>4 DEF End
  <1>8. pos1 > 0
    BY <1>1, <1>2 DEF Above, Stage
  <1>9. rest = Len(tab) => \A k \in Entries : k >= LastLow' => End(k)' <= chip'
    <2>1. \A k \in Entries : k = rest \/ k < rest \/ k > rest
      BY <1>2
    <2> QED
      BY <1>1, <1>2, <1>3, <1>5, <1>6, <1>7, <2>1 DEF Inside
  <1>10. \A k \in Entries : ~(k > i')
    BY <1>1, <1>2
  <1>11. chip' <= Usable(flash)
    <2>1. Usable(flash) \in Int
      BY UsableType, TablesAssumption DEF Stage
    <2> QED
      BY <1>1, <1>2, <1>3, <2>1 DEF Inside
  <1> QED
    BY <1>1, <1>2, <1>3, <1>7, <1>8, <1>9, <1>10, <1>11, VariantStays DEF Inside

LEMMA InsideRedoHigh == Stage /\ Plain /\ Inside /\ RedoHigh => Inside'
  <1> SUFFICES ASSUME Stage, Plain, Inside, RedoHigh PROVE Inside'
    OBVIOUS
  <1> DEFINE line == tab[i]
  <1>1. /\ Entries' = Entries /\ rest' = rest /\ pc = "redo" /\ pc' = "redo" /\ i > rest
        /\ i' = i - 1 /\ chip' = chip /\ flash' = flash /\ tab' = tab
        /\ plan' = [plan EXCEPT ![i] = [start |-> OffsetOf(line), size |-> SizeOf(line)]]
    BY DEF RedoHigh, args, Entries
  <1>2. /\ Entries = 1..Len(tab) /\ Len(tab) \in Nat /\ i \in Entries /\ rest \in Entries
    <2>1. Entries = 1..Len(tab) /\ Len(tab) \in Nat
      BY TabType DEF Stage
    <2> QED
      BY <1>1, <2>1 DEF Stage
  <1>3. OffsetOf(line) = 0 /\ SizeOf(line) \in Nat
    BY <1>1, <1>2, LineFits DEF Plain, PlainTail, Behind, Stage
  <1>4. /\ plan'[i].start = 0
        /\ \A j \in Entries : j # i => plan'[j] = plan[j]
    BY <1>1, <1>2, <1>3, PutType DEF Stage
  <1>5. End(rest)' > 0 /\ rest # Len(tab)
    BY <1>1, <1>2, <1>4 DEF Inside, End
  <1>6. \A k \in Entries : k > i' => plan'[k].start = 0
    BY <1>1, <1>2, <1>4 DEF Inside
  <1> QED
    BY <1>1, <1>5, <1>6, VariantStays DEF Inside

LEMMA InsideEndRedo == Stage /\ Inside /\ EndRedo => Inside'
  <1> SUFFICES ASSUME Stage, Inside, EndRedo PROVE Inside'
    OBVIOUS
  <1>1. /\ Entries' = Entries /\ rest' = rest /\ pc = "redo" /\ pc' = "write" /\ i = rest
        /\ chip' = chip /\ flash' = flash /\ tab' = tab /\ plan' = plan /\ rest # 0
    BY DEF EndRedo, args, place, Entries, Stage
  <1>2. Entries = 1..Len(tab) /\ Len(tab) \in Nat
    BY TabType DEF Stage
  <1>3. LastLow' = LastLow
    BY <1>1 DEF LastLow
  <1>4. CASE rest = Len(tab)
    BY <1>1, <1>3, <1>4, VariantStays DEF Inside, End
  <1>5. CASE rest # Len(tab)
    <2>1. rest + 1 \in Entries /\ rest + 1 > i
      BY <1>1, <1>2, <1>5 DEF Stage
    <2>2. Doomed'
      BY <1>1, <2>1 DEF Doomed, Inside, End
    <2> QED
      BY <1>1, <2>2, VariantStays DEF Inside
  <1> QED BY <1>4, <1>5

LEMMA InsideCheckEntry == Stage /\ Above /\ Inside /\ CheckEntry => Inside'
  <1> SUFFICES ASSUME Stage, Above, Inside, CheckEntry PROVE Inside'
    OBVIOUS
  <1>1. /\ Entries' = Entries /\ rest' = rest /\ pc = "check" /\ pc' = "check" /\ i' = i + 1
        /\ chip' = chip /\ flash' = flash /\ tab' = tab /\ plan' = plan
        /\ i \in Entries /\ ~Overlaps(i)
    BY DEF CheckEntry, args, place, Entries
  <1>2. LastLow' = LastLow
    BY <1>1 DEF LastLow
  <1>3. CASE \A k \in Entries : k >= LastLow => End(k) <= chip
    BY <1>1, <1>2, <1>3, VariantStays DEF Inside, End
  <1>4. CASE Doomed
    <2>1. /\ i <= rest + 1 /\ rest \in Nat /\ i \in Nat /\ rest # 0 /\ rest + 1 \in Entries
      BY <1>1, <1>4 DEF Doomed, Stage
    <2>2. i # rest + 1
      <3>1. SUFFICES ASSUME i = rest + 1 PROVE FALSE
        OBVIOUS
      <3>2. plan[i].start = 0 /\ End(i-1) > 0
        BY <2>1, <3>1, <1>4 DEF Doomed
      <3>3. End(i-1) \in Int
        <4>1. i - 1 \in Entries
          BY <2>1, <3>1, TabType DEF Stage
        <4> QED
          BY <4>1 DEF End, Stage
      <3> QED
        BY <1>1, <2>1, <3>1, <3>2, <3>3 DEF Overlaps, Unsigned
    <2>3. Doomed'
      BY <1>1, <1>4, <2>1, <2>2 DEF Doomed, End
    <2> QED
      BY <1>1, <2>3, VariantStays DEF Inside
  <1> QED BY <1>1, <1>3, <1>4 DEF Inside

LEMMA InsideNext == Stage /\ Plain /\ Above /\ Inside /\ [Next]_vars => Inside'
  <1> SUFFICES ASSUME Stage, Plain, Above, Inside, [Next]_vars PROVE Inside'
    OBVIOUS
  <1>1. CASE UNCHANGED vars
    BY <1>1, VariantStays DEF vars, args, place, Inside, LastLow, Doomed, End, Entries
  <1>2. CASE RejectLine \/ RejectHigh \/ RejectOverlap \/ RejectPreboot \/ IoError
    BY <1>2, VariantStays DEF RejectLine, RejectHigh, RejectOverlap, RejectPreboot, IoError, Rejected, args,
      place, Inside
  <1>3. CASE WritePartTable
    <2>1. /\ Entries' = Entries /\ UNCHANGED <<args, place>> /\ pc = "write" /\ pc' = "check" /\ i' = 1
      BY <1>3 DEF WritePartTable, args, Entries
    <2>2. LastLow' = LastLow /\ (Doomed => Doomed')
      BY <2>1 DEF args, place, LastLow, Doomed, End, Stage
    <2> QED
      BY <2>1, <2>2, VariantByFlash DEF args, place, Inside, End
  <1>4. CASE OpenFiles
    <2>1. /\ Entries' = Entries /\ UNCHANGED <<args, place>> /\ pc = "check" /\ pc' = "emit"
          /\ i \notin Entries
      BY <1>4 DEF OpenFiles, args, Entries
    <2>2. Entries = 1..Len(tab) /\ Len(tab) \in Nat
      BY TabType DEF Stage
    <2>3. ~Doomed
      BY <2>1, <2>2 DEF Doomed, Stage
    <2>4. LastLow' = LastLow
      BY <2>1 DEF args, place, LastLow
    <2> QED
      BY <2>1, <2>3, <2>4, VariantByFlash DEF args, place, Inside, End
  <1>5. CASE EmitEntry \/ Finish
    <2>1. /\ Entries' = Entries /\ UNCHANGED <<args, place>> /\ pc = "emit" /\ pc' \in {"emit", "done"}
      BY <1>5 DEF EmitEntry, Finish, args, Entries
    <2>2. LastLow' = LastLow /\ ~Doomed
      BY <2>1 DEF args, place, LastLow, Doomed
    <2> QED
      BY <2>1, <2>2, VariantByFlash DEF args, place, Inside, End
  <1> QED
    BY <1>1, <1>2, <1>3, <1>4, <1>5, InsideReadLine, InsideEndRead, InsidePlaceHigh,
      InsidePlaceRest, InsidePlaceHalfRest, InsideRedoHigh, InsideEndRedo, InsideCheckEntry DEF Next

LEMMA ArgsStay == [Next]_vars => tab' = tab /\ flash' = flash
  BY DEF Next, vars, ReadLine, RejectLine, EndRead, PlaceHigh, PlaceRest, PlaceHalfRest,
    RedoHigh, EndRedo, RejectHigh, WritePartTable, CheckEntry, RejectOverlap, OpenFiles,
    EmitEntry, RejectPreboot, Finish, IoError, Rejected, args

InsideInv == Plain => Inside

LEMMA InsideInvariant == Spec => []InsideInv
  <1>1. Init => InsideInv
    BY InsideInit DEF InsideInv
  <1>2. TypeInv /\ DisjointInv /\ InsideInv /\ [Next]_vars => InsideInv'
    <2>1. [Next]_vars => (Plain' <=> Plain)
      BY ArgsStay DEF Plain, Fits, PlainTail, LowHalf, Behind, Entries
    <2>2. Plain => Ok
      BY DEF Plain, PlainTail, Ok
    <2> QED
      BY <2>1, <2>2, InsideNext DEF TypeInv, DisjointInv, InsideInv
  <1> QED
    BY <1>1, <1>2, TypeInvariant, DisjointInvariant, PTL DEF Spec

\* Every partition of an accepted list ends inside the flash that is left.
THEOREM PartitionsFitTheFlash == Spec => []InsideChip
  <1>1. TypeInv /\ DisjointInv /\ InsideInv => InsideChip
    <2> SUFFICES ASSUME TypeInv, DisjointInv, InsideInv, Accepted, PlainTail, NEW k \in Entries
                 PROVE  End(k) <= chip
      BY DEF InsideChip
    <2>1. Entries = 1..Len(tab) /\ Len(tab) \in Nat /\ chip \in Int /\ rest \in 0..Len(tab)
      BY TabType DEF TypeInv, Stage
    <2>2. pc = "done" /\ Above /\ Apart /\ Inside
      BY DEF Accepted, PlainTail, DisjointInv, InsideInv, Ok, Plain
    <2>3. \A l \in Entries : l >= LastLow => End(l) <= chip
      BY <2>2 DEF Inside, Doomed
    <2>4. CASE k >= LastLow
      BY <2>3, <2>4
    <2>5. CASE k < LastLow
      <3>1. LastLow \in Entries /\ k \in 1..(LastLow - 1)
        BY <2>1, <2>2, <2>5 DEF LastLow
      <3>2. End(k) <= plan[LastLow].start /\ End(LastLow) <= chip
        BY <2>1, <2>2, <2>3, <3>1 DEF Apart
      <3>3. plan[LastLow].size >= 0 /\ plan[LastLow].start \in Int /\ plan[LastLow].size \in Int
        BY <2>2, <3>1 DEF Above, NonNeg, TypeInv, Stage
      <3>4. End(k) \in Int
        BY DEF End, TypeInv, Stage
      <3> QED
        BY <2>1, <3>2, <3>3, <3>4 DEF End
    <2> QED
      BY <2>1, <2>4, <2>5 DEF LastLow, TypeInv, Stage
  <1> QED
    BY <1>1, TypeInvariant, DisjointInvariant, InsideInvariant, PTL

-----------------------------------------------------------------------------
(* The first partition of a list without offsets starts behind the GPT.    *)

NoOffsets == Emmc /\ Fits /\ \A k \in Entries : tab[k].at = 0

First ==
  /\ pc \in {"read", "tail"} =>
       IF rest = 1 \/ (pc = "read" /\ i = 1) THEN pos1 = Reserve
       ELSE 1 \in Entries => plan[1].start = Reserve
  /\ pc \in {"redo", "write", "check", "emit", "done"} =>
       (1 \in Entries => plan[1].start = Reserve)

LEMMA FirstNext == Stage /\ NoOffsets /\ First /\ [Next]_vars => First'
  <1> SUFFICES ASSUME Stage, NoOffsets, First, [Next]_vars PROVE First'
    OBVIOUS
  <1>1. Entries = 1..Len(tab) /\ Len(tab) \in Nat /\ Entries' = Entries
    BY TabType, ArgsStay DEF Stage, Entries
  <1>2. CASE UNCHANGED vars
    BY <1>1, <1>2 DEF vars, place, First
  <1>3. CASE ReadLine
    <2> DEFINE line == tab[i]
    <2>1. /\ i \in Entries /\ pc' = "read" /\ pc = "read" /\ i' = i + 1 /\ i \in Nat /\ i >= 1
          /\ rest' = (IF line.rest THEN i ELSE rest) /\ ~BadLine(line) /\ rest < i /\ rest \in Nat
      BY <1>1, <1>3 DEF ReadLine, InList, Stage
    <2>2. CASE Low(line)
      <3>1. LowStart(line) = pos1 /\ LowSize(line) \in Int /\ pos1 \in Int
        BY <2>1, LineFits DEF LowStart, NoOffsets, Stage
      <3>2. plan' = [plan EXCEPT ![i] = [start |-> LowStart(line), size |-> LowSize(line)]]
        BY <1>3, <2>2 DEF ReadLine
      <3>3. plan'[i].start = pos1 /\ \A j \in Entries : j # i => plan'[j] = plan[j]
        BY <2>1, <3>1, <3>2, PutType DEF Stage
      <3>4. rest' = 0 /\ rest = 0
        BY <2>1, <2>2 DEF Low
      <3> QED
        BY <1>1, <2>1, <3>3, <3>4 DEF First
    <2>3. CASE ~Low(line)
      <3>1. plan' = plan /\ pos1' = pos1
        BY <1>3, <2>3 DEF ReadLine
      <3>2. rest # 0 => ~line.rest
        BY <2>1 DEF BadLine
      <3> QED
        BY <1>1, <2>1, <2>3, <3>1, <3>2 DEF First, Low
    <2> QED BY <2>2, <2>3
  <1>4. CASE EndRead
    BY <1>1, <1>4 DEF EndRead, First, Stage
  <1>5. CASE PlaceHigh
    <2>1. /\ i > rest /\ rest # 0 /\ rest \in Nat /\ pos1' = pos1 /\ rest' = rest
          /\ pc = "tail" /\ pc' = "tail"
      BY <1>1, <1>5 DEF PlaceHigh, Stage
    <2>2. \A j \in Entries : j # i => plan'[j] = plan[j]
      BY <1>5 DEF PlaceHigh, Stage
    <2>3. i # 1
      BY <2>1 DEF Stage
    <2> QED
      BY <1>1, <2>1, <2>2, <2>3 DEF First
  <1>6. CASE PlaceRest \/ PlaceHalfRest
    <2>1. pc = "tail" /\ pc' \in {"write", "redo"} /\ rest \in Entries
      BY <1>6, RestEntry DEF PlaceRest, PlaceHalfRest
    <2>2. plan'[rest].start = pos1 /\ \A j \in Entries : j # rest => plan'[j] = plan[j]
      BY <1>6, <2>1 DEF PlaceRest, PlaceHalfRest, Stage
    <2> QED
      BY <1>1, <2>1, <2>2 DEF First
  <1>7. CASE RedoHigh
    <2>1. i > rest /\ rest # 0 /\ rest \in Nat /\ i \in Nat /\ pc = "redo" /\ pc' = "redo"
      BY <1>1, <1>7 DEF RedoHigh, Stage
    <2>2. \A j \in Entries : j # i => plan'[j] = plan[j]
      BY <1>7 DEF RedoHigh, Stage
    <2> QED
      BY <1>1, <2>1, <2>2 DEF First
  <1>8. CASE Describe
    BY <1>1, <1>8 DEF First, Describe, RejectLine, EndRedo, RejectHigh, WritePartTable, CheckEntry,
      RejectOverlap, OpenFiles, EmitEntry, RejectPreboot, Finish, IoError, Rejected, place
  <1> QED
    BY <1>2, <1>3, <1>4, <1>5, <1>6, <1>7, <1>8 DEF Next, Describe

FirstInv == NoOffsets => First

LEMMA FirstInvariant == Spec => []FirstInv
  <1>1. Init => FirstInv
    BY DEF Init, FirstInv, First, NoOffsets
  <1>2. TypeInv /\ FirstInv /\ [Next]_vars => FirstInv'
    <2>1. [Next]_vars => (NoOffsets' <=> NoOffsets)
      BY ArgsStay, VariantByFlash DEF NoOffsets, Fits, Entries, args
    <2> QED
      BY <2>1, FirstNext DEF TypeInv, FirstInv
  <1> QED
    BY <1>1, <1>2, TypeInvariant, PTL DEF Spec

\* A list without offsets leaves the GPT and the backup GPT alone.
THEOREM GptIsLeftAlone == Spec => []ClearOfGpt
  <1>1. TypeInv /\ DisjointInv /\ InsideInv /\ InsideChip /\ FirstInv => ClearOfGpt
    <2> SUFFICES ASSUME TypeInv, DisjointInv, InsideInv, InsideChip, FirstInv,
                        Emmc, Accepted, PlainTail, \A k \in Entries : tab[k].at = 0,
                        NEW k \in Entries
                 PROVE  plan[k].start >= Reserve /\ End(k) + MinBackup <= flash
      BY DEF ClearOfGpt
    <2>1. /\ Entries = 1..Len(tab) /\ Len(tab) \in Nat /\ chip \in Int /\ flash \in Nat
          /\ plan[k].start \in Int /\ plan[k].size \in Int /\ Reserve \in Nat /\ MinBackup \in Nat
      BY TabType, TablesAssumption, ReserveAssumption DEF TypeInv, Stage
    <2>2. pc = "done" /\ Above /\ Apart /\ Inside /\ First
      BY DEF Accepted, PlainTail, DisjointInv, InsideInv, FirstInv, Ok, Plain, NoOffsets
    <2>3. plan[1].start = Reserve /\ 1 \in Entries
      BY <2>1, <2>2 DEF First
    <2>4. plan[k].start >= Reserve
      <3>1. CASE k = 1
        BY <2>1, <2>3, <3>1
      <3>2. CASE k # 1
        <4>1. End(1) <= plan[k].start
          BY <2>1, <2>2, <3>2 DEF Apart
        <4>2. plan[1].size >= 0 /\ plan[1].size \in Int
          BY <2>2, <2>3 DEF Above, NonNeg, TypeInv, Stage
        <4> QED
          BY <2>1, <2>3, <4>1, <4>2 DEF End
      <3> QED BY <3>1, <3>2
    <2>5. End(k) <= chip
      BY DEF InsideChip
    <2>6. chip <= Usable(flash) /\ Usable(flash) + MinBackup <= flash /\ Usable(flash) \in Int
      BY <2>1, <2>2, UsableType DEF Inside
    <2> QED
      BY <2>1, <2>4, <2>5, <2>6 DEF End
  <1> QED
    BY <1>1, TypeInvariant, DisjointInvariant, InsideInvariant, FirstInvariant,
      PartitionsFitTheFlash, PTL

-----------------------------------------------------------------------------
(* Each partition starts where the one before it ends, and each high one   *)
(* ends where the one behind it starts.                                    *)

Base == IF Emmc THEN Reserve ELSE 0
Follows(k) == plan[k].start = IF k > 1 THEN End(k-1) ELSE Base
Meets(k) == End(k) = IF k = Len(tab) THEN chip ELSE plan[k+1].start

Gapless ==
  /\ pc \in {"read", "tail"} =>
       /\ \A k \in Entries : k <= LastLow /\ tab[k].at = 0 => Follows(k)
       /\ pos1 = IF LastLow >= 1 THEN End(LastLow) ELSE Base
  /\ pc = "tail" =>
       /\ \A k \in Entries : k > i => Meets(k)
       /\ pos2 = IF i = Len(tab) THEN chip ELSE plan[i+1].start
  /\ pc \in {"write", "check", "emit", "done"} /\ (rest = 0 \/ half # rest) =>
       /\ \A k \in Entries : tab[k].at = 0 => Follows(k)
       /\ rest # 0 => End(Len(tab)) = chip

LEMMA GaplessReadLine == Stage /\ Plain /\ Gapless /\ ReadLine => Gapless'
  <1> SUFFICES ASSUME Stage, Plain, Gapless, ReadLine PROVE Gapless'
    OBVIOUS
  <1> DEFINE line == tab[i]
  <1>1. /\ i \in Entries /\ Entries' = Entries /\ pc' = "read" /\ pc = "read" /\ i' = i + 1
        /\ rest' = (IF line.rest THEN i ELSE rest) /\ tab' = tab /\ ~BadLine(line)
    BY DEF ReadLine, InList, args, Entries
  <1>2. /\ Entries = 1..Len(tab) /\ Len(tab) \in Nat
        /\ pos1 \in Int /\ i \in Nat /\ i >= 1 /\ rest \in Nat /\ rest < i
    BY <1>1, TabType DEF Stage
  <1>3. Base' = Base
    BY VariantStays DEF Base
  <1>4. CASE Low(line)
    <2>1. /\ LowSize(line) \in Nat /\ LowStart(line) \in Int
          /\ line.at = 0 => LowStart(line) = pos1
      BY <1>1, <1>2, LineFits DEF Plain, LowStart
    <2>2. /\ plan' = [plan EXCEPT ![i] = [start |-> LowStart(line), size |-> LowSize(line)]]
          /\ pos1' = LowEnd(line)
      BY <1>4 DEF ReadLine
    <2>3. /\ plan'[i].start = LowStart(line) /\ plan'[i].size = LowSize(line)
          /\ \A j \in Entries : j # i => plan'[j] = plan[j]
      BY <1>1, <2>1, <2>2, PutType DEF Stage
    <2>4. rest = 0 /\ rest' = 0 /\ LastLow' = i /\ LastLow = i - 1
      BY <1>1, <1>2, <1>4 DEF Low, LastLow
    <2>5. \A j \in Entries : j # i => End(j)' = End(j)
      BY <2>3 DEF End
    <2>6. \A j \in Entries : j = i => End(j)' = pos1'
      BY <2>2, <2>3 DEF End, LowEnd
    <2>7. ASSUME NEW k \in Entries, k <= i, tab[k].at = 0 PROVE Follows(k)'
      <3>1. CASE k = i
        <4>1. pos1 = IF i > 1 THEN End(i-1) ELSE Base
          BY <1>1, <1>2, <2>4 DEF Gapless
        <4>2. k > 1 => k - 1 \in Entries /\ End(k-1)' = End(k-1)
          BY <1>1, <1>2, <2>5, <3>1
        <4>3. plan'[k].start = pos1
          BY <2>1, <2>3, <2>7, <3>1
        <4> QED
          BY <1>3, <3>1, <4>1, <4>2, <4>3 DEF Follows
      <3>2. CASE k # i
        <4>1. Follows(k)
          BY <1>1, <1>2, <2>4, <2>7, <3>2 DEF Gapless
        <4>2. k > 1 => k - 1 \in Entries /\ k - 1 # i
          BY <1>1, <1>2, <2>7, <3>2
        <4> QED
          BY <1>2, <1>3, <2>3, <2>5, <3>2, <4>1, <4>2 DEF Follows
      <3> QED BY <3>1, <3>2
    <2>8. pos1' = End(LastLow)' /\ LastLow' >= 1
      BY <1>1, <1>2, <2>4, <2>6
    <2>9. \A k \in Entries : k <= LastLow' /\ tab[k].at = 0 => Follows(k)'
      BY <2>4, <2>7
    <2> QED
      BY <1>1, <2>8, <2>9 DEF Gapless
  <1>5. CASE ~Low(line)
    <2>1. plan' = plan /\ pos1' = pos1
      BY <1>5 DEF ReadLine
    <2>2. rest # 0 => ~line.rest
      BY <1>1 DEF BadLine
    <2>3. LastLow' = LastLow
      BY <1>1, <1>2, <1>5, <2>2 DEF Low, LastLow
    <2> QED
      BY <1>1, <1>3, <2>1, <2>3 DEF Gapless, Follows, End
  <1> QED BY <1>4, <1>5

LEMMA GaplessEndRead == Stage /\ Gapless /\ EndRead => Gapless'
  <1> SUFFICES ASSUME Stage, Gapless, EndRead PROVE Gapless'
    OBVIOUS
  <1>1. Entries = 1..Len(tab) /\ Len(tab) \in Nat
    BY TabType DEF Stage
  <1>2. /\ Entries' = Entries /\ pos1' = pos1 /\ plan' = plan /\ rest' = rest /\ chip' = chip
        /\ tab' = tab /\ pc = "read" /\ Base' = Base
    BY VariantStays DEF EndRead, args, Entries, Base
  <1>3. i = Len(tab) + 1
    BY <1>1, <1>2 DEF EndRead, Stage
  <1>4. LastLow' = LastLow /\ (rest = 0 => LastLow = Len(tab))
    BY <1>1, <1>2, <1>3 DEF LastLow, EndRead
  <1>5. CASE rest = 0
    BY <1>1, <1>2, <1>4, <1>5 DEF EndRead, Gapless, Follows, End
  <1>6. CASE rest # 0
    <2>1. pc' = "tail" /\ i' = Len(tab) /\ pos2' = chip
      BY <1>6 DEF EndRead
    <2> QED
      BY <1>1, <1>2, <1>4, <2>1 DEF Gapless, Follows, End
  <1> QED BY <1>5, <1>6

LEMMA GaplessPlaceHigh == Stage /\ Plain /\ Gapless /\ PlaceHigh => Gapless'
  <1> SUFFICES ASSUME Stage, Plain, Gapless, PlaceHigh PROVE Gapless'
    OBVIOUS
  <1> DEFINE line == tab[i]
  <1>1. /\ Entries' = Entries /\ pos1' = pos1 /\ rest' = rest /\ i' = i - 1
        /\ pc = "tail" /\ pc' = "tail" /\ i > rest /\ tab' = tab
        /\ pos2' = HighEnd(line) - HighSize(line) /\ chip' = LowChip(line)
        /\ plan' = [plan EXCEPT ![i] = [start |-> HighStart(line), size |-> HighSize(line)]]
        /\ Base' = Base
    BY VariantStays DEF PlaceHigh, args, Entries, Base
  <1>2. /\ i \in Entries /\ Entries = 1..Len(tab) /\ Len(tab) \in Nat /\ rest \in Entries
        /\ pos2 \in Int /\ line.size \in Nat /\ HighSize(line) = line.size
        /\ pos2' = pos2 - line.size /\ chip' = chip /\ chip \in Int
        /\ HighStart(line) = IF line.at = 0 THEN pos2 - line.size ELSE line.at
    BY <1>1, HighLine, RestEntry DEF Stage, Plain, PlainTail, Ok
  <1>3. line.at = 0
    BY <1>1, <1>2 DEF Plain, PlainTail, Behind, Stage
  <1>4. /\ plan'[i].start = pos2 - line.size /\ plan'[i].size = line.size
        /\ \A j \in Entries : j # i => plan'[j] = plan[j]
    BY <1>1, <1>2, <1>3, PutType DEF Stage
  <1>5. \A j \in Entries : j # i => End(j)' = End(j)
    BY <1>4 DEF End
  <1>6. \A j \in Entries : j = i => End(j)' = pos2
    BY <1>2, <1>4 DEF End
  <1>7. LastLow' = rest - 1 /\ LastLow = rest - 1
    BY <1>1, <1>2 DEF LastLow
  <1>8. /\ \A k \in Entries : k <= rest - 1 /\ tab[k].at = 0 => Follows(k)'
        /\ rest - 1 >= 1 => End(rest - 1)' = End(rest - 1)
    <2>1. \A k \in Entries : k <= rest - 1 /\ tab[k].at = 0 =>
            Follows(k) /\ k # i /\ (k > 1 => k - 1 \in Entries /\ k - 1 # i)
      <3>1. ASSUME NEW k \in Entries, k <= rest - 1
            PROVE  k # i /\ (k > 1 => k - 1 \in Entries /\ k - 1 # i)
        BY <1>1, <1>2, <3>1
      <3>2. \A k \in Entries : k <= LastLow /\ tab[k].at = 0 => Follows(k)
        BY <1>1 DEF Gapless
      <3> QED
        BY <1>7, <3>1, <3>2
    <2>2. rest - 1 >= 1 => rest - 1 \in Entries /\ rest - 1 # i
      BY <1>1, <1>2
    <2>3. ASSUME NEW k \in Entries, k <= rest - 1, tab[k].at = 0 PROVE Follows(k)'
      <3>1. Follows(k) /\ plan'[k] = plan[k] /\ (k > 1 => End(k-1)' = End(k-1))
        BY <1>4, <1>5, <2>1, <2>3
      <3> QED
        BY <1>1, <3>1 DEF Follows
    <2> QED
      BY <1>1, <1>5, <2>2, <2>3
  <1>9. ASSUME NEW k \in Entries, k > i - 1 PROVE Meets(k)'
    <2>1. CASE k = i
      <3>1. pos2 = IF k = Len(tab) THEN chip ELSE plan[k+1].start
        BY <1>1, <2>1 DEF Gapless
      <3>2. k # Len(tab) => plan'[k+1] = plan[k+1]
        BY <1>2, <1>4, <2>1
      <3>3. End(k)' = pos2
        BY <1>6, <2>1
      <3> QED
        BY <1>1, <1>2, <3>1, <3>2, <3>3 DEF Meets
    <2>2. CASE k # i
      <3>1. Meets(k) /\ (k # Len(tab) => k + 1 \in Entries /\ k + 1 # i)
        BY <1>1, <1>2, <1>9, <2>2 DEF Gapless
      <3> QED
        BY <1>1, <1>2, <1>4, <1>5, <2>2, <3>1 DEF Meets
    <2> QED BY <2>1, <2>2
  <1>10. pos2' = plan'[i].start /\ i' # Len(tab) /\ i' + 1 = i
    BY <1>1, <1>2, <1>4
  <1> QED
    BY <1>1, <1>2, <1>7, <1>8, <1>9, <1>10 DEF Gapless

LEMMA GaplessPlaceRest == Stage /\ Gapless /\ PlaceRest => Gapless'
  <1> SUFFICES ASSUME Stage, Gapless, PlaceRest PROVE Gapless'
    OBVIOUS
  <1>1. /\ Entries' = Entries /\ pos1' = pos1 /\ rest' = rest /\ pc = "tail" /\ i = rest
        /\ pc' = "write" /\ chip' = chip /\ tab' = tab /\ Base' = Base
        /\ plan' = [plan EXCEPT ![rest] = [start |-> pos1, size |-> pos2 - pos1]]
    BY VariantStays DEF PlaceRest, args, Entries, Base
  <1>2. /\ pos1 \in Int /\ pos2 \in Int /\ pos2 - pos1 \in Int /\ chip \in Int
        /\ rest \in Entries /\ Entries = 1..Len(tab) /\ rest # 0 /\ Len(tab) \in Nat
    BY <1>1, RestEntry DEF Stage
  <1>3. /\ plan'[rest].start = pos1 /\ plan'[rest].size = pos2 - pos1
        /\ \A j \in Entries : j # rest => plan'[j] = plan[j]
    BY <1>1, <1>2, PutType DEF Stage
  <1>4. /\ \A j \in Entries : j = rest => End(j)' = pos2
        /\ \A j \in Entries : j # rest => End(j)' = End(j)
    BY <1>2, <1>3 DEF End
  <1>5. LastLow = rest - 1
    BY <1>1, <1>2 DEF LastLow
  <1>6. ASSUME NEW k \in Entries, tab[k].at = 0 PROVE Follows(k)'
    <2>1. CASE k < rest
      <3>1. Follows(k) /\ (k > 1 => k - 1 \in Entries /\ k - 1 # rest)
        BY <1>1, <1>2, <1>5, <1>6, <2>1 DEF Gapless
      <3> QED
        BY <1>1, <1>2, <1>3, <1>4, <2>1, <3>1 DEF Follows
    <2>2. CASE k = rest
      <3>1. pos1 = IF rest > 1 THEN End(rest - 1) ELSE Base
        BY <1>1, <1>2, <1>5 DEF Gapless
      <3>2. rest > 1 => rest - 1 \in Entries
        BY <1>2
      <3> QED
        BY <1>1, <1>2, <1>3, <1>4, <2>2, <3>1, <3>2 DEF Follows
    <2>3. CASE k = rest + 1
      BY <1>1, <1>2, <1>3, <1>4, <2>3 DEF Follows, Gapless
    <2>4. CASE k > rest + 1
      <3>1. Meets(k - 1) /\ k - 1 \in Entries /\ k - 1 # rest /\ k - 1 # Len(tab)
        BY <1>1, <1>2, <2>4 DEF Gapless
      <3> QED
        BY <1>1, <1>2, <1>3, <1>4, <2>4, <3>1 DEF Follows, Meets
    <2> QED BY <1>2, <2>1, <2>2, <2>3, <2>4
  <1>7. End(Len(tab))' = chip
    <2>1. CASE rest = Len(tab)
      <3>1. pos2 = chip
        BY <1>1, <2>1 DEF Gapless
      <3>2. \A j \in Entries : j = Len(tab) => End(j)' = chip
        BY <1>4, <2>1, <3>1
      <3> QED
        BY <1>1, <1>2, <2>1, <3>2
    <2>2. CASE rest # Len(tab)
      <3>1. Len(tab) \in Entries /\ Len(tab) > i
        BY <1>1, <1>2, <2>2
      <3>2. \A j \in Entries : j = Len(tab) /\ j # rest => End(j)' = chip
        BY <1>1, <1>4, <3>1 DEF Gapless, Meets
      <3> QED
        BY <1>1, <2>2, <3>1, <3>2
    <2> QED BY <2>1, <2>2
  <1> QED
    BY <1>1, <1>6, <1>7 DEF Gapless

LEMMA GaplessNext == Stage /\ Plain /\ Gapless /\ [Next]_vars => Gapless'
  <1> SUFFICES ASSUME Stage, Plain, Gapless, [Next]_vars PROVE Gapless'
    OBVIOUS
  <1>1. CASE UNCHANGED vars
    BY <1>1, VariantStays DEF vars, args, place, Gapless, LastLow, Follows, Meets, End, Entries, Base
  <1>2. CASE RejectLine \/ RejectHigh \/ RejectOverlap \/ RejectPreboot \/ IoError
    BY <1>2 DEF RejectLine, RejectHigh, RejectOverlap, RejectPreboot, IoError, Rejected, Gapless
  <1>3. CASE WritePartTable \/ CheckEntry \/ OpenFiles \/ EmitEntry \/ Finish
    <2>1. /\ Entries' = Entries /\ UNCHANGED <<args, place>> /\ Base' = Base
          /\ pc \in {"write", "check", "emit"} /\ pc' \in {"check", "emit", "done"}
      BY <1>3, VariantStays DEF WritePartTable, CheckEntry, OpenFiles, EmitEntry, Finish, args,
        Entries, Base
    <2> QED
      BY <2>1 DEF args, place, Gapless, Follows, End
  <1>4. CASE PlaceHalfRest \/ RedoHigh \/ EndRedo
    <2>1. rest' = half' /\ rest' # 0 /\ pc' \in {"redo", "write"}
      BY <1>4 DEF PlaceHalfRest, RedoHigh, EndRedo, place, Stage
    <2> QED
      BY <2>1 DEF Gapless
  <1> QED
    BY <1>1, <1>2, <1>3, <1>4, GaplessReadLine, GaplessEndRead, GaplessPlaceHigh,
      GaplessPlaceRest DEF Next

GaplessInv == Plain => Gapless

LEMMA PlainStays == [Next]_vars => (Plain' <=> Plain)
  BY ArgsStay DEF Plain, Fits, PlainTail, LowHalf, Behind, Entries

\* An accepted list leaves nothing of the flash unused: entries without an
\* offset start where the one before them ends, and "-" takes the rest.
THEOREM NothingIsLost == Spec => []NoGaps
  <1>1. Init => GaplessInv
    BY ReserveAssumption DEF Init, GaplessInv, Gapless, LastLow, Base, Entries
  <1>2. TypeInv /\ GaplessInv /\ [Next]_vars => GaplessInv'
    BY PlainStays, GaplessNext DEF TypeInv, GaplessInv
  <1>3. GaplessInv => NoGaps
    BY DEF GaplessInv, NoGaps, Accepted, Plain, Gapless, Follows, Base
  <1> QED
    BY <1>1, <1>2, <1>3, TypeInvariant, PTL DEF Spec

-----------------------------------------------------------------------------
(* Quotients of starts and sizes by the sector, the block and the MB.      *)

\* What a quotient is, and that it is the only one.
LEMMA DivBounds ==
  ASSUME NEW x \in Int, NEW d \in Nat \ {0}
  PROVE  x \div d \in Int /\ d * (x \div d) <= x /\ x < d * (x \div d) + d
  OBVIOUS

LEMMA ProductGrows ==
  ASSUME NEW d \in Nat \ {0}, NEW p \in Int, NEW q \in Int, d * p < d * q + d
  PROVE  p <= q
  <1> SUFFICES ASSUME p >= q + 1 PROVE FALSE
    OBVIOUS
  <1> QED OBVIOUS

LEMMA DivUnique ==
  ASSUME NEW x \in Int, NEW d \in Nat \ {0}, NEW q \in Int, d * q <= x, x < d * q + d
  PROVE  x \div d = q
  <1> DEFINE p == x \div d
  <1>1. p \in Int /\ d * p <= x /\ x < d * p + d
    BY DivBounds
  <1>0. d * p \in Int /\ d * q \in Int
    BY <1>1
  <1> HIDE DEF p
  <1>2. d * p < d * q + d /\ d * q < d * p + d
    BY <1>0, <1>1
  <1>3. p <= q /\ q <= p
    BY <1>1, <1>2, ProductGrows
  <1> QED
    BY <1>1, <1>3 DEF p

LEMMA DivMonotone ==
  ASSUME NEW x \in Int, NEW y \in Int, NEW d \in Nat \ {0}, x <= y
  PROVE  x \div d <= y \div d
  <1> DEFINE p == x \div d  q == y \div d
  <1>1. p \in Int /\ d * p <= x /\ q \in Int /\ y < d * q + d
    BY DivBounds
  <1>2. d * p \in Int /\ d * q \in Int
    BY <1>1
  <1> HIDE DEF p, q
  <1>3. d * p < d * q + d
    BY <1>1, <1>2
  <1> QED
    BY <1>1, <1>3, ProductGrows DEF p, q

\* Rounding down to sectors first does not change what it is in larger units.
LEMMA Multiple ==
  ASSUME NEW x \in Nat \ {0}, NEW s \in Nat \ {0}, x % s = 0
  PROVE  \E n \in Nat \ {0} : x = s * n
  <1>1. x \div s \in Int /\ x = s * (x \div s)
    OBVIOUS
  <1>2. x \div s > 0
    BY <1>1
  <1> QED
    BY <1>1, <1>2

LEMMA DivOfDiv ==
  ASSUME NEW x \in Int, NEW s \in Nat \ {0}, NEW d \in Nat \ {0}, d % s = 0
  PROVE  ((x \div s) * s) \div d = x \div d
  <1> DEFINE p == x \div d  q == x \div s
  <1>1. PICK n \in Nat \ {0} : d = s * n
    BY Multiple
  <1>2. /\ p \in Int /\ d * p <= x /\ x < d * p + d
        /\ q \in Int /\ s * q <= x /\ x < s * q + s
    BY DivBounds
  <1> HIDE DEF p, q
  <1>3. d * p = s * (n * p) /\ n * p \in Int
    BY <1>1, <1>2
  <1>4. s * (n * p) < s * q + s
    <2>1. s * (n * p) \in Int /\ s * q \in Int
      BY <1>2, <1>3
    <2> QED BY <1>2, <1>3, <2>1
  <1>5. n * p <= q
    BY <1>2, <1>3, <1>4, ProductGrows
  <1>6. s * (n * p) <= s * q
    BY <1>2, <1>3, <1>5
  <1>7. q * s \in Int /\ q * s = s * q /\ d * p \in Int
    BY <1>2
  <1>8. d * p <= q * s /\ q * s < d * p + d
    BY <1>2, <1>3, <1>6, <1>7
  <1>9. (q * s) \div d = p
    BY <1>2, <1>7, <1>8, DivUnique
  <1> QED
    BY <1>9 DEF p, q

-----------------------------------------------------------------------------
(* What the files say of an entry.  records and list are made from the     *)
(* same plan that the other files are made from, entry by entry.           *)

Described ==
  pc \in {"check", "emit", "done"} /\ Emmc => records = Records /\ list = PartList

LayoutEntries ==
  {[name |-> "preboot", start |-> 0, blks |-> 1]} \cup {LayoutLine(k) : k \in Entries}
ImageEntries ==
  {[image |-> "preboot", at |-> "b1"], [image |-> "preboot", at |-> "b2"]}
    \cup {ImageLine(k) : k \in Entries}

Emitted ==
  /\ pc \in {"emit", "done"} /\ Emmc =>
       /\ layout \in Seq(LayoutEntries) /\ images \in Seq(ImageEntries)
       /\ Len(images) = Len(layout) + 1 /\ Len(images) >= 2
       /\ \A m \in 3..Len(images) : \E k \in Entries :
            ~tab[k].hidden /\ images[m] = ImageLine(k) /\ layout[m-1] = LayoutLine(k)
  /\ pc = "done" => header = Len(rows)

\* From the table on nothing moves.
LEMMA PlaceStays ==
  ASSUME WritePartTable \/ CheckEntry \/ OpenFiles \/ EmitEntry \/ Finish \/ UNCHANGED vars
  PROVE  /\ tab' = tab /\ Entries' = Entries /\ plan' = plan /\ half' = half /\ rest' = rest
         /\ chip' = chip /\ (Emmc' <=> Emmc)
         /\ Records' = Records /\ PartList' = PartList
         /\ LayoutEntries' = LayoutEntries /\ ImageEntries' = ImageEntries
         /\ \A k \in Entries : LayoutLine(k)' = LayoutLine(k)
  <1>1. tab' = tab /\ Entries' = Entries /\ plan' = plan /\ half' = half /\ rest' = rest /\ chip' = chip
    BY DEF WritePartTable, CheckEntry, OpenFiles, EmitEntry, Finish, vars, args, place, Entries
  <1> QED
    BY <1>1, VariantStays DEF Records, PartList, LayoutEntries, ImageEntries, LayoutLine, ImageLine

LEMMA DescribedNext == Described /\ [Next]_vars => Described'
  <1> SUFFICES ASSUME Described, [Next]_vars PROVE Described'
    OBVIOUS
  <1>1. CASE WritePartTable
    BY <1>1, PlaceStays DEF WritePartTable, Described
  <1>2. CASE CheckEntry \/ OpenFiles \/ EmitEntry \/ Finish \/ UNCHANGED vars
    <2>1. records' = records /\ list' = list /\ (pc' \in {"check", "emit", "done"} => pc \in {"check", "emit", "done"})
      BY <1>2 DEF CheckEntry, OpenFiles, EmitEntry, Finish, vars, parts
    <2> QED
      BY <1>2, <2>1, PlaceStays DEF Described
  <1>3. CASE ~(WritePartTable \/ CheckEntry \/ OpenFiles \/ EmitEntry \/ Finish \/ UNCHANGED vars)
    <2>1. pc' \notin {"check", "emit", "done"}
      BY <1>3 DEF Next, ReadLine, InList, RejectLine, EndRead, PlaceHigh, PlaceRest, PlaceHalfRest,
        RedoHigh, EndRedo, RejectHigh, RejectOverlap, RejectPreboot, IoError, Rejected
    <2> QED BY <2>1 DEF Described
  <1> QED BY <1>1, <1>2, <1>3

LEMMA EmittedEntry == Emitted /\ EmitEntry => Emitted'
  <1> SUFFICES ASSUME Emitted, EmitEntry PROVE Emitted'
    OBVIOUS
  <1>1. pc = "emit" /\ pc' = "emit" /\ i \in Entries
    BY DEF EmitEntry
  <1>2. CASE Emmc /\ ~tab[i].hidden
    <2>1. layout' = Append(layout, LayoutLine(i)) /\ images' = Append(images, ImageLine(i))
      BY <1>2 DEF EmitEntry
    <2>2. /\ layout \in Seq(LayoutEntries) /\ LayoutLine(i) \in LayoutEntries
          /\ images \in Seq(ImageEntries) /\ ImageLine(i) \in ImageEntries
      BY <1>1, <1>2 DEF Emitted, LayoutEntries, ImageEntries
    <2>3. /\ layout' \in Seq(LayoutEntries) /\ Len(layout') = Len(layout) + 1
          /\ \A m \in 1..Len(layout) : layout'[m] = layout[m]
          /\ layout'[Len(layout) + 1] = LayoutLine(i) /\ Len(layout) \in Nat
      BY <2>1, <2>2, AppendProperties
    <2>4. /\ images' \in Seq(ImageEntries) /\ Len(images') = Len(images) + 1
          /\ \A m \in 1..Len(images) : images'[m] = images[m]
          /\ images'[Len(images) + 1] = ImageLine(i) /\ Len(images) \in Nat
      BY <2>1, <2>2, AppendProperties
    <2>5. Len(images) = Len(layout) + 1 /\ Len(images) >= 2
      BY <1>1, <1>2 DEF Emitted
    <2>6. ASSUME NEW m \in 3..Len(images')
          PROVE  \E k \in Entries : /\ ~tab[k].hidden /\ images'[m] = ImageLine(k)
                                    /\ layout'[m-1] = LayoutLine(k)
      <3>1. CASE m = Len(images) + 1
        BY <1>1, <1>2, <2>3, <2>4, <2>5, <3>1
      <3>2. CASE m # Len(images) + 1
        <4>1. m \in 3..Len(images) /\ m \in 1..Len(images) /\ m - 1 \in 1..Len(layout)
          BY <2>4, <2>5, <3>2
        <4>2. PICK k \in Entries : ~tab[k].hidden /\ images[m] = ImageLine(k) /\ layout[m-1] = LayoutLine(k)
          BY <1>1, <1>2, <4>1 DEF Emitted
        <4> QED
          BY <2>3, <2>4, <4>1, <4>2
      <3> QED BY <3>1, <3>2
    <2>7. \A k \in Entries : ImageLine(k)' = ImageLine(k)
      BY PlaceStays DEF ImageLine
    <2> QED
      BY <1>1, <2>3, <2>4, <2>5, <2>6, <2>7, PlaceStays DEF Emitted
  <1>3. CASE ~(Emmc /\ ~tab[i].hidden)
    <2>1. Emmc => layout' = layout /\ images' = images
      BY <1>3 DEF EmitEntry
    <2>2. \A k \in Entries : ImageLine(k)' = ImageLine(k)
      BY PlaceStays DEF ImageLine
    <2> QED
      BY <1>1, <2>1, <2>2, PlaceStays DEF Emitted
  <1> QED BY <1>2, <1>3

LEMMA EmittedNext == Emitted /\ [Next]_vars => Emitted'
  <1> SUFFICES ASSUME Emitted, [Next]_vars PROVE Emitted'
    OBVIOUS
  <1>1. CASE OpenFiles
    <2>1. pc' = "emit" /\ (Emmc =>
            /\ layout' = <<[name |-> "preboot", start |-> 0, blks |-> 1]>>
            /\ images' = <<[image |-> "preboot", at |-> "b1"], [image |-> "preboot", at |-> "b2"]>>)
      BY <1>1 DEF OpenFiles
    <2>2. /\ [name |-> "preboot", start |-> 0, blks |-> 1] \in LayoutEntries
          /\ [image |-> "preboot", at |-> "b1"] \in ImageEntries
          /\ [image |-> "preboot", at |-> "b2"] \in ImageEntries
      BY DEF LayoutEntries, ImageEntries
    <2>3. \A S, x, y : x \in S /\ y \in S =>
            <<x>> \in Seq(S) /\ <<x, y>> \in Seq(S) /\ Len(<<x>>) = 1 /\ Len(<<x, y>>) = 2
      OBVIOUS
    <2>4. Emmc => layout' \in Seq(LayoutEntries) /\ Len(layout') = 1
      BY <2>1, <2>2, <2>3
    <2>5. Emmc => images' \in Seq(ImageEntries) /\ Len(images') = 2
      BY <2>1, <2>2, <2>3
    <2>7. 3..2 = {}
      OBVIOUS
    <2>8. Emmc => \A m \in 3..Len(images') : FALSE
      BY <2>5, <2>7
    <2>6. LayoutEntries' = LayoutEntries /\ ImageEntries' = ImageEntries /\ (Emmc' <=> Emmc)
      BY <1>1, PlaceStays
    <2> QED
      <3> SUFFICES ASSUME Emmc'
                   PROVE  /\ layout' \in Seq(LayoutEntries') /\ images' \in Seq(ImageEntries')
                          /\ Len(images') = Len(layout') + 1 /\ Len(images') >= 2
                          /\ \A m \in 3..Len(images') : FALSE
        BY <2>1 DEF Emitted
      <3>1. Emmc
        BY <2>6
      <3>2. layout' \in Seq(LayoutEntries') /\ images' \in Seq(ImageEntries')
        BY <2>4, <2>5, <2>6, <3>1, Zenon
      <3>3. Len(layout') = 1 /\ Len(images') = 2
        BY <2>4, <2>5, <3>1, Zenon
      <3>4. Len(images') = Len(layout') + 1 /\ Len(images') >= 2
        BY <3>3
      <3>5. \A m \in 3..Len(images') : FALSE
        BY <2>8, <3>1, Zenon
      <3> QED
        BY <3>2, <3>4, <3>5, Zenon
  <1>2. CASE Finish \/ UNCHANGED vars
    <2>1. layout' = layout /\ images' = images /\ \A k \in Entries : ImageLine(k)' = ImageLine(k)
      BY <1>2, PlaceStays DEF Finish, vars, files, ImageLine
    <2>2. pc' \in {"emit", "done"} => pc \in {"emit", "done"}
      BY <1>2 DEF Finish, vars
    <2>3. pc' = "done" => header' = Len(rows')
      BY <1>2 DEF Finish, vars, files, Emitted
    <2> QED
      BY <1>2, <2>1, <2>2, <2>3, PlaceStays DEF Emitted
  <1>3. CASE ~(OpenFiles \/ EmitEntry \/ Finish \/ UNCHANGED vars)
    <2>1. pc' \notin {"emit", "done"}
      BY <1>3 DEF Next, ReadLine, InList, RejectLine, EndRead, PlaceHigh, PlaceRest, PlaceHalfRest,
        RedoHigh, EndRedo, RejectHigh, WritePartTable, CheckEntry, RejectOverlap, RejectPreboot,
        IoError, Rejected
    <2> QED BY <2>1 DEF Emitted
  <1> QED BY <1>1, <1>2, <1>3, EmittedEntry

\* The units of the files: a partition lies in the block, and in the MB, that
\* its first sector lies in.
LEMMA UnitsAgree ==
  ASSUME TypeInv, Described, Emmc, pc = "done", NEW k \in Entries
  PROVE  /\ (records[k].start * Sector) \div Block = Blocks(plan[k].start)
         /\ (records[k].start * Sector) \div MB = InMB(plan[k].start)
  <1>1. Unsigned(plan[k].start) \in Int
    BY HalfType DEF TypeInv, Stage
  <1>2. records[k].start = Unsigned(plan[k].start) \div Sector
    BY DEF Described, Records
  <1>3. /\ Sector \in Nat \ {0} /\ Block \in Nat \ {0} /\ MB \in Nat \ {0}
        /\ Block % Sector = 0 /\ MB % Sector = 0
    BY UnitAssumption, SectorAssumption DEF Emmc
  <1>4. /\ ((Unsigned(plan[k].start) \div Sector) * Sector) \div Block
             = Unsigned(plan[k].start) \div Block
        /\ ((Unsigned(plan[k].start) \div Sector) * Sector) \div MB
             = Unsigned(plan[k].start) \div MB
    <2> DEFINE x == Unsigned(plan[k].start)
    <2> HIDE DEF x
    <2>1. x \in Int => /\ ((x \div Sector) * Sector) \div Block = x \div Block
                       /\ ((x \div Sector) * Sector) \div MB = x \div MB
      BY <1>3, DivOfDiv
    <2> QED
      BY <1>1, <2>1 DEF x
  <1> QED
    BY <1>2, <1>4 DEF Blocks, InMB

\* A reader of emmc_part_list that takes 0 for "behind the one before" finds
\* every partition: 0 also stands for a partition in the first MB, and then the
\* one before it is there, with a size that rounds to 0.
LEMMA ListReads ==
  ASSUME TypeInv, Above, Apart, Emmc, pc = "done", list = PartList, NEW k \in Entries
  PROVE  InMB(plan[k].start) =
           IF list[k].start # 0 THEN list[k].start
           ELSE IF k = 1 THEN 0 ELSE InMB(plan[k-1].start) + list[k-1].size
  <1>1. /\ Entries = 1..Len(tab) /\ Len(tab) \in Nat /\ MB \in Nat \ {0}
        /\ \A j \in Entries : /\ plan[j].start \in Int /\ plan[j].size \in Int
                              /\ plan[j].start >= 0 /\ plan[j].size >= 0
    BY TabType, UnitAssumption DEF TypeInv, Stage, Above, NonNeg
  <1>2. \A j \in Entries : /\ InMB(plan[j].start) \in Int /\ InMB(plan[j].start) >= 0
                           /\ InMB(plan[j].size) \in Int /\ InMB(plan[j].size) >= 0
    <2> SUFFICES ASSUME NEW x \in Int, x >= 0 PROVE InMB(x) \in Int /\ InMB(x) >= 0
      BY <1>1
    <2>1. 0 \div MB = 0
      BY <1>1, DivUnique
    <2>2. x \div MB \in Int
      BY <1>1, DivBounds
    <2>3. \A y \in Int : y <= x => y \div MB <= x \div MB
      BY <1>1, DivMonotone
    <2>4. 0 \div MB <= x \div MB
      BY <2>3
    <2> QED BY <2>1, <2>2, <2>4 DEF InMB, Unsigned
  <1>3. CASE k = 1
    BY <1>2, <1>3 DEF PartList
  <1>4. CASE k # 1
    <2>1. k - 1 \in Entries /\ k - 1 \in 1..(k - 1)
      BY <1>1, <1>4
    <2>2. End(k-1) <= plan[k].start
      BY <2>1 DEF Apart
    <2>3. plan[k-1].size <= plan[k].start
      BY <1>1, <2>1, <2>2 DEF End
    <2>4. plan[k-1].start <= plan[k].start
      BY <1>1, <2>1, <2>2 DEF End
    <2>5. /\ InMB(plan[k-1].size) <= InMB(plan[k].start)
          /\ InMB(plan[k-1].start) <= InMB(plan[k].start)
      BY <1>1, <2>1, <2>3, <2>4, DivMonotone DEF InMB, Unsigned
    <2>6. /\ list[k-1].size = InMB(plan[k-1].size)
          /\ list[k].start = IF InMB(plan[k].start) = InMB(plan[k-1].start) + InMB(plan[k-1].size)
                             THEN 0 ELSE InMB(plan[k].start)
      BY <1>4, <2>1 DEF PartList
    <2> QED
      BY <1>2, <1>4, <2>1, <2>5, <2>6
  <1> QED BY <1>3, <1>4

\* The files that parse_pt writes agree with one another on every partition.
THEOREM FilesTellTheSame == Spec => []FilesAgree
  <1>1. Init => Described /\ Emitted
    BY DEF Init, Described, Emitted
  <1>2. Described /\ Emitted /\ [Next]_vars => Described' /\ Emitted'
    BY DescribedNext, EmittedNext
  <1>3. TypeInv /\ DisjointInv /\ Described /\ Emitted => FilesAgree
    <2> SUFFICES ASSUME TypeInv, DisjointInv, Described, Emitted, pc = "done" PROVE FilesAgree
      BY DEF FilesAgree
    <2>1. header = Len(rows)
      BY DEF Emitted
    <2>2. ASSUME Emmc, NEW m \in 3..Len(images)
          PROVE  LET k == images[m].at IN
                 /\ k \in Entries /\ ~tab[k].hidden /\ tab[k].name = images[m].image
                 /\ layout[m-1].name = images[m].image
                 /\ layout[m-1].start = (records[k].start * Sector) \div Block
      <3>1. PICK k \in Entries : /\ ~tab[k].hidden /\ images[m] = ImageLine(k)
                                 /\ layout[m-1] = LayoutLine(k)
        BY <2>2 DEF Emitted
      <3>2. (records[k].start * Sector) \div Block = Blocks(plan[k].start)
        BY <2>2, UnitsAgree
      <3> QED
        BY <3>1, <3>2 DEF ImageLine, LayoutLine
    <2>3. ASSUME Emmc, Fits, LowHalf, NEW k \in Entries
          PROVE  LET at(j) == (records[j].start * Sector) \div MB IN
                 at(k) = IF list[k].start # 0 THEN list[k].start
                         ELSE IF k = 1 THEN 0 ELSE at(k-1) + list[k-1].size
      <3>1. Above /\ Apart /\ list = PartList
        BY <2>3 DEF DisjointInv, Ok, Described
      <3>2. \A j \in Entries : (records[j].start * Sector) \div MB = InMB(plan[j].start)
        BY <2>3, UnitsAgree
      <3>3. k # 1 => k - 1 \in Entries
        BY TabType DEF TypeInv, Stage
      <3> QED
        BY <2>3, <3>1, <3>2, <3>3, ListReads
    <2> QED
      BY <2>1, <2>2, <2>3 DEF FilesAgree
  <1> QED
    BY <1>1, <1>2, <1>3, TypeInvariant, DisjointInvariant, PTL DEF Spec

-----------------------------------------------------------------------------
(* The version table of NAND.  Where no name begins with the name of        *)
(* another, a hidden entry is the back-up of one entry at most, that entry  *)
(* is not hidden and has no other back-up: the row of the one names both.   *)

NamesClear ==
  \A k, j \in Entries :
    k # j /\ tab[k].name \in Begins[tab[j].name] =>
      tab[k].name = tab[j].name /\ tab[k].hidden # tab[j].hidden

Paired ==
  /\ \A j \in Entries : back[j] # 0 =>
       /\ back[j] \in copies /\ back[j] # j /\ ~tab[j].hidden
       /\ tab[back[j]].name \in Begins[tab[j].name]
  /\ \A k \in copies : tab[k].hidden /\ \E j \in Entries : back[j] = k /\ ~tab[j].hidden

RowsOfEntries == {Row(k) : k \in Entries}

Rowed ==
  /\ pc \notin {"emit", "done", "failed"} => rows = <<>>
  /\ pc \in {"emit", "done"} =>
       /\ rows \in Seq(RowsOfEntries)
       /\ \A k \in Entries : (pc = "emit" => k < i) /\ k \notin copies =>
            \E r \in DOMAIN rows : rows[r] = Row(k)

RecordedInv == ~Emmc /\ NamesClear => Paired /\ Rowed

LEMMA PairedCheck ==
  ASSUME TypeInv, NamesClear, ~Emmc, Paired, CheckEntry
  PROVE  Paired'
  <1>1. /\ tab' = tab /\ Entries' = Entries /\ i \in Entries
        /\ Entries = 1..Len(tab) /\ Len(tab) \in Nat
        /\ back \in [Entries -> 0..Len(tab)]
    BY TabType DEF CheckEntry, args, Entries, TypeInv, Stage
  <1>2. \A k \in Entries : tab[k].hidden \in BOOLEAN
    BY TabType DEF TypeInv, Stage, Line
  <1>3. CASE UNCHANGED names
    BY <1>1, <1>3 DEF names, Paired
  <1>4. CASE ~UNCHANGED names
    <2> DEFINE m == CHOOSE j \in BackedUpBy(i) : \A l \in BackedUpBy(i) : j <= l
    <2>1. /\ tab[i].hidden /\ BackedUpBy(i) # {}
          /\ back' = [back EXCEPT ![m] = i] /\ copies' = copies \cup {i}
      BY <1>4 DEF CheckEntry, TakeName
    <2>2. \A j \in BackedUpBy(i) :
            /\ j \in Entries /\ j # i /\ tab[i].name \in Begins[tab[j].name]
            /\ tab[i].name = tab[j].name /\ ~tab[j].hidden
      BY <1>1, <1>2, <2>1 DEF BackedUpBy, NamesClear
    <2>3. ASSUME NEW j \in BackedUpBy(i), NEW l \in BackedUpBy(i), j # l PROVE FALSE
      BY <1>1, <1>2, <2>2, <2>3 DEF NamesClear
    <2>4. PICK n \in BackedUpBy(i) : BackedUpBy(i) = {n}
      BY <2>1, <2>3
    <2>5. n \in Entries /\ n <= n
      BY <1>1, <2>2
    <2>6. m = n
      BY <2>4, <2>5
    <2> HIDE DEF m
    <2>7. /\ back'[n] = i /\ n \in Entries /\ n # i /\ ~tab[n].hidden
          /\ tab[i].name \in Begins[tab[n].name] /\ tab[i].name = tab[n].name
          /\ \A j \in Entries : j # n => back'[j] = back[j]
      BY <1>1, <2>1, <2>2, <2>6
    <2>8. back[n] # 0 => back[n] = i
      <3> SUFFICES ASSUME back[n] # 0, back[n] # i PROVE FALSE
        OBVIOUS
      <3> DEFINE o == back[n]
      <3>1. /\ o \in copies /\ o \in Entries /\ o # n /\ o # i
            /\ tab[o].name \in Begins[tab[n].name] /\ tab[o].hidden
        BY <2>7 DEF Paired, TypeInv
      <3> HIDE DEF o
      <3>2. tab[o].name = tab[n].name
        BY <2>7, <3>1 DEF NamesClear
      <3>3. tab[i].name \in Begins[tab[o].name]
        BY <2>7, <3>2
      <3> QED
        BY <1>1, <1>2, <2>1, <3>1, <3>3 DEF NamesClear
    <2>9. \A j \in Entries : back'[j] # 0 =>
            /\ back'[j] \in copies' /\ back'[j] # j /\ ~tab[j].hidden
            /\ tab[back'[j]].name \in Begins[tab[j].name]
      BY <2>1, <2>7 DEF Paired
    <2>10. ASSUME NEW k \in copies'
           PROVE  tab[k].hidden /\ \E j \in Entries : back'[j] = k /\ ~tab[j].hidden
      <3>1. CASE k = i
        BY <2>1, <2>7, <3>1
      <3>2. CASE k # i
        <4>1. k \in copies
          BY <2>1, <2>10, <3>2
        <4>2. PICK j \in Entries : back[j] = k /\ ~tab[j].hidden
          BY <4>1 DEF Paired
        <4>3. k # 0
          BY <1>1, <4>1 DEF TypeInv
        <4>4. j # n
          BY <2>8, <3>2, <4>2, <4>3
        <4> QED
          BY <2>7, <4>1, <4>2, <4>4 DEF Paired
      <3> QED BY <3>1, <3>2
    <2> QED
      BY <1>1, <2>9, <2>10 DEF Paired
  <1> QED BY <1>3, <1>4

LEMMA PairedNext ==
  ASSUME TypeInv, NamesClear, ~Emmc, Paired, [Next]_vars
  PROVE  Paired'
  <1>1. CASE CheckEntry
    BY <1>1, PairedCheck
  <1>2. CASE ~CheckEntry
    <2>1. UNCHANGED <<tab, names>>
      BY <1>2 DEF Next, vars, ReadLine, RejectLine, EndRead, PlaceHigh, PlaceRest, PlaceHalfRest,
        RedoHigh, EndRedo, RejectHigh, WritePartTable, RejectOverlap, OpenFiles, EmitEntry,
        RejectPreboot, Finish, IoError, Rejected, args
    <2> QED
      BY <2>1 DEF names, Paired, Entries
  <1> QED BY <1>1, <1>2

\* What a row says does not change while the rows are written.
LEMMA RowStays ==
  ASSUME OpenFiles \/ EmitEntry \/ Finish \/ UNCHANGED vars
  PROVE  /\ Entries' = Entries /\ copies' = copies /\ RowsOfEntries' = RowsOfEntries
         /\ \A k \in Entries : Row(k)' = Row(k)
  <1>1. tab' = tab /\ plan' = plan /\ back' = back /\ copies' = copies
    BY DEF OpenFiles, EmitEntry, Finish, vars, args, place, names
  <1> QED
    BY <1>1 DEF Entries, RowsOfEntries, Row

LEMMA RowedEntry ==
  ASSUME TypeInv, Rowed, EmitEntry
  PROVE  Rowed'
  <1>1. /\ pc = "emit" /\ pc' = "emit" /\ i \in Entries /\ i' = i + 1
        /\ Entries = 1..Len(tab) /\ Len(tab) \in Nat
        /\ rows' = IF i \in copies THEN rows ELSE Append(rows, Row(i))
    BY TabType DEF EmitEntry, TypeInv, Stage
  <1>2. rows \in Seq(RowsOfEntries) /\ Row(i) \in RowsOfEntries
    BY <1>1 DEF Rowed, RowsOfEntries
  <1>3. /\ rows' \in Seq(RowsOfEntries)
        /\ \A r \in DOMAIN rows : r \in DOMAIN rows' /\ rows'[r] = rows[r]
        /\ i \notin copies => \E r \in DOMAIN rows' : rows'[r] = Row(i)
    <2>1. CASE i \in copies
      BY <1>1, <1>2, <2>1
    <2>2. CASE i \notin copies
      <3>1. /\ rows' \in Seq(RowsOfEntries) /\ Len(rows') = Len(rows) + 1
            /\ \A r \in 1..Len(rows) : rows'[r] = rows[r]
            /\ rows'[Len(rows) + 1] = Row(i)
        BY <1>1, <1>2, <2>2, AppendProperties
      <3>2. Len(rows) \in Nat /\ DOMAIN rows = 1..Len(rows) /\ DOMAIN rows' = 1..Len(rows')
        BY <1>2, <3>1
      <3> QED BY <3>1, <3>2
    <2> QED BY <2>1, <2>2
  <1>4. ASSUME NEW k \in Entries, k < i', k \notin copies
        PROVE  \E r \in DOMAIN rows' : rows'[r] = Row(k)
    <2>1. CASE k = i
      BY <1>3, <1>4, <2>1
    <2>2. CASE k # i
      <3>1. k < i
        BY <1>1, <1>4, <2>2
      <3>2. PICK r \in DOMAIN rows : rows[r] = Row(k)
        BY <1>1, <1>4, <3>1 DEF Rowed
      <3> QED BY <1>3, <3>2
    <2> QED BY <2>1, <2>2
  <1> QED
    BY <1>1, <1>3, <1>4, RowStays DEF Rowed

LEMMA RowedNext ==
  ASSUME TypeInv, ~Emmc, Rowed, [Next]_vars
  PROVE  Rowed'
  <1>1. CASE OpenFiles
    <2>1. pc = "check" /\ pc' = "emit" /\ i' = 1 /\ rows' = rows
      BY <1>1 DEF OpenFiles
    <2>2. rows' = <<>> /\ <<>> \in Seq(RowsOfEntries)
      BY <2>1 DEF Rowed
    <2>3. \A k \in Entries : ~(k < 1)
      BY TabType DEF TypeInv, Stage
    <2> QED
      BY <1>1, <2>1, <2>2, <2>3, RowStays DEF Rowed
  <1>2. CASE Finish
    <2>1. pc = "emit" /\ pc' = "done" /\ i \notin Entries /\ rows' = rows
      BY <1>2 DEF Finish
    <2>2. \A k \in Entries : k < i
      BY <2>1, TabType DEF TypeInv, Stage
    <2> QED
      BY <1>2, <2>1, <2>2, RowStays DEF Rowed
  <1>3. CASE UNCHANGED vars
    <2>1. pc' = pc /\ rows' = rows /\ i' = i
      BY <1>3 DEF vars, files
    <2> QED
      BY <1>3, <2>1, RowStays DEF Rowed
  <1>4. CASE RejectLine \/ RejectHigh \/ RejectOverlap \/ RejectPreboot \/ IoError
    BY <1>4 DEF Rowed, RejectLine, RejectHigh, RejectOverlap, RejectPreboot, IoError, Rejected
  <1>5. CASE \/ ReadLine \/ EndRead \/ PlaceHigh \/ PlaceRest \/ PlaceHalfRest \/ RedoHigh
             \/ EndRedo \/ WritePartTable \/ CheckEntry
    <2>1. /\ pc \notin {"emit", "done", "failed"} /\ pc' \notin {"emit", "done", "failed"}
          /\ rows' = rows
      BY <1>5 DEF ReadLine, InList, EndRead, PlaceHigh, PlaceRest, PlaceHalfRest, RedoHigh,
        EndRedo, WritePartTable, CheckEntry, files
    <2> QED
      BY <2>1 DEF Rowed
  <1> QED
    BY <1>1, <1>2, <1>3, <1>4, <1>5, RowedEntry DEF Next

\* Every NAND partition has a place in the version table: a row of its own, or
\* the second half of the row of the partition it is the back-up of.
THEOREM EveryPartitionRecorded == Spec => []Recorded
  <1>1. Init => RecordedInv
    <2> SUFFICES ASSUME Init PROVE RecordedInv
      OBVIOUS
    <2>1. Paired
      BY DEF Init, Paired
    <2>2. Rowed
      BY DEF Init, Rowed
    <2> QED BY <2>1, <2>2 DEF RecordedInv
  <1>2. TypeInv /\ RecordedInv /\ [Next]_vars => RecordedInv'
    <2> SUFFICES ASSUME TypeInv, RecordedInv, [Next]_vars, ~Emmc', NamesClear'
                 PROVE  Paired' /\ Rowed'
      BY DEF RecordedInv
    <2>1. ~Emmc /\ NamesClear
      BY ArgsStay DEF NamesClear, Entries, Emmc
    <2> QED
      BY <2>1, PairedNext, RowedNext DEF RecordedInv
  <1>3. TypeInv /\ RecordedInv => Recorded
    <2> SUFFICES ASSUME TypeInv, RecordedInv, Accepted, ~Emmc, NamesClear, NEW k \in Entries
                 PROVE  \E r \in DOMAIN rows :
                          \/ /\ rows[r].start = Blocks(plan[k].start)
                             /\ rows[r].blks = Blocks(plan[k].size)
                          \/ /\ rows[r].start2 = Blocks(plan[k].start)
                             /\ rows[r].blks2 = Blocks(plan[k].size)
      BY DEF Recorded, NamesClear
    <2>1. \A j \in Entries \ copies : \E r \in DOMAIN rows : rows[r] = Row(j)
      BY DEF RecordedInv, Rowed, Accepted
    <2>2. CASE k \notin copies
      BY <2>1, <2>2 DEF Row
    <2>3. CASE k \in copies
      <3>1. PICK j \in Entries : back[j] = k /\ ~tab[j].hidden
        BY <2>3 DEF RecordedInv, Paired
      <3>2. j \notin copies
        BY <3>1 DEF RecordedInv, Paired
      <3>3. k # 0
        BY TabType DEF TypeInv, Stage
      <3>4. PICK r \in DOMAIN rows : rows[r] = Row(j)
        BY <2>1, <3>1, <3>2
      <3> QED
        BY <3>1, <3>3, <3>4 DEF Row
    <2> QED BY <2>2, <2>3
  <1> QED
    BY <1>1, <1>2, <1>3, TypeInvariant, PTL DEF Spec
=============================================================================
