------------------------------ MODULE PartTable ------------------------------
(***************************************************************************)
(* parse_pt: from the partition list of a product (emmc.pt, nand.pt) to    *)
(* the partition table of the flash and the files that describe it.        *)
(*                                                                         *)
(* A line of the list gives a size and perhaps an offset, or "-" for what  *)
(* the other partitions leave.  Lines before the "-" are placed upwards    *)
(* from the start of the flash, lines after it downwards from its end.     *)
(* One eMMC partition may be "enhanced": it takes half the size it asks    *)
(* for, and the flash shrinks by as much.  The eMMC program writes its     *)
(* partition table before it looks for overlaps, and the other files one   *)
(* entry at a time.                                                        *)
(*                                                                         *)
(* Quantities are bytes.  64-bit sums do not overflow (256 entries, sizes  *)
(* below 2^51), so they are exact here; a product computed in int wraps,   *)
(* and a comparison or a shift of unsigned values sees a negative one as a *)
(* huge one.                                                               *)
(***************************************************************************)
EXTENDS Integers, Sequences

CONSTANTS
  Reserve,    \* GPT_PART_RESERVED_SIZE
  MinBackup,  \* BACKUP_GPT_PART_MIN_RESERVED_SIZE
  Block,      \* block_size, a power of two
  Sector,     \* SECTOR_SIZE
  MB,         \* ToM * SECTOR_SIZE
  IntMax,     \* the largest int
  Word,       \* 2^64
  Flashes,    \* the flash chips there are, told apart by their sizes
  Gpt,        \* those that are partitioned by a GPT: eMMC and not NAND
  Tables,     \* Tables[f]: partition lists for flash f, sequences of lines
  Begins      \* Begins[a]: the names that begin with the name a

ASSUME ReserveAssumption == Reserve \in Nat \ {0} /\ MinBackup \in 0..Reserve
ASSUME UnitAssumption ==
  /\ Block \in Nat \ {0} /\ Sector \in Nat \ {0} /\ MB \in Nat \ {0}
  /\ IntMax \in Nat /\ Word \in Nat

\* MB is ToM sectors; an eMMC is erased in blocks of whole sectors.
ASSUME SectorAssumption ==
  /\ MB % Sector = 0
  /\ Gpt # {} => Block % Sector = 0

\* rest: the size is "-".  at: the offset, 0 for none.  int: the unit is not M,
\* the product is computed in int.  hidden: the name is written "@name".
Line == [rest : BOOLEAN, size : Nat, at : Nat, int : BOOLEAN,
         enhanced : BOOLEAN, name : STRING, hidden : BOOLEAN]

ASSUME TablesAssumption ==
  /\ Flashes \subseteq Nat
  /\ \A f \in Flashes : Tables[f] \subseteq Seq(Line)
  /\ \A f \in Flashes \ Gpt : \A t \in Tables[f] : \A k \in DOMAIN t : ~t[k].enhanced

VARIABLES
  tab, flash,    \* the arguments: the partition list and the size of the flash
  pc,            \* where main is
  i,             \* the entry it is at
  pos1, pos2,    \* the end of the low partitions, the start of the high ones
  chip,          \* chip_size, what can be used of the flash
  rest, half,    \* _entry and half_size_entry, 0 for none
  plan,          \* plan[k]: start and size of entry k in cfg_table
  back, copies,  \* back[k]: back_up_entry of entry k, 0 for none; those with is_back_up
  records, list, \* emmc_part_table, emmc_part_list
  layout, images,\* subimglayout, emmc_image_list
  rows, header   \* version_table: its entries, and num_entries in its header

args  == <<tab, flash>>
names == <<back, copies>>
place == <<pos1, pos2, chip, rest, half, plan>>
files == <<layout, images, rows, header>>
parts == <<records, list>>
vars  == <<args, pc, i, place, names, parts, files>>

Entries == DOMAIN tab

\* parse_pt_emmc runs (CONFIG_GPT), or parse_pt.
Emmc == flash \in Gpt

-----------------------------------------------------------------------------
(* Arithmetic.                                                             *)

AsInt(x) == ((x + IntMax + 1) % (2 * IntMax + 2)) - IntMax - 1
Unsigned(x) == IF x >= 0 THEN x ELSE x + Word
Half(x) == Unsigned(x) \div 2

Bytes(line, x) == IF line.int THEN AsInt(x) ELSE x
SizeOf(line) == Bytes(line, line.size)
OffsetOf(line) == Bytes(line, line.at)
IsAligned(line) == OffsetOf(line) % Block = 0 /\ SizeOf(line) % Block = 0

End(k) == plan[k].start + plan[k].size

\* A change that forgets how little may be left.
TailReserve_Any(size) == size % Reserve

\* The tail of the flash that the backup GPT needs, at least MinBackup.
TailReserve(size) ==
  IF size % Reserve < MinBackup THEN (size % Reserve) + Reserve ELSE size % Reserve
Usable(size) == IF Emmc THEN size - TailReserve(size) ELSE size

Init ==
  /\ flash \in Flashes /\ tab \in Tables[flash]
  /\ chip = Usable(flash)
  /\ pc = IF chip > 0 THEN "read" ELSE "failed"
  /\ i = 1
  /\ pos1 = (IF Emmc THEN Reserve ELSE 0) /\ pos2 = 0
  /\ rest = 0 /\ half = 0
  /\ plan = [k \in Entries |-> [start |-> 0, size |-> 0]]
  /\ back = [k \in Entries |-> 0] /\ copies = {}
  /\ records = <<>> /\ list = <<>> /\ layout = <<>> /\ images = <<>>
  /\ rows = <<>> /\ header = 0

Rejected ==
  /\ pc' = "failed"
  /\ UNCHANGED <<args, i, place, names, parts>>

-----------------------------------------------------------------------------
(* Reading the list: entries up to the "-" are placed as they are read.    *)

InList == pc = "read" /\ i \in Entries

Low(line) == rest = 0 /\ ~line.rest

LowSize(line) == IF line.enhanced THEN Half(SizeOf(line)) ELSE SizeOf(line)
LowChip(line) == IF line.enhanced THEN chip - LowSize(line) ELSE chip
LowStart(line) == IF OffsetOf(line) = 0 THEN pos1 ELSE OffsetOf(line)
LowEnd(line) == LowStart(line) + LowSize(line)

\* A change that compares with the flash before it shrank.
BadLine_ShrinkLate(line) ==
  \/ line.enhanced /\ half # 0
  \/ line.rest /\ rest # 0
  \/ Low(line) /\ (~IsAligned(line) \/ LowEnd(line) > chip)

BadLine(line) ==
  \/ line.enhanced /\ half # 0
  \/ line.rest /\ rest # 0
  \/ Low(line) /\ (~IsAligned(line) \/ LowEnd(line) > LowChip(line))

ReadLine ==
  LET line == tab[i] IN
  /\ InList /\ ~BadLine(line)
  /\ half' = IF line.enhanced THEN i ELSE half
  /\ rest' = IF line.rest THEN i ELSE rest
  /\ IF Low(line)
     THEN /\ plan' = [plan EXCEPT ![i] = [start |-> LowStart(line), size |-> LowSize(line)]]
          /\ chip' = LowChip(line)
          /\ pos1' = LowEnd(line)
     ELSE UNCHANGED <<plan, chip, pos1>>
  /\ i' = i + 1
  /\ UNCHANGED <<args, pc, pos2, names, parts, files>>

RejectLine ==
  /\ InList /\ BadLine(tab[i])
  /\ Rejected /\ UNCHANGED files

EndRead ==
  /\ pc = "read" /\ i \notin Entries
  /\ IF rest = 0
     THEN pc' = "write" /\ UNCHANGED <<i, pos2>>
     ELSE pc' = "tail" /\ i' = Len(tab) /\ pos2' = chip
  /\ UNCHANGED <<args, pos1, chip, rest, half, plan, names, parts, files>>

-----------------------------------------------------------------------------
(* The entries behind the "-", from the last one down.                     *)

\* The enhanced entry restarts at the end of the flash that has shrunk.
HighSize(line) == LowSize(line)
HighEnd(line) == IF line.enhanced THEN chip - HighSize(line) ELSE pos2
HighStart(line) ==
  IF OffsetOf(line) = 0 THEN HighEnd(line) - HighSize(line) ELSE OffsetOf(line)

PlaceHigh ==
  LET line == tab[i] IN
  /\ pc = "tail" /\ i > rest /\ IsAligned(line)
  /\ plan' = [plan EXCEPT ![i] = [start |-> HighStart(line), size |-> HighSize(line)]]
  /\ chip' = LowChip(line)
  /\ pos2' = HighEnd(line) - HighSize(line)
  /\ i' = i - 1
  /\ UNCHANGED <<args, pc, pos1, rest, half, names, parts, files>>

\* A change that leaves a block behind "-".
PlaceRest_OneShort ==
  /\ pc = "tail" /\ i = rest /\ pos2 >= pos1 /\ half # rest
  /\ plan' = [plan EXCEPT ![rest] = [start |-> pos1, size |-> pos2 - pos1 - Block]]
  /\ pc' = "write"
  /\ UNCHANGED <<args, i, pos1, pos2, chip, rest, half, names, parts, files>>

\* "-" takes what lies between.
PlaceRest ==
  /\ pc = "tail" /\ i = rest /\ pos2 >= pos1 /\ half # rest
  /\ plan' = [plan EXCEPT ![rest] = [start |-> pos1, size |-> pos2 - pos1]]
  /\ pc' = "write"
  /\ UNCHANGED <<args, i, pos1, pos2, chip, rest, half, names, parts, files>>

\* When it is the enhanced one, the entries behind it are parsed again.
PlaceHalfRest ==
  /\ pc = "tail" /\ i = rest /\ pos2 >= pos1 /\ half = rest
  /\ plan' = [plan EXCEPT ![rest] = [start |-> pos1, size |-> Half(pos2 - pos1)]]
  /\ chip' = chip - Half(pos2 - pos1)
  /\ pos2' = chip'
  /\ i' = Len(tab)
  /\ pc' = "redo"
  /\ UNCHANGED <<args, pos1, rest, half, names, parts, files>>

\* Parsing sets the start to the offset, and nothing sets it to pos2 now.
RedoHigh ==
  LET line == tab[i] IN
  /\ pc = "redo" /\ i > rest /\ IsAligned(line)
  /\ plan' = [plan EXCEPT ![i] = [start |-> OffsetOf(line), size |-> SizeOf(line)]]
  /\ pos2' = pos2 - SizeOf(line)
  /\ i' = i - 1
  /\ UNCHANGED <<args, pc, pos1, chip, rest, half, names, parts, files>>

EndRedo ==
  /\ pc = "redo" /\ i = rest /\ pos2 >= pos1
  /\ pc' = "write"
  /\ UNCHANGED <<args, i, place, names, parts, files>>

RejectHigh ==
  /\ pc \in {"tail", "redo"}
  /\ \/ i > rest /\ ~IsAligned(tab[i])
     \/ i = rest /\ pos2 < pos1
  /\ Rejected /\ UNCHANGED files

-----------------------------------------------------------------------------
(* emmc_part_table in sectors and emmc_part_list in MB.  A partition that  *)
(* follows the one before it is listed at 0.                               *)

Records ==
  [k \in Entries |-> [start |-> Unsigned(plan[k].start) \div Sector,
                      size |-> Unsigned(plan[k].size) \div Sector]]

InMB(x) == Unsigned(x) \div MB

PartList ==
  LET behind(k) == IF k = 1 THEN 0 ELSE InMB(plan[k-1].start) + InMB(plan[k-1].size) IN
  [k \in Entries |->
     [start |-> IF InMB(plan[k].start) = behind(k) THEN 0 ELSE InMB(plan[k].start),
      size |-> InMB(plan[k].size), enhanced |-> k = half]]

WritePartTable ==
  /\ pc = "write"
  /\ records' = IF Emmc THEN Records ELSE records
  /\ list' = IF Emmc THEN PartList ELSE list
  /\ pc' = "check" /\ i' = 1
  /\ UNCHANGED <<args, place, names, files>>

-----------------------------------------------------------------------------
(* Overlaps, and the entries that are back-ups of others.                  *)

\* A change that compares the starts only.
Overlaps_Starts(k) ==
  k > 1 /\ Unsigned(plan[k].start) < Unsigned(plan[k-1].start)

Overlaps(k) == k > 1 /\ Unsigned(plan[k].start) < Unsigned(End(k-1))

\* A NAND entry "@name" is the back-up of the first entry whose name it
\* begins with; a hidden entry has its plain name once it was looked at.
BackedUpBy(k) ==
  {j \in Entries \ {k} : /\ tab[k].name \in Begins[tab[j].name]
                         /\ tab[j].hidden => j < k}

TakeName ==
  LET S == BackedUpBy(i) IN
  IF ~Emmc /\ tab[i].hidden /\ S # {}
  THEN /\ back' = [back EXCEPT ![CHOOSE j \in S : \A l \in S : j <= l] = i]
       /\ copies' = copies \cup {i}
  ELSE UNCHANGED names

CheckEntry ==
  /\ pc = "check" /\ i \in Entries /\ ~Overlaps(i)
  /\ TakeName
  /\ i' = i + 1
  /\ UNCHANGED <<args, pc, place, parts, files>>

RejectOverlap ==
  /\ pc = "check" /\ i \in Entries /\ Overlaps(i)
  /\ Rejected /\ UNCHANGED files

-----------------------------------------------------------------------------
(* The files that describe the table.                                      *)

PrebootRow == [name |-> "preboot", start |-> 0, blks |-> 1, start2 |-> 0, blks2 |-> 1]

OpenFiles ==
  /\ pc = "check" /\ i \notin Entries
  /\ IF Emmc
     THEN /\ layout' = <<[name |-> "preboot", start |-> 0, blks |-> 1]>>
          /\ images' = <<[image |-> "preboot", at |-> "b1"], [image |-> "preboot", at |-> "b2"]>>
          /\ rows' = <<PrebootRow>>
     ELSE UNCHANGED <<layout, images, rows>>
  /\ pc' = "emit" /\ i' = 1
  /\ UNCHANGED <<args, place, names, parts, header>>

Blocks(x) == Unsigned(x) \div Block

\* A change that forgets the back-up.
Row_Single(k) ==
  [name |-> tab[k].name, start |-> Blocks(plan[k].start), blks |-> Blocks(plan[k].size),
   start2 |-> Blocks(plan[k].start), blks2 |-> Blocks(plan[k].size)]

\* Its second half names the back-up's place, or its own again.
Row(k) ==
  LET second == IF back[k] = 0 THEN k ELSE back[k] IN
  [name |-> tab[k].name, start |-> Blocks(plan[k].start), blks |-> Blocks(plan[k].size),
   start2 |-> Blocks(plan[second].start), blks2 |-> Blocks(plan[second].size)]

LayoutLine(k) ==
  [name |-> tab[k].name, start |-> Blocks(plan[k].start), blks |-> Blocks(plan[k].size)]

\* A change that numbers the images without the hidden entries.
ImageLine_Visible(k) == [image |-> tab[k].name, at |-> Len(images) - 1]

\* sd1, sd2, ...: the number of the entry, hidden ones counted.
ImageLine(k) == [image |-> tab[k].name, at |-> k]

EmitEntry ==
  /\ pc = "emit" /\ i \in Entries
  /\ ~(Emmc /\ ~tab[i].hidden /\ tab[i].name = "preboot")
  /\ layout' = IF tab[i].hidden THEN layout ELSE Append(layout, LayoutLine(i))
  /\ images' = IF Emmc /\ ~tab[i].hidden THEN Append(images, ImageLine(i)) ELSE images
  /\ rows' = IF i \in copies THEN rows ELSE Append(rows, Row(i))
  /\ i' = i + 1
  /\ UNCHANGED <<args, pc, place, names, parts, header>>

RejectPreboot ==
  /\ pc = "emit" /\ i \in Entries
  /\ Emmc /\ ~tab[i].hidden /\ tab[i].name = "preboot"
  /\ layout' = Append(layout, LayoutLine(i))
  /\ Rejected /\ UNCHANGED <<images, rows, header>>

\* The header is written again, with the number of entries.
Finish ==
  /\ pc = "emit" /\ i \notin Entries
  /\ header' = Len(rows)
  /\ pc' = "done"
  /\ UNCHANGED <<args, i, place, names, parts, layout, images, rows>>

\* A file cannot be opened or written.
IoError ==
  /\ pc \in {"write", "emit"}
  /\ Rejected /\ UNCHANGED files

Next ==
  \/ ReadLine \/ RejectLine \/ EndRead
  \/ PlaceHigh \/ PlaceRest \/ PlaceHalfRest \/ RedoHigh \/ EndRedo \/ RejectHigh
  \/ WritePartTable \/ CheckEntry \/ RejectOverlap
  \/ OpenFiles \/ EmitEntry \/ RejectPreboot \/ Finish \/ IoError

Spec == Init /\ [][Next]_vars

-----------------------------------------------------------------------------
TypeOK ==
  /\ tab \in Seq(Line) /\ flash \in Nat
  /\ pc \in {"read", "tail", "redo", "write", "check", "emit", "done", "failed"}
  /\ i \in 0..(Len(tab) + 1)
  /\ pos1 \in Int /\ pos2 \in Int /\ chip \in Int
  /\ rest \in 0..Len(tab) /\ half \in 0..Len(tab)
  /\ plan \in [Entries -> [start : Int, size : Int]]
  /\ back \in [Entries -> 0..Len(tab)] /\ copies \subseteq Entries

Behind(k) == \E r \in Entries : r < k /\ tab[r].rest

\* No product overflows an int.
Fits ==
  \A k \in Entries : tab[k].int => tab[k].size <= IntMax /\ tab[k].at <= IntMax

\* Nothing behind the "-" is enhanced.
LowHalf == \A k \in Entries : Behind(k) => ~tab[k].enhanced

\* Nor has an offset.
PlainTail == LowHalf /\ \A k \in Entries : Behind(k) => tab[k].at = 0

Accepted == pc = "done" /\ Fits

\* The partitions of an accepted list do not overlap, pairwise and in their
\* order, although main compares neighbours only and after the table was
\* written (parse_pt.c:789-795).
Disjoint ==
  Accepted /\ LowHalf =>
    \A k \in Entries : \A j \in 1..(k-1) : End(j) <= plan[k].start

\* All of them end inside the flash that is left once the enhanced one took
\* its share: a list that does not fit is refused (parse_pt.c:719, 750).
InsideChip == Accepted /\ PlainTail => \A k \in Entries : End(k) <= chip

\* The same, for every list: what "exceed chip size" promises.
ChipSuffices == Accepted => \A k \in Entries : End(k) <= chip

\* A list without offsets leaves the GPT at the start of the eMMC and the
\* backup GPT at its end alone.
ClearOfGpt ==
  Emmc /\ Accepted /\ PlainTail /\ (\A k \in Entries : tab[k].at = 0) =>
    \A k \in Entries : plan[k].start >= Reserve /\ End(k) + MinBackup <= flash

\* Nothing of the flash is lost: an entry without an offset starts where the
\* one before it ends (the kernel reads mtdparts so), and "-" takes the rest.
NoGaps ==
  Accepted /\ PlainTail /\ (rest = 0 \/ half # rest) =>
    /\ \A k \in Entries : tab[k].at = 0 =>
         plan[k].start = IF k > 1 THEN End(k-1) ELSE IF Emmc THEN Reserve ELSE 0
    /\ rest # 0 => End(Len(tab)) = chip

\* The image burnt to sdK, the subimage layout and the partition table agree
\* on what K is, hidden entries or not, and the header counts the rows; who
\* reads emmc_part_list with 0 for "behind the one before" finds every
\* partition at the MB its sector in emmc_part_table lies in.
FilesAgree ==
  pc = "done" =>
    /\ header = Len(rows)
    /\ Emmc => \A m \in 3..Len(images) :
         LET k == images[m].at IN
         /\ k \in Entries /\ ~tab[k].hidden /\ tab[k].name = images[m].image
         /\ layout[m-1].name = images[m].image
         /\ layout[m-1].start = (records[k].start * Sector) \div Block
    /\ Emmc /\ Fits /\ LowHalf => \A k \in Entries :
         LET at(j) == (records[j].start * Sector) \div MB IN
         at(k) = IF list[k].start # 0 THEN list[k].start
                 ELSE IF k = 1 THEN 0 ELSE at(k-1) + list[k-1].size

\* Every NAND partition has a place in the version table, its own row or the
\* second half of another, when no name begins with the name of another.
Recorded ==
  Accepted /\ ~Emmc /\ (\A k, j \in Entries :
      k # j /\ tab[k].name \in Begins[tab[j].name] =>
        tab[k].name = tab[j].name /\ tab[k].hidden # tab[j].hidden) =>
    \A k \in Entries : \E r \in DOMAIN rows :
      \/ rows[r].start = Blocks(plan[k].start) /\ rows[r].blks = Blocks(plan[k].size)
      \/ rows[r].start2 = Blocks(plan[k].start) /\ rows[r].blks2 = Blocks(plan[k].size)
=============================================================================
