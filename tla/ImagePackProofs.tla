---------------------------- MODULE ImagePackProofs ----------------------------
(***************************************************************************)
(* Types of ImagePack, what the NAND release says of each partition, and   *)
(* what a full run releases and why one fails: for any products, tables    *)
(* and number of runs, packed alone, failed or killed in between.          *)
(***************************************************************************)
EXTENDS ImagePack, LeastNumber, SequenceTheorems, TLAPS

(* A command of a script that can run ends or fails; the rest is as it was. *)
Runs == \/ LayTable \/ ReadMapping \/ PreloadTa
        \/ \E p \in Payloads : Pack(p) \/ Release(p)
        \/ UnzipLogo \/ MoveLogo \/ SignLogo
        \/ RemoveApp \/ MoveGalois \/ MakeGalois
        \/ ReleaseList \/ CopyFastlogo \/ CopyMisc \/ ReleaseParts \/ Unify

LEMMA RunsOutcome ==
    ASSUME TypeOK, Runs
    PROVE  /\ outcome' \in {"none", "running", "packing", "ok", "packed", "failed"}
           /\ UNCHANGED env /\ todo # <<>>
           /\ \/ todo' = Tail(todo) /\ UNCHANGED outcome
              \/ todo' = <<>> /\ outcome' = "failed"
BY DEF Runs, LayTable, ReadMapping, PreloadTa, Pack, Release, UnzipLogo, MoveLogo, SignLogo,
   RemoveApp, MoveGalois, MakeGalois, ReleaseList, CopyFastlogo, CopyMisc, ReleaseParts, Unify,
   Go, Abort, Command, TypeOK

-----------------------------------------------------------------------------
(* Types *)

LEMMA TypeInit == Init => TypeOK
<1> SUFFICES ASSUME Init PROVE TypeOK
  OBVIOUS
<1>1. names \in Seq(Bases) /\ listed \in Seq(Bases)
  BY DEF Init
<1>2. runs \in 0 .. MaxRuns /\ kills \in 0 .. MaxKills
  BY ConfigAssumption DEF Init
<1>3. input \in [Inputs -> (0 .. MaxVersion) \cup {Absent}]
  BY ConfigAssumption DEF Init
<1>4. /\ sub \in [Payloads -> Seq(Made) \cup {Absent}]
      /\ release \in [Bases -> Seq(Made) \cup {Absent}] /\ DOMAIN info = Bases
  BY DEF Init
<1>5. logo \in [{"plain", "payload", "en"} -> (0 .. MaxVersion) \cup {Absent}]
  BY DEF Init
<1> QED BY <1>1, <1>2, <1>3, <1>4, <1>5 DEF Init, TypeOK

(* The names of a table are names of partitions. *)
LEMMA TableNames ==
    ASSUME config \in Configs, table \in Tables
    PROVE  [i \in DOMAIN table |-> table[i].base] \in Seq(Bases)
<1>1. table \in Seq(Partitions)
  BY ConfigAssumption DEF Tables
<1>2. \A i \in DOMAIN table : table[i].base \in Bases
  <2>1. ASSUME NEW i \in DOMAIN table PROVE table[i] \in Partitions
    BY <1>1
  <2> QED BY <2>1 DEF Partitions
<1>3. DOMAIN table = 1 .. Len(table) /\ Len(table) \in Nat
  BY <1>1
<1> QED BY <1>2, <1>3

LEMMA KnownNames ==
    ASSUME NEW f \in Seq(Bases)
    PROVE  ToSet(f) \subseteq Bases
BY DEF ToSet

(* What is packed from something that is there *)
LEMMA OneMade ==
    ASSUME NEW a \in Made
    PROVE  <<a>> \in Seq(Made)
OBVIOUS

LEMMA VersionMade ==
    ASSUME NEW p \in Inputs \cup {"block0", "zeros", "oem", "avb"}, NEW v \in 0 .. MaxVersion
    PROVE  <<p, v>> \in Made
BY DEF Made

LEMMA PartsMade ==
    ASSUME TypeOK, NEW p \in Payloads, Ready(p)
    PROVE  Parts(p) \in Seq(Made)
<1>1. \A i \in Inputs : input[i] # Absent => input[i] \in 0 .. MaxVersion
  BY DEF TypeOK
<1>2. /\ {"fastlogo", "key", "system", "preboot"} \subseteq Inputs
      /\ p \notin {"block0", "rootfs", "app"} => p \in Inputs
  BY DEF Inputs, Payloads
<1>3. CASE p = "fastlogo"
  <2>1. logo["en"] \in 0 .. MaxVersion
    BY <1>3 DEF Ready, TypeOK
  <2>2. <<"fastlogo", logo["en"]>> \in Made
    BY <1>2, <2>1, VersionMade
  <2>3. <<<<"fastlogo", logo["en"]>>>> \in Seq(Made)
    BY <2>2, OneMade
  <2> QED BY <1>3, <2>3 DEF Parts
<1>4. CASE p = "key"
  <2> DEFINE z == <<"zeros", 0>>
             o == <<"oem", input["key"]>>
             v == <<"avb", input["key"]>>
  <2>1. z \in Made
    <3>1. 0 \in 0 .. MaxVersion
      BY ConfigAssumption
    <3> QED BY <3>1, VersionMade
  <2>2. input["key"] # Absent => o \in Made /\ v \in Made
    BY <1>1, <1>2, VersionMade
  <2>3. Parts(p) = (IF "genx" \in Options THEN <<z>> ELSE <<o>>)
                   \o (IF "android" \in Options THEN <<v>> ELSE <<>>)
    BY <1>4 DEF Parts, On
  <2>4. /\ "genx" \notin Options => input["key"] # Absent
        /\ "android" \in Options => input["key"] # Absent
    BY <1>4 DEF Ready
  <2> HIDE DEF z, o, v
  <2>5. (IF "genx" \in Options THEN <<z>> ELSE <<o>>) \in Seq(Made)
    BY <2>1, <2>2, <2>4, OneMade
  <2>6. (IF "android" \in Options THEN <<v>> ELSE <<>>) \in Seq(Made)
    BY <2>2, <2>4, OneMade
  <2> QED BY <2>3, <2>5, <2>6
<1>5. CASE p = "rootfs"
  <2>1. <<"system", input["system"]>> \in Made
    BY <1>1, <1>2, <1>5, VersionMade DEF Ready
  <2>2. <<<<"system", input["system"]>>>> \in Seq(Made)
    BY <2>1, OneMade
  <2> QED BY <1>5, <2>2 DEF Parts
<1>6. CASE p = "app"
  <2>1. appdir \in SUBSET UNION {c.appliances : c \in Configs}
    BY <1>6 DEF Ready, TypeOK, Appliances
  <2>2. <<"app", appdir>> \in Made
    BY <2>1 DEF Made
  <2>3. <<<<"app", appdir>>>> \in Seq(Made)
    BY <2>2, OneMade
  <2> QED BY <1>6, <2>3 DEF Parts
<1>8. CASE p = "block0"
  <2>1. 0 \in 0 .. MaxVersion
    BY ConfigAssumption
  <2>2. <<"block0", 0>> \in Made
    BY <2>1, VersionMade
  <2>3. <<<<"block0", 0>>>> \in Seq(Made)
    BY <2>2, OneMade
  <2> QED BY <1>8, <2>3 DEF Parts
<1>7. CASE p \notin {"block0", "fastlogo", "key", "rootfs", "app"}
  <2>1. input[p] # Absent
    BY <1>7 DEF Ready
  <2>2. <<p, input[p]>> \in Made
    BY <1>1, <1>2, <1>7, <2>1, VersionMade
  <2>3. CASE p = "preboot" /\ Boot = "nand"
    <3> DEFINE a == <<"preboot", input["preboot"]>>
               b == <<"version_table", names>>
    <3>1. names \in Seq(Bases)
      BY DEF TypeOK
    <3>2. b \in Made
      <4> HIDE DEF b
      <4>1. b \in {"version_table"} \X Seq(Bases)
        BY <3>1 DEF b
      <4> QED BY <4>1 DEF Made
    <3>3. a \in Made /\ Parts(p) = <<a, b>>
      BY <2>2, <2>3 DEF Parts
    <3> HIDE DEF a, b
    <3> QED BY <3>2, <3>3
  <2>4. CASE ~ (p = "preboot" /\ Boot = "nand")
    <3>1. Parts(p) = <<<<p, input[p]>>>>
      BY <1>7, <2>4 DEF Parts
    <3> QED BY <2>2, <3>1, OneMade
  <2> QED BY <2>3, <2>4
<1> QED BY <1>3, <1>4, <1>5, <1>6, <1>7, <1>8

(* A subimage that is there is a sequence, and stays there. *)
LEMMA SubRuns ==
    ASSUME TypeOK, Runs
    PROVE  /\ sub' \in [Payloads -> Seq(Made) \cup {Absent}]
           /\ \A p \in Payloads : sub[p] # Absent => sub'[p] # Absent
<1>0. Absent \notin Seq(Made) /\ <<>> \in Seq(Made)
  BY ConfigAssumption
<1>1. /\ sub \in [Payloads -> Seq(Made) \cup {Absent}]
      /\ \A i \in Inputs : input[i] # Absent => input[i] \in 0 .. MaxVersion
  BY DEF TypeOK
<1>2. CASE UNCHANGED sub
  BY <1>1, <1>2
<1>3. ASSUME NEW p \in Payloads, NEW s \in Seq(Made), sub' = [sub EXCEPT ![p] = s]
      PROVE  /\ sub' \in [Payloads -> Seq(Made) \cup {Absent}]
             /\ \A q \in Payloads : sub[q] # Absent => sub'[q] # Absent
  BY <1>0, <1>1, <1>3
<1>4. ASSUME NEW p \in Payloads, Pack(p)
      PROVE  UNCHANGED sub \/ \E s \in Seq(Made) : sub' = [sub EXCEPT ![p] = s]
  BY <1>0, <1>4, PartsMade DEF Pack
<1>5. ASSUME PreloadTa
      PROVE  UNCHANGED sub \/ \E s \in Seq(Made) : sub' = [sub EXCEPT !["bootloader"] = s]
  <2>1. CASE UNCHANGED sub
    BY <2>1
  <2>2. CASE /\ input["ta"] # Absent /\ sub["bootloader"] # Absent
             /\ sub' = [sub EXCEPT !["bootloader"] = Append(@, <<"ta", input["ta"]>>)]
    <3>1. <<"ta", input["ta"]>> \in Made
      BY <1>1, <2>2, VersionMade DEF Inputs
    <3>2. sub["bootloader"] \in Seq(Made)
      BY <1>1, <2>2 DEF Payloads
    <3>3. PICK s : s = Append(sub["bootloader"], <<"ta", input["ta"]>>)
      OBVIOUS
    <3>4. s \in Seq(Made) /\ sub' = [sub EXCEPT !["bootloader"] = s]
      BY <2>2, <3>1, <3>2, <3>3
    <3> QED BY <3>4
  <2> QED BY <1>5, <2>1, <2>2 DEF PreloadTa
<1>6. ASSUME CopyFastlogo
      PROVE  UNCHANGED sub \/ \E s \in Seq(Made) : sub' = [sub EXCEPT !["fastlogo"] = s]
  <2> DEFINE a == <<"fastlogo", input["fastlogo"]>>
  <2>1. UNCHANGED sub \/ (input["fastlogo"] # Absent /\ sub' = [sub EXCEPT !["fastlogo"] = <<a>>])
    BY <1>6 DEF CopyFastlogo
  <2>2. input["fastlogo"] # Absent => a \in Made
    BY <1>1, VersionMade DEF Inputs, Payloads
  <2> HIDE DEF a
  <2> QED BY <2>1, <2>2, OneMade
<1>7. UNCHANGED sub \/ PreloadTa \/ CopyFastlogo \/ \E p \in Payloads : Pack(p)
  BY DEF Runs, LayTable, ReadMapping, Release, UnzipLogo, MoveLogo, SignLogo, RemoveApp,
     MoveGalois, MakeGalois, ReleaseList, CopyMisc, ReleaseParts, Unify, disk
<1>8. "bootloader" \in Payloads /\ "fastlogo" \in Payloads
  BY DEF Payloads
<1> QED BY <1>2, <1>3, <1>4, <1>5, <1>6, <1>7, <1>8

LEMMA ReleaseRunsType ==
    ASSUME TypeOK, Runs
    PROVE  release' \in [Bases -> Seq(Made) \cup {Absent}] /\ DOMAIN info' = Bases
<1>1. /\ sub \in [Payloads -> Seq(Made) \cup {Absent}]
      /\ release \in [Bases -> Seq(Made) \cup {Absent}] /\ DOMAIN info = Bases
      /\ \A i \in Inputs : input[i] # Absent => input[i] \in 0 .. MaxVersion
  BY DEF TypeOK
<1>2. CASE UNCHANGED <<release, info>>
  BY <1>1, <1>2
<1>3. ASSUME NEW p \in Payloads, Release(p)
      PROVE  release' \in [Bases -> Seq(Made) \cup {Absent}] /\ UNCHANGED info
  BY <1>1, <1>3 DEF Release
<1>4. ASSUME ReleaseParts
      PROVE  release' \in [Bases -> Seq(Made) \cup {Absent}] /\ DOMAIN info' = Bases
  <2>1. PICK done :
            /\ \A n \in done : Held(n)
            /\ release' = [n \in Bases |-> IF n \in done THEN sub[ModuleOf(n)] ELSE release[n]]
            /\ info' = [n \in Bases |-> IF n \in done THEN LayoutLine(n) ELSE info[n]]
    BY <1>4 DEF ReleaseParts
  <2>2. \A n \in done : ModuleOf(n) \in Payloads
    BY <2>1 DEF Held
  <2> QED BY <1>1, <2>1, <2>2
<1>5. ASSUME CopyFastlogo
      PROVE  release' \in [Bases -> Seq(Made) \cup {Absent}] /\ UNCHANGED info
  <2> DEFINE a == <<"fastlogo", input["fastlogo"]>>
  <2>1. \/ UNCHANGED release
        \/ release' = [release EXCEPT !["fastlogo"] = sub["fastlogo"]]
        \/ input["fastlogo"] # Absent /\ release' = [release EXCEPT !["fastlogo"] = <<a>>]
    BY <1>5 DEF CopyFastlogo
  <2>2. input["fastlogo"] # Absent => a \in Made
    BY <1>1, VersionMade DEF Inputs, Payloads
  <2>3. sub["fastlogo"] \in Seq(Made) \cup {Absent}
    BY <1>1 DEF Payloads
  <2> HIDE DEF a
  <2>4. UNCHANGED info
    BY <1>5 DEF CopyFastlogo
  <2>5. input["fastlogo"] # Absent => <<a>> \in Seq(Made)
    BY <2>2, OneMade
  <2> QED BY <1>1, <2>1, <2>3, <2>4, <2>5
<1>6. ASSUME CopyMisc
      PROVE  release' \in [Bases -> Seq(Made) \cup {Absent}] /\ UNCHANGED info
  <2> DEFINE a == <<"misc", input["misc"]>>
  <2>1. \/ UNCHANGED release
        \/ input["misc"] # Absent /\ release' = [release EXCEPT !["misc"] = <<a>>]
    BY <1>6 DEF CopyMisc
  <2>2. input["misc"] # Absent => a \in Made
    BY <1>1, VersionMade DEF Inputs
  <2> HIDE DEF a
  <2>3. UNCHANGED info
    BY <1>6 DEF CopyMisc
  <2>4. input["misc"] # Absent => <<a>> \in Seq(Made)
    BY <2>2, OneMade
  <2> QED BY <1>1, <2>1, <2>3, <2>4
<1>7. \/ UNCHANGED <<release, info>> \/ ReleaseParts \/ CopyFastlogo \/ CopyMisc
      \/ \E p \in Payloads : Release(p)
  BY DEF Runs, LayTable, ReadMapping, PreloadTa, Pack, UnzipLogo, MoveLogo, SignLogo, RemoveApp,
     MoveGalois, MakeGalois, ReleaseList, Unify, disk
<1> QED BY <1>1, <1>2, <1>3, <1>4, <1>5, <1>6, <1>7

LEMMA TypeRuns == TypeOK /\ Runs => TypeOK'
<1> SUFFICES ASSUME TypeOK, Runs PROVE TypeOK'
  OBVIOUS
<1>1. /\ outcome' \in {"none", "running", "packing", "ok", "packed", "failed"}
      /\ UNCHANGED <<config, table, input, built, runs, kills>>
  BY RunsOutcome DEF env
<1>2. /\ sub' \in [Payloads -> Seq(Made) \cup {Absent}]
      /\ release' \in [Bases -> Seq(Made) \cup {Absent}] /\ DOMAIN info' = Bases
  BY SubRuns, ReleaseRunsType
<1>3. logo' \in [{"plain", "payload", "en"} -> (0 .. MaxVersion) \cup {Absent}]
  <2>1. input["fastlogo"] \in (0 .. MaxVersion) \cup {Absent}
    BY DEF TypeOK, Inputs, Payloads
  <2> QED
    BY <2>1 DEF Runs, LayTable, ReadMapping, PreloadTa, Pack, Release, UnzipLogo, MoveLogo,
       SignLogo, RemoveApp, MoveGalois, MakeGalois, ReleaseList, CopyFastlogo, CopyMisc,
       ReleaseParts, Unify, disk, TypeOK
<1>4. /\ galois' = Absent \/ galois' \subseteq Appliances'
      /\ appdir' = Absent \/ appdir' \subseteq Appliances'
  BY <1>1 DEF Runs, LayTable, ReadMapping, PreloadTa, Pack, Release, UnzipLogo, MoveLogo,
     SignLogo, RemoveApp, MoveGalois, MakeGalois, ReleaseList, CopyFastlogo, CopyMisc,
     ReleaseParts, Unify, disk, Appliances, TypeOK
<1>5. names' \in Seq(Bases) /\ listed' \in Seq(Bases) /\ recovery' \in {"tee", "tee_recovery"}
  BY TableNames DEF Runs, LayTable, ReadMapping, PreloadTa, Pack, Release, UnzipLogo, MoveLogo,
     SignLogo, RemoveApp, MoveGalois, MakeGalois, ReleaseList, CopyFastlogo, CopyMisc,
     ReleaseParts, Unify, disk, TypeOK
<1> QED BY <1>1, <1>2, <1>3, <1>4, <1>5 DEF TypeOK, Tables, Appliances

LEMMA TypeStep == TypeOK /\ [Next]_vars => TypeOK'
<1> SUFFICES ASSUME TypeOK, [Next]_vars PROVE TypeOK'
  OBVIOUS
<1>1. CASE Runs
  BY <1>1, TypeRuns
<1>2. ASSUME NEW i \in Changing, Deliver(i) PROVE TypeOK'
  BY <1>2, ConfigAssumption DEF Deliver, TypeOK, disk, Tables, Appliances, Changing
<1>3. CASE EditTable
  BY <1>3 DEF EditTable, TypeOK, disk, Tables, Appliances
<1>4. ASSUME NEW m \in Appliances, Install(m) PROVE TypeOK'
  BY <1>4 DEF Install, TypeOK, Tables, Appliances
<1>5. ASSUME NEW m \in Appliances, CleanModule(m) PROVE TypeOK'
  BY <1>5 DEF CleanModule, TypeOK, disk, shell, Tables, Appliances
<1>6. CASE StartFull
  BY <1>6, ConfigAssumption DEF StartFull, TypeOK, disk, Tables, Appliances
<1>7. ASSUME NEW x \in Packs, StartPack(x) PROVE TypeOK'
  BY <1>7, ConfigAssumption DEF StartPack, TypeOK, disk, Tables, Appliances
<1>8. CASE Finish
  BY <1>8 DEF Finish, env, TypeOK, disk, Tables, Appliances
<1>9. CASE Kill
  <2>1. /\ UNCHANGED <<config, table, input, built, logo, galois, appdir, listed, info, names>>
        /\ UNCHANGED <<recovery, runs>> /\ outcome' = "failed"
        /\ kills' \in 0 .. MaxKills
    BY <1>9, ConfigAssumption DEF Kill, TypeOK
  <2>2. <<>> \in Seq(Made)
    OBVIOUS
  <2>3. release' \in [Bases -> Seq(Made) \cup {Absent}]
    <3>1. PICK torn : release' = [n \in Bases |-> IF n \in torn THEN <<>> ELSE release[n]]
      BY <1>9 DEF Kill
    <3> QED BY <2>2, <3>1 DEF TypeOK
  <2>4. sub' \in [Payloads -> Seq(Made) \cup {Absent}]
    <3>1. UNCHANGED sub \/ \E t : sub' = [sub EXCEPT ![t] = <<>>]
      BY <1>9 DEF Kill
    <3> QED BY <2>2, <3>1 DEF TypeOK
  <2> QED BY <2>1, <2>3, <2>4 DEF TypeOK, Tables, Appliances
<1>10. CASE UNCHANGED vars
  BY <1>10 DEF vars, shell, disk, TypeOK, Tables, Appliances
<1> QED
  BY <1>1, <1>2, <1>3, <1>4, <1>5, <1>6, <1>7, <1>8, <1>9, <1>10 DEF Next, Runs

(* The scripts keep to their types, whatever an earlier run left behind. *)
THEOREM TypeCorrect == Spec => []TypeOK
<1> QED BY TypeInit, TypeStep, PTL DEF Spec

-----------------------------------------------------------------------------
(* The layout of a NAND release *)

(* A list that names no partition before the one whose name it begins with *)
InOrder(f) ==
    /\ f \in Seq(Bases)
    /\ \A i, j \in DOMAIN f : <<f[j], f[i]>> \in Beginnings => \E k \in 1 .. i - 1 : f[k] = f[j]

InfoOk == \A n \in ToSet(names) : info[n] \in DOMAIN names /\ names[info[n]] = n

(* Then the first line that begins with a name is the line of that name. *)
LEMMA OwnLine ==
    ASSUME InOrder(names), NEW n \in ToSet(names)
    PROVE  LayoutLine(n) \in DOMAIN names /\ names[LayoutLine(n)] = n
<1> DEFINE Fits(i) == names[i] = n \/ <<n, names[i]>> \in Beginnings
           S == {i \in DOMAIN names : Fits(i)}
<1>0. DOMAIN names = 1 .. Len(names) /\ Len(names) \in Nat
  BY DEF InOrder
<1>1. PICK j \in DOMAIN names : names[j] = n
  BY DEF ToSet
<1>2. S \in SUBSET Nat /\ S # {}
  BY <1>0, <1>1
<1>3. PICK i \in S : \A k \in S : i <= k
  <2> HIDE DEF S
  <2> QED BY <1>2, Least
<1>4. \A k \in 1 .. i - 1 : ~ Fits(k)
  <2>1. ASSUME NEW k \in 1 .. i - 1, Fits(k) PROVE FALSE
    <3>1. k \in DOMAIN names /\ k < i
      BY <1>0, <1>2, <1>3
    <3>2. k \in S
      BY <3>1, <2>1
    <3> QED BY <1>2, <1>3, <3>1, <3>2
  <2> QED BY <2>1
<1>5. LayoutLine(n) \in DOMAIN names /\ Fits(LayoutLine(n))
      /\ \A k \in 1 .. LayoutLine(n) - 1 : ~ Fits(k)
  BY <1>3, <1>4 DEF LayoutLine
<1>6. CASE <<n, names[LayoutLine(n)]>> \in Beginnings
  BY <1>1, <1>5, <1>6 DEF InOrder
<1> QED BY <1>5, <1>6

LEMMA Tuples ==
    ASSUME NEW S, NEW a \in S, NEW b \in S, NEW c \in S, NEW d \in S, NEW e \in S
    PROVE  /\ <<a>> \in Seq(S) /\ <<a, b, c>> \in Seq(S) /\ <<a, b, c, d, e>> \in Seq(S)
OBVIOUS

(* What two scripts one after the other do *)
LEMMA Joined ==
    ASSUME NEW S, NEW f \in Seq(S), NEW g \in Seq(S)
    PROVE  /\ f \o g \in Seq(S) /\ Len(f \o g) = Len(f) + Len(g)
           /\ \A j \in 1 .. Len(f) : (f \o g)[j] = f[j]
           /\ \A j \in 1 .. Len(g) : (f \o g)[Len(f) + j] = g[j]
OBVIOUS

(* The script of a NAND release: the list, the parts and the image are last. *)
Kinds == {"table", "pack", "app", "list", "parts", "unify"}
Args == Payloads \cup {"", "remove", "move", "mkdir"}

(* Steps of a kind, one for each payload *)
LEMMA StepsOf ==
    ASSUME NEW K, NEW T, NEW kind \in K, NEW payloads \in Seq(T)
    PROVE  Steps(kind, payloads) \in Seq(K \X T)
<1>1. Steps(kind, payloads) = [i \in 1 .. Len(payloads) |-> <<kind, payloads[i]>>]
  BY DEF Steps
<1>2. \A i \in 1 .. Len(payloads) : <<kind, payloads[i]>> \in K \X T
  OBVIOUS
<1> QED BY <1>1, <1>2

LEMMA NandScript ==
    ASSUME Boot = "nand"
    PROVE  /\ Len(NandPack) \in Nat /\ Full \in Seq(Kinds \X Args)
           /\ Len(Full) = Len(NandPack) + 3
           /\ \A j \in 1 .. Len(NandPack) : Full[j][1] \in {"table", "pack", "app"}
           /\ Full[Len(NandPack) + 1] = <<"list", "">>
           /\ Full[Len(NandPack) + 2] = <<"parts", "">>
           /\ Full[Len(NandPack) + 3] = <<"unify", "">>
<1> DEFINE Early == {"table", "pack", "app"} \X Args
           AnyStep == Kinds \X Args
           A == <<<<"table", "">>>>
           Z == Steps("pack", <<"block0">>)
           B == Steps("pack", <<"preboot", "tee", "tee_recovery", "bootloader", "linux_bootimgs">>)
           C == FsSteps
           D == Steps("pack", <<"key">>)
<1>1. /\ A \in Seq(Early) /\ Z \in Seq(Early) /\ B \in Seq(Early) /\ C \in Seq(Early)
      /\ D \in Seq(Early)
  <2> DEFINE K == {"table", "pack", "app"}
  <2>1. /\ <<"table", "">> \in Early /\ <<"app", "remove">> \in Early
        /\ <<"app", "move">> \in Early /\ <<"app", "mkdir">> \in Early
        /\ <<"pack", "rootfs">> \in Early /\ <<"pack", "app">> \in Early
        /\ <<"pack", "system">> \in Early
    BY DEF Args, Payloads
  <2>2. A \in Seq(Early) /\ C \in Seq(Early)
    <3> DEFINE a == <<"app", "remove">>
               b == <<"app", "move">>
               c == <<"app", "mkdir">>
               d == <<"pack", "rootfs">>
               e == <<"pack", "app">>
               s == <<"pack", "system">>
               t == <<"table", "">>
    <3>1. A = <<t>> /\ C \in {<<a, b, c, d, e>>, <<s>>}
      BY DEF FsSteps
    <3>2. {a, b, c, d, e, s, t} \subseteq Early
      BY <2>1
    <3> HIDE DEF Early, A, C, a, b, c, d, e, s, t
    <3>3. <<t>> \in Seq(Early) /\ <<s>> \in Seq(Early)
      BY <3>2, Tuples
    <3>4. <<a, b, c, d, e>> \in Seq(Early)
      BY <3>2, Tuples
    <3> QED BY <3>1, <3>3, <3>4
  <2>3. /\ <<"preboot", "tee", "tee_recovery", "bootloader", "linux_bootimgs">> \in Seq(Args)
        /\ <<"block0">> \in Seq(Args) /\ <<"key">> \in Seq(Args) /\ "pack" \in K
    BY DEF Args, Payloads
  <2>4. Z \in Seq(Early) /\ B \in Seq(Early) /\ D \in Seq(Early)
    BY <2>3, StepsOf
  <2> QED BY <2>2, <2>4
<1>2. NandPack = A \o Z \o B \o C \o D
  BY DEF NandPack
<1>3. NandPack \in Seq(Early)
  <2> HIDE DEF A, Z, B, C, D, Early
  <2> QED BY <1>1, <1>2
<1>4. NandRelease \in Seq(AnyStep) /\ Len(NandRelease) = 3
  <2>1. <<"list", "">> \in AnyStep /\ <<"parts", "">> \in AnyStep /\ <<"unify", "">> \in AnyStep
    BY DEF Kinds, Args
  <2> HIDE DEF AnyStep
  <2> QED BY <2>1, Tuples DEF NandRelease
<1>5. Full = NandPack \o NandRelease
  BY DEF Full
<1>6. NandPack \in Seq(AnyStep)
  BY <1>3 DEF Kinds
<1>7. /\ Full \in Seq(AnyStep) /\ Len(Full) = Len(NandPack) + 3 /\ Len(NandPack) \in Nat
      /\ \A j \in 1 .. Len(NandPack) : Full[j] = NandPack[j]
      /\ Full[Len(NandPack) + 1] = NandRelease[1]
      /\ Full[Len(NandPack) + 2] = NandRelease[2]
      /\ Full[Len(NandPack) + 3] = NandRelease[3]
  <2> HIDE DEF AnyStep
  <2>1. /\ Full \in Seq(AnyStep) /\ Len(Full) = Len(NandPack) + Len(NandRelease)
        /\ \A j \in 1 .. Len(NandPack) : Full[j] = NandPack[j]
        /\ \A j \in 1 .. Len(NandRelease) : Full[Len(NandPack) + j] = NandRelease[j]
    <3>1. /\ NandPack \o NandRelease \in Seq(AnyStep)
          /\ Len(NandPack \o NandRelease) = Len(NandPack) + Len(NandRelease)
      BY <1>4, <1>6, Joined
    <3>2. \A j \in 1 .. Len(NandPack) : (NandPack \o NandRelease)[j] = NandPack[j]
      BY <1>4, <1>6
    <3>3. \A j \in 1 .. Len(NandRelease) :
                (NandPack \o NandRelease)[Len(NandPack) + j] = NandRelease[j]
      <4>1. \A f \in Seq(AnyStep), g \in Seq(AnyStep) : \A j \in 1 .. Len(g) :
                (f \o g)[Len(f) + j] = g[j]
        BY Joined
      <4> QED BY <1>4, <1>6, <4>1
    <3> QED BY <1>5, <3>1, <3>2, <3>3
  <2>2. Len(NandPack) \in Nat
    BY <1>6
  <2>3. \A j \in {1, 2, 3} : Full[Len(NandPack) + j] = NandRelease[j]
    BY <1>4, <2>1
  <2> QED BY <1>4, <2>1, <2>2, <2>3
<1>8. \A j \in 1 .. Len(NandPack) : NandPack[j][1] \in {"table", "pack", "app"}
  <2>1. ASSUME NEW j \in 1 .. Len(NandPack) PROVE NandPack[j] \in Early
    <3> HIDE DEF Early
    <3> QED BY <1>3
  <2> QED BY <2>1
<1>9. /\ NandRelease[1] = <<"list", "">> /\ NandRelease[2] = <<"parts", "">>
      /\ NandRelease[3] = <<"unify", "">>
  BY DEF NandRelease
<1> QED BY <1>7, <1>8, <1>9

(* Where a running NAND script is, and what it has described so far *)
At(k) ==
    /\ todo = SubSeq(Full, k + 1, Len(Full))
    /\ k > Len(NandPack) => listed = names
    /\ k > Len(NandPack) + 1 => InfoOk

LayoutInv ==
    /\ InOrder(names)
    /\ Idle => todo = <<>>
    /\ Boot = "nand" /\ outcome = "running" => \E k \in 0 .. Len(Full) : At(k)
    /\ Boot = "nand" /\ outcome = "ok" => listed = names /\ InfoOk

LEMMA First == ASSUME NEW a, NEW b, NEW x, x = <<a, b>> PROVE x[1] = a
OBVIOUS

(* The command at hand of a running script *)
LEMMA Position ==
    ASSUME Boot = "nand", NEW k \in 0 .. Len(Full), At(k), todo # <<>>
    PROVE  /\ k + 1 \in 1 .. Len(Full) /\ Head(todo) = Full[k + 1]
           /\ Tail(todo) = SubSeq(Full, k + 2, Len(Full))
           /\ k < Len(NandPack) => Head(todo)[1] \in {"table", "pack", "app"}
           /\ k = Len(NandPack) => Head(todo)[1] = "list"
           /\ k = Len(NandPack) + 1 => Head(todo)[1] = "parts"
           /\ k > Len(NandPack) + 1 => Head(todo)[1] = "unify"
<1>1. Full \in Seq(Kinds \X Args) /\ Len(Full) = Len(NandPack) + 3 /\ Len(NandPack) \in Nat
  BY NandScript
<1>2. k # Len(Full)
  BY <1>1 DEF At
<1>3. /\ k + 1 \in 1 .. Len(Full) /\ Head(todo) = Full[k + 1]
      /\ Tail(todo) = SubSeq(Full, k + 2, Len(Full))
  <2>1. k \in 0 .. Len(Full) - 1 /\ todo = SubSeq(Full, k + 1, Len(Full))
    BY <1>1, <1>2 DEF At
  <2> HIDE DEF Full
  <2>2. /\ Len(todo) = Len(Full) - k
        /\ \A i \in 1 .. Len(Full) - k : todo[i] = Full[k + i]
        /\ todo \in Seq(Kinds \X Args)
    BY <1>1, <2>1
  <2>3. Head(todo) = Full[k + 1]
    BY <2>1, <2>2
  <2>4. Tail(todo) = SubSeq(Full, k + 2, Len(Full))
    BY <1>1, <2>1, <2>2
  <2> QED BY <1>1, <2>1, <2>3, <2>4
<1> DEFINE n == Len(NandPack)
<1>4. CASE k < n
  <2>1. k + 1 \in 1 .. n
    BY <1>1, <1>4
  <2>2. Full[k + 1][1] \in {"table", "pack", "app"}
    BY <2>1, NandScript
  <2> QED BY <1>1, <1>3, <1>4, <2>2
<1>5. CASE k \in {n, n + 1, n + 2}
  <2>0. /\ Full[n + 1] = <<"list", "">> /\ Full[n + 2] = <<"parts", "">>
        /\ Full[n + 3] = <<"unify", "">>
    BY NandScript
  <2>1. n \in Nat /\ k \in Int /\ Head(todo) = Full[k + 1]
    BY <1>1, <1>3
  <2> HIDE DEF n
  <2>2. ASSUME k = n PROVE Head(todo)[1] = "list" /\ ~ (k < n) /\ ~ (k > n)
    <3>1. Full[k + 1] = Full[n + 1]
      BY <2>2
    <3>2. Head(todo) = <<"list", "">>
      BY <2>0, <2>1, <3>1
    <3>3. ~ (k < n) /\ (k = n => ~ (k > n)) /\ (k = n + 1 => ~ (k > n + 1))
      BY <2>1, <2>2
    <3>4. Head(todo)[1] = "list"
      BY <3>2, First
    <3> QED BY <2>2, <3>3, <3>4
  <2>3. ASSUME k = n + 1 PROVE Head(todo)[1] = "parts" /\ ~ (k < n) /\ ~ (k > n + 1)
    <3>1. k + 1 = n + 2
      BY <2>1, <2>3
    <3>2. Head(todo) = <<"parts", "">>
      BY <2>0, <2>1, <3>1
    <3>3. ~ (k < n) /\ (k = n => ~ (k > n)) /\ (k = n + 1 => ~ (k > n + 1))
      BY <2>1, <2>3
    <3>4. Head(todo)[1] = "parts"
      BY <3>2, First
    <3> QED BY <2>3, <3>3, <3>4
  <2>5. ASSUME k = n + 2 PROVE Head(todo)[1] = "unify" /\ ~ (k < n)
    <3>1. k + 1 = n + 3
      BY <2>1, <2>5
    <3>2. Head(todo) = <<"unify", "">>
      BY <2>0, <2>1, <3>1
    <3>3. ~ (k < n) /\ (k = n => ~ (k > n)) /\ (k = n + 1 => ~ (k > n + 1))
      BY <2>1, <2>5
    <3>4. Head(todo)[1] = "unify"
      BY <3>2, First
    <3> QED BY <2>5, <3>3, <3>4
  <2>4. /\ k < n => Head(todo)[1] \in {"table", "pack", "app"}
        /\ k = n => Head(todo)[1] = "list"
        /\ k = n + 1 => Head(todo)[1] = "parts"
        /\ k > n + 1 => Head(todo)[1] = "unify"
    BY <1>5, <2>1, <2>2, <2>3, <2>5
  <2> QED BY <1>3, <2>4 DEF n
<1>6. k < n \/ k \in {n, n + 1, n + 2}
  BY <1>1, <1>2
<1> QED BY <1>4, <1>5, <1>6

(* A command that succeeds takes the script one further. *)
LEMMA Advance ==
    ASSUME Boot = "nand", NEW k \in 0 .. Len(Full), At(k), todo # <<>>,
           todo' = Tail(todo), UNCHANGED config,
           Head(todo)[1] \notin {"table"} => UNCHANGED names,
           Head(todo)[1] # "list" => UNCHANGED listed,
           Head(todo)[1] # "parts" => UNCHANGED info,
           Head(todo)[1] = "list" => listed' = names,
           Head(todo)[1] = "parts" => InfoOk'
    PROVE  \E j \in 0 .. Len(Full)' : At(j)'
<1>1. Full' = Full /\ NandPack' = NandPack
  BY DEF Full, Boot, Options, NandPack, EmmcPack, EmmcRelease, NandRelease, LogoSteps, FsSteps,
     On, Steps
<1>2. Len(NandPack) \in Nat /\ Len(Full) = Len(NandPack) + 3
  BY NandScript
<1> DEFINE n == Len(NandPack)
<1>3. todo' = SubSeq(Full, (k + 1) + 1, Len(Full)) /\ k + 1 \in 0 .. Len(Full)
  BY Position, <1>2
<1>4. k + 1 > n => listed' = names'
  <2>1. CASE k < n
    BY <1>2, <2>1
  <2>2. CASE k = n
    BY <2>2, Position
  <2>3. CASE k > n
    <3>1. Head(todo)[1] \in {"parts", "unify"}
      BY <1>2, <2>3, Position
    <3> QED BY <2>3, <3>1 DEF At
  <2> QED BY <1>2, <2>1, <2>2, <2>3
<1>5. k + 1 > n + 1 => InfoOk'
  <2>1. CASE k <= n
    BY <1>2, <2>1
  <2>2. CASE k = n + 1
    BY <2>2, Position
  <2>3. CASE k > n + 1
    <3>1. Head(todo)[1] = "unify"
      BY <2>3, Position
    <3> QED BY <2>3, <3>1 DEF At, InfoOk
  <2> QED BY <1>2, <2>1, <2>2, <2>3
<1>6. At(k + 1)'
  BY <1>1, <1>2, <1>3, <1>4, <1>5 DEF At
<1> QED BY <1>1, <1>3, <1>6

LEMMA LayoutInit == Init => LayoutInv
BY DEF Init, LayoutInv, Idle, InOrder

(* A table gives its names in order, if the product's tables do. *)
LEMMA TableInOrder ==
    ASSUME LongNamesLast, Boot = "nand", config \in Configs, table \in Tables
    PROVE  InOrder([i \in DOMAIN table |-> table[i].base])
<1>1. table \in Seq(Partitions) /\ config.boot = "nand" /\ table \in config.tables
  BY ConfigAssumption DEF Tables, Boot
<1>2. \A i \in DOMAIN table : table[i].base \in Bases
  <2>1. ASSUME NEW i \in DOMAIN table PROVE table[i] \in Partitions
    BY <1>1
  <2> QED BY <2>1 DEF Partitions
<1> DEFINE f == [i \in DOMAIN table |-> table[i].base]
<1>3. f \in Seq(Bases) /\ DOMAIN f = DOMAIN table
  BY <1>1, <1>2
<1>4. ASSUME NEW i \in DOMAIN table, NEW j \in DOMAIN table,
             <<table[j].base, table[i].base>> \in Beginnings
      PROVE  \E k \in 1 .. i - 1 : f[k] = f[j]
  <2>1. PICK k \in 1 .. i - 1 : table[k].base = table[j].base
    BY <1>1, <1>4 DEF LongNamesLast
  <2>2. k \in DOMAIN table
    BY <1>1
  <2> QED BY <2>1, <2>2
<1> QED BY <1>3, <1>4 DEF InOrder

(* What the commands change of what the layout is made from *)
LEMMA RunsKind ==
    ASSUME Runs
    PROVE  \/ LayTable /\ Head(todo)[1] = "table" /\ UNCHANGED <<listed, info>>
           \/ ReleaseList /\ Head(todo)[1] = "list" /\ UNCHANGED <<names, info>>
           \/ ReleaseParts /\ Head(todo)[1] = "parts" /\ UNCHANGED <<names, listed>>
           \/ /\ Head(todo)[1] \notin {"table", "list", "parts"}
              /\ UNCHANGED <<names, listed, info>>
<1>1. ASSUME NEW kind, NEW of, Command(kind, of) PROVE Head(todo)[1] = kind
  BY <1>1 DEF Command
<1>2. CASE LayTable
  BY <1>1, <1>2 DEF LayTable, disk
<1>3. CASE ReleaseList
  BY <1>1, <1>3 DEF ReleaseList
<1>4. CASE ReleaseParts
  BY <1>1, <1>4 DEF ReleaseParts
<1>5. CASE ReadMapping
  BY <1>1, <1>5 DEF ReadMapping, disk
<1>6. CASE PreloadTa
  BY <1>1, <1>6 DEF PreloadTa
<1>7. ASSUME NEW p \in Payloads, Pack(p)
      PROVE  Head(todo)[1] = "pack" /\ UNCHANGED <<names, listed, info>>
  BY <1>1, <1>7 DEF Pack
<1>8. ASSUME NEW p \in Payloads, Release(p)
      PROVE  Head(todo)[1] = "release" /\ UNCHANGED <<names, listed, info>>
  BY <1>1, <1>8 DEF Release
<1>9. CASE UnzipLogo \/ MoveLogo \/ SignLogo
  <2>1. Head(todo)[1] = "logo"
    BY <1>1, <1>9 DEF UnzipLogo, MoveLogo, SignLogo
  <2> QED BY <1>9, <2>1 DEF UnzipLogo, MoveLogo, SignLogo
<1>10. CASE RemoveApp \/ MoveGalois \/ MakeGalois
  <2>1. Head(todo)[1] = "app"
    BY <1>1, <1>10 DEF RemoveApp, MoveGalois, MakeGalois
  <2> QED BY <1>10, <2>1 DEF RemoveApp, MoveGalois, MakeGalois
<1>11. CASE CopyFastlogo \/ CopyMisc
  <2>1. Head(todo)[1] = "copy"
    BY <1>1, <1>11 DEF CopyFastlogo, CopyMisc
  <2> QED BY <1>11, <2>1 DEF CopyFastlogo, CopyMisc
<1>12. CASE Unify
  BY <1>1, <1>12 DEF Unify, disk
<1> QED
  BY <1>2, <1>3, <1>4, <1>5, <1>6, <1>7, <1>8, <1>9, <1>10, <1>11, <1>12 DEF Runs

LEMMA LayoutRuns ==
    ASSUME LongNamesLast
    PROVE  TypeOK /\ LayoutInv /\ Runs /\ Boot = "nand" => LayoutInv'
<1> SUFFICES ASSUME TypeOK, LayoutInv, Runs, Boot = "nand" PROVE LayoutInv'
  OBVIOUS
<1>1. ~ Idle /\ UNCHANGED config
  BY RunsOutcome DEF LayoutInv, env
<1>2. InOrder(names)'
  <2>1. CASE LayTable
    <3>1. InOrder([i \in DOMAIN table |-> table[i].base])
      BY TableInOrder DEF TypeOK
    <3>2. names' = [i \in DOMAIN table |-> table[i].base]
      BY <2>1 DEF LayTable
    <3> QED BY <3>1, <3>2 DEF InOrder
  <2>2. CASE ~ LayTable
    <3>1. UNCHANGED names
      BY <2>2, RunsKind
    <3> QED BY <3>1 DEF LayoutInv, InOrder
  <2> QED BY <2>1, <2>2
<1>3. CASE todo' = <<>> /\ outcome' = "failed"
  BY <1>2, <1>3 DEF LayoutInv, Idle
<1>4. CASE todo' = Tail(todo) /\ UNCHANGED outcome
  <2>1. CASE outcome # "running"
    BY <1>1, <1>2, <1>4, <2>1 DEF LayoutInv, Idle
  <2>2. CASE outcome = "running"
    <3>1. PICK k \in 0 .. Len(Full) : At(k)
      BY <2>2 DEF LayoutInv
    <3>2. todo # <<>>
      BY RunsOutcome
    <3>3. /\ Head(todo)[1] \notin {"table"} => UNCHANGED names
          /\ Head(todo)[1] # "list" => UNCHANGED listed
          /\ Head(todo)[1] # "parts" => UNCHANGED info
          /\ Head(todo)[1] = "list" => listed' = names
      BY RunsKind DEF ReleaseList
    <3>4. ASSUME Head(todo)[1] = "parts" PROVE InfoOk'
      <4>1. ReleaseParts
        BY <3>4, RunsKind
      <4>2. /\ UNCHANGED names
            /\ \A n \in ToSet(names) : n \in Bases => info'[n] = LayoutLine(n)
        <5>1. PICK m \in 0 .. Len(names) :
                 /\ IF m = Len(names) THEN Go ELSE Abort /\ ~ Held(names[m + 1])
                 /\ info' = [n \in Bases |-> IF n \in ToSet(SubSeq(names, 1, m))
                                             THEN LayoutLine(n) ELSE info[n]]
          BY <4>1 DEF ReleaseParts
        <5>2. m = Len(names)
          BY <2>2, <1>4, <5>1 DEF Abort
        <5>3. SubSeq(names, 1, m) = names
          BY <5>2 DEF LayoutInv, InOrder
        <5> QED BY <4>1, <5>1, <5>3 DEF ReleaseParts
      <4>3. \A n \in ToSet(names) : n \in Bases
        BY KnownNames DEF TypeOK
      <4>4. InOrder(names)
        BY DEF LayoutInv
      <4>5. \A n \in ToSet(names) : info'[n] \in DOMAIN names /\ names[info'[n]] = n
        BY <4>2, <4>3, <4>4, OwnLine
      <4> QED BY <4>2, <4>5 DEF InfoOk
    <3>5. \E j \in 0 .. Len(Full)' : At(j)'
      BY <1>1, <1>4, <3>1, <3>2, <3>3, <3>4, Advance
    <3> QED BY <1>2, <1>4, <2>2, <3>5 DEF LayoutInv, Idle
  <2> QED BY <2>1, <2>2
<1> QED BY <1>3, <1>4, RunsOutcome

LEMMA LayoutStep ==
    ASSUME LongNamesLast
    PROVE  TypeOK /\ (Boot = "nand" => LayoutInv) /\ [Next]_vars
           => (Boot = "nand" => LayoutInv)'
<1> SUFFICES ASSUME TypeOK, Boot = "nand" => LayoutInv, [Next]_vars, (Boot = "nand")'
             PROVE  LayoutInv'
  OBVIOUS
<1>1. UNCHANGED config
  BY RunsOutcome DEF Next, Runs, Deliver, EditTable, Install, CleanModule, StartFull, StartPack,
     Finish, Kill, env, vars
<1>2. Boot = "nand" /\ LayoutInv
  BY <1>1 DEF Boot
<1>3. UNCHANGED <<Full, NandPack>>
  BY <1>1 DEF Full, Boot, Options, NandPack, EmmcPack, EmmcRelease, NandRelease, LogoSteps,
     FsSteps, On, Steps
<1>4. CASE Runs
  BY <1>2, <1>4, LayoutRuns
<1>5. CASE \/ \E i \in Changing : Deliver(i)
           \/ EditTable
           \/ \E m \in Appliances : Install(m)
  <2>1. outcome' = "none" /\ UNCHANGED <<todo, names>> /\ Idle
    BY <1>5 DEF Deliver, EditTable, Install
  <2> QED BY <1>2, <2>1 DEF LayoutInv, Idle, InOrder
<1>6. ASSUME NEW m \in Appliances, CleanModule(m) PROVE LayoutInv'
  <2>1. UNCHANGED <<outcome, todo, names, listed, info>>
    BY <1>6 DEF CleanModule, shell, disk
  <2> QED BY <1>2, <1>3, <1>6, <2>1 DEF LayoutInv, Idle, InOrder, InfoOk, CleanModule
<1>7. CASE StartFull
  <2>1. todo' = Full /\ outcome' = "running" /\ UNCHANGED names
    BY <1>7 DEF StartFull
  <2>2. Full \in Seq(Kinds \X Args) /\ Len(Full) = Len(NandPack) + 3 /\ Len(NandPack) \in Nat
    BY <1>2, NandScript
  <2>3. SubSeq(Full, 0 + 1, Len(Full)) = Full /\ 0 \in 0 .. Len(Full)
    <3> HIDE DEF Full
    <3> QED BY <2>2
  <2>4. At(0)'
    BY <1>3, <2>1, <2>2, <2>3 DEF At
  <2> QED BY <1>2, <1>3, <2>1, <2>3, <2>4 DEF LayoutInv, Idle, InOrder
<1>8. ASSUME NEW x \in Packs, StartPack(x) PROVE LayoutInv'
  <2>1. outcome' = "packing" /\ UNCHANGED names
    BY <1>8 DEF StartPack
  <2> QED BY <1>2, <2>1 DEF LayoutInv, Idle, InOrder
<1>9. CASE Finish
  <2>1. UNCHANGED <<todo, names, listed, info>> /\ todo = <<>>
        /\ outcome' = IF outcome = "running" THEN "ok" ELSE "packed"
    BY <1>9 DEF Finish, disk
  <2>2. ASSUME outcome = "running" PROVE listed = names /\ InfoOk
    <3>1. PICK k \in 0 .. Len(Full) : At(k)
      BY <1>2, <2>2 DEF LayoutInv
    <3>2. Full \in Seq(Kinds \X Args) /\ Len(Full) = Len(NandPack) + 3 /\ Len(NandPack) \in Nat
      BY <1>2, NandScript
    <3>3. SubSeq(Full, k + 1, Len(Full)) = <<>>
      BY <2>1, <3>1 DEF At
    <3>4. k = Len(Full)
      <4> HIDE DEF Full
      <4>1. ASSUME k # Len(Full) PROVE FALSE
        <5>1. k + 1 \in 1 .. Len(Full)
          BY <3>2, <4>1
        <5>2. Len(SubSeq(Full, k + 1, Len(Full))) = Len(Full) - k
          BY <3>2, <5>1
        <5>3. Len(Full) - k = 0
          <6>1. Len(<<>>) = 0
            OBVIOUS
          <6> QED BY <3>3, <5>2, <6>1
        <5> QED BY <3>2, <4>1, <5>3
      <4> QED BY <4>1
    <3> QED BY <3>1, <3>2, <3>4 DEF At
  <2> QED BY <1>2, <2>1, <2>2 DEF LayoutInv, Idle, InOrder, InfoOk
<1>10. CASE Kill
  <2>1. outcome' = "failed" /\ todo' = <<>> /\ UNCHANGED names
    BY <1>10 DEF Kill
  <2> QED BY <1>2, <2>1 DEF LayoutInv, Idle, InOrder
<1>11. CASE UNCHANGED vars
  <2>1. UNCHANGED <<outcome, todo, names, listed, info>>
    BY <1>11 DEF vars, shell, disk
  <2> QED BY <1>2, <1>3, <2>1 DEF LayoutInv, Idle, InOrder, InfoOk, At
<1> QED
  BY <1>4, <1>5, <1>6, <1>7, <1>8, <1>9, <1>10, <1>11 DEF Next, Runs

(* Every part of a finished NAND release is described by its own line of the
   layout, when the product's tables list the longer of two names last
   (nand_gen_images.bashrc:18): also after other tables, single packs and
   killed runs, whose files are still there.                                 *)
THEOREM LayoutIsOwn ==
    ASSUME LongNamesLast
    PROVE  Spec => []OwnLayout
<1>1. Init => (Boot = "nand" => LayoutInv)
  BY LayoutInit
<1>2. (Boot = "nand" => LayoutInv) => OwnLayout
  BY DEF LayoutInv, InfoOk, OwnLayout
<1>3. TypeOK /\ (Boot = "nand" => LayoutInv) /\ [Next]_vars => (Boot = "nand" => LayoutInv)'
  BY LayoutStep
<1> QED BY <1>1, <1>2, <1>3, TypeInit, TypeStep, PTL DEF Spec

-----------------------------------------------------------------------------
(***************************************************************************)
(* What a full run releases, and why one fails.                            *)
(*                                                                         *)
(* A script is a sequence of commands.  It has four parts: what comes      *)
(* before the preloaded TAs, they themselves, the rest of the packing, and *)
(* the release.  The invariant says for every command that was run what it *)
(* left, and that no later one took it away.  Commands that leave          *)
(* something half done follow each other at once, so that only a killed    *)
(* run leaves it so.                                                       *)
(***************************************************************************)

Words == Payloads \cup {"table", "map", "pack", "logo", "app", "list", "release", "copy",
                        "parts", "unify", "", "ta", "unzip", "move", "sign", "remove",
                        "mkdir", "misc"}
Cmds == Words \X Words

(* The commands without an argument *)
TableCmd == <<"table", "">>
MapCmd == <<"map", "">>
ListCmd == <<"list", "">>
PartsCmd == <<"parts", "">>
UnifyCmd == <<"unify", "">>

(* Those whose place among the others matters *)
LogoUnzip == <<"logo", "unzip">>
LogoMove == <<"logo", "move">>
AppMove == <<"app", "move">>
AppMkdir == <<"app", "mkdir">>
PackRootfs == <<"pack", "rootfs">>
PackApp == <<"pack", "app">>
LogoCopy == <<"copy", "fastlogo">>
LogoRelease == <<"release", "fastlogo">>

(* No two of the commands without an argument, nor one of them and another,
   are the same.                                                            *)
LEMMA Kind ==
    /\ TableCmd[1] = "table" /\ MapCmd[1] = "map" /\ ListCmd[1] = "list"
    /\ PartsCmd[1] = "parts" /\ UnifyCmd[1] = "unify"
BY Zenon DEF TableCmd, MapCmd, ListCmd, PartsCmd, UnifyCmd

-----------------------------------------------------------------------------
(* Scripts: what they are put together from *)

LEMMA ToSetOfSingle ==
    ASSUME NEW S, NEW a \in S
    PROVE  <<a>> \in Seq(S) /\ ToSet(<<a>>) = {a}
<1>1. DOMAIN <<a>> = {1}
  OBVIOUS
<1> QED BY <1>1 DEF ToSet

LEMMA ToSetOfPair ==
    ASSUME NEW S, NEW a \in S, NEW b \in S
    PROVE  <<a, b>> \in Seq(S) /\ ToSet(<<a, b>>) = {a, b}
<1>1. DOMAIN <<a, b>> = {1, 2}
  OBVIOUS
<1> QED BY <1>1 DEF ToSet

LEMMA ToSetOfTriple ==
    ASSUME NEW S, NEW a \in S, NEW b \in S, NEW c \in S
    PROVE  <<a, b, c>> \in Seq(S) /\ ToSet(<<a, b, c>>) = {a, b, c}
<1>1. DOMAIN <<a, b, c>> = {1, 2, 3}
  OBVIOUS
<1> QED BY <1>1 DEF ToSet

LEMMA ToSetOfQuadruple ==
    ASSUME NEW S, NEW a \in S, NEW b \in S, NEW c \in S, NEW d \in S
    PROVE  <<a, b, c, d>> \in Seq(S) /\ ToSet(<<a, b, c, d>>) = {a, b, c, d}
<1>1. DOMAIN <<a, b, c, d>> = {1, 2, 3, 4}
  OBVIOUS
<1> QED BY <1>1 DEF ToSet

LEMMA ToSetOfQuintuple ==
    ASSUME NEW S, NEW a \in S, NEW b \in S, NEW c \in S, NEW d \in S, NEW e \in S
    PROVE  <<a, b, c, d, e>> \in Seq(S) /\ ToSet(<<a, b, c, d, e>>) = {a, b, c, d, e}
<1>1. DOMAIN <<a, b, c, d, e>> = {1, 2, 3, 4, 5}
  OBVIOUS
<1> QED BY <1>1 DEF ToSet

LEMMA ToSetOfEmpty == \A S : <<>> \in Seq(S) /\ ToSet(<<>>) = {}
BY DEF ToSet

LEMMA ToSetOfJoined ==
    ASSUME NEW S, NEW f \in Seq(S), NEW g \in Seq(S)
    PROVE  f \o g \in Seq(S) /\ ToSet(f \o g) = ToSet(f) \cup ToSet(g)
<1>1. /\ DOMAIN f = 1 .. Len(f) /\ DOMAIN g = 1 .. Len(g) /\ Len(f) \in Nat /\ Len(g) \in Nat
      /\ f \o g \in Seq(S) /\ DOMAIN (f \o g) = 1 .. Len(f) + Len(g)
      /\ \A j \in 1 .. Len(f) : (f \o g)[j] = f[j]
      /\ \A j \in 1 .. Len(g) : (f \o g)[Len(f) + j] = g[j]
  BY Joined
<1>2. ASSUME NEW x \in ToSet(f \o g) PROVE x \in ToSet(f) \cup ToSet(g)
  <2>1. PICK j \in 1 .. Len(f) + Len(g) : (f \o g)[j] = x
    BY <1>1, <1>2 DEF ToSet
  <2>2. CASE j <= Len(f)
    BY <1>1, <2>1, <2>2 DEF ToSet
  <2>3. CASE j > Len(f)
    <3>1. j - Len(f) \in 1 .. Len(g) /\ Len(f) + (j - Len(f)) = j
      BY <1>1, <2>1, <2>3
    <3>2. g[j - Len(f)] = x
      BY <1>1, <2>1, <3>1
    <3> QED BY <1>1, <3>1, <3>2 DEF ToSet
  <2> QED BY <1>1, <2>1, <2>2, <2>3
<1>3. ToSet(f) \subseteq ToSet(f \o g)
  BY <1>1 DEF ToSet
<1>4. ASSUME NEW x \in ToSet(g) PROVE x \in ToSet(f \o g)
  <2>1. PICK j \in 1 .. Len(g) : g[j] = x
    BY <1>1, <1>4 DEF ToSet
  <2>2. Len(f) + j \in 1 .. Len(f) + Len(g)
    BY <1>1, <2>1
  <2> QED BY <1>1, <2>1, <2>2 DEF ToSet
<1> QED BY <1>1, <1>2, <1>3, <1>4

LEMMA Pairs ==
    ASSUME NEW A, NEW B, NEW x \in A \X B
    PROVE  x = <<x[1], x[2]>> /\ x[1] \in A /\ x[2] \in B
OBVIOUS

LEMMA ToSetOfSteps ==
    ASSUME NEW kind \in Words, NEW payloads \in Seq(Words)
    PROVE  /\ Steps(kind, payloads) \in Seq(Cmds)
           /\ ToSet(Steps(kind, payloads)) = {kind} \X ToSet(payloads)
<1>1. Steps(kind, payloads) \in Seq(Cmds)
  BY StepsOf DEF Cmds
<1>2. Steps(kind, payloads) = [i \in 1 .. Len(payloads) |-> <<kind, payloads[i]>>]
  BY DEF Steps
<1>3. DOMAIN payloads = 1 .. Len(payloads)
  OBVIOUS
<1>4. ToSet(Steps(kind, payloads)) = {<<kind, payloads[i]>> : i \in 1 .. Len(payloads)}
  BY <1>2 DEF ToSet
<1>5. ToSet(payloads) = {payloads[i] : i \in 1 .. Len(payloads)}
  BY <1>3 DEF ToSet
<1>6. ASSUME NEW i \in 1 .. Len(payloads)
      PROVE  <<kind, payloads[i]>> \in {kind} \X ToSet(payloads)
  BY <1>5
<1>7. ASSUME NEW p \in ToSet(payloads)
      PROVE  <<kind, p>> \in ToSet(Steps(kind, payloads))
  <2>1. PICK i \in 1 .. Len(payloads) : payloads[i] = p
    BY <1>5, <1>7
  <2> QED BY <1>4, <2>1
<1>8. ASSUME NEW x \in {kind} \X ToSet(payloads) PROVE x \in ToSet(Steps(kind, payloads))
  <2>1. x = <<x[1], x[2]>> /\ x[1] \in {kind} /\ x[2] \in ToSet(payloads)
    BY <1>8, Pairs
  <2> QED BY <1>7, <2>1
<1>9. ToSet(Steps(kind, payloads)) \subseteq {kind} \X ToSet(payloads)
  BY <1>4, <1>6
<1> QED BY <1>1, <1>8, <1>9

LEMMA ToSetOfOn ==
    ASSUME NEW option, NEW f \in Seq(Cmds)
    PROVE  /\ On(option, f) \in Seq(Cmds)
           /\ ToSet(On(option, f)) = IF option \in Options THEN ToSet(f) ELSE {}
BY ToSetOfEmpty DEF On

-----------------------------------------------------------------------------
(* The order of the commands *)

(* The stages of a script.  Those in Flat may hold several commands. *)
Early == {"block0", "preboot", "tee", "tee_recovery", "bootloader", "firmware"}
Flat == {0, 1, 7, 8}
Rank(x) ==
    IF x[1] \in {"table", "map"} THEN 0
    ELSE IF x[1] = "pack" /\ x[2] \in Early THEN 1
    ELSE IF x = <<"pack", "ta">> THEN 2
    ELSE IF x = <<"logo", "unzip">> THEN 3
    ELSE IF x = <<"logo", "move">> THEN 4
    ELSE IF x = <<"logo", "sign">> THEN 5
    ELSE IF x = <<"pack", "fastlogo">> THEN 6
    ELSE IF x[1] \in {"pack", "app"} THEN 7
    ELSE 8

Before(x, y) == Rank(x) < Rank(y) \/ (Rank(x) = Rank(y) /\ Rank(x) \in Flat)

Orderly(f) == \A i, j \in DOMAIN f : i < j => Before(f[i], f[j])

(* An orderly script that has come to stage r *)
Upto(f, r) == f \in Seq(Cmds) /\ Orderly(f) /\ \A x \in ToSet(f) : Rank(x) <= r

LEMMA RankNat == \A x : Rank(x) \in 0 .. 8
BY DEF Rank

LEMMA NotBefore == ASSUME NEW x, NEW y, Before(x, y) PROVE ~ (Rank(y) < Rank(x))
BY RankNat DEF Before

LEMMA InSet == ASSUME NEW f, NEW j \in DOMAIN f PROVE f[j] \in ToSet(f)
BY DEF ToSet

(* A piece of a script after stage r, which it leaves at stage s *)
Piece(g, r, s) ==
    /\ g \in Seq(Cmds) /\ Orderly(g) /\ r \in 0 .. 8 /\ s \in r .. 8
    /\ \A y \in ToSet(g) : Rank(y) <= s /\ (r < Rank(y) \/ (r = Rank(y) /\ r \in Flat))

LEMMA Continued ==
    ASSUME NEW f, NEW g, NEW r, NEW s, Upto(f, r), Piece(g, r, s)
    PROVE  /\ Upto(f \o g, s) /\ f \o g \in Seq(Cmds)
           /\ ToSet(f \o g) = ToSet(f) \cup ToSet(g)
<1>0. /\ g \in Seq(Cmds) /\ Orderly(g) /\ r \in 0 .. 8 /\ s \in r .. 8
      /\ \A y \in ToSet(g) : Rank(y) <= s /\ (r < Rank(y) \/ (r = Rank(y) /\ r \in Flat))
  BY DEF Piece
<1>1. f \in Seq(Cmds) /\ Orderly(f) /\ \A x \in ToSet(f) : Rank(x) <= r
  BY DEF Upto
<1>2. f \o g \in Seq(Cmds) /\ ToSet(f \o g) = ToSet(f) \cup ToSet(g)
  BY <1>0, <1>1, ToSetOfJoined
<1>3. \A x \in ToSet(f \o g) : Rank(x) <= s
  BY <1>0, <1>1, <1>2, RankNat
<1>4. \A x \in ToSet(f), y \in ToSet(g) : Before(x, y)
  BY <1>0, <1>1, RankNat DEF Before
<1>5. /\ DOMAIN f = 1 .. Len(f) /\ DOMAIN g = 1 .. Len(g) /\ Len(f) \in Nat /\ Len(g) \in Nat
      /\ DOMAIN (f \o g) = 1 .. Len(f) + Len(g)
      /\ \A j \in 1 .. Len(f) : (f \o g)[j] = f[j]
      /\ \A j \in 1 .. Len(g) : (f \o g)[Len(f) + j] = g[j]
  BY <1>0, <1>1, Joined
<1>6. ASSUME NEW i \in DOMAIN (f \o g), NEW j \in DOMAIN (f \o g), i < j
      PROVE  Before((f \o g)[i], (f \o g)[j])
  <2>1. CASE j <= Len(f)
    <3>1. i \in DOMAIN f /\ j \in DOMAIN f
      BY <1>5, <1>6, <2>1
    <3> QED BY <1>1, <1>5, <1>6, <3>1 DEF Orderly
  <2>2. CASE i <= Len(f) /\ j > Len(f)
    <3>1. i \in DOMAIN f /\ j - Len(f) \in DOMAIN g /\ j = Len(f) + (j - Len(f))
      BY <1>5, <1>6, <2>2
    <3>2. (f \o g)[i] = f[i] /\ (f \o g)[j] = g[j - Len(f)]
      BY <1>5, <3>1
    <3> QED BY <1>4, <3>1, <3>2, InSet
  <2>3. CASE i > Len(f)
    <3>1. /\ i - Len(f) \in DOMAIN g /\ i = Len(f) + (i - Len(f))
          /\ j - Len(f) \in DOMAIN g /\ j = Len(f) + (j - Len(f))
          /\ i - Len(f) < j - Len(f)
      <4> DEFINE m == Len(f)
                 q == Len(g)
      <4>1. m \in Nat /\ q \in Nat /\ i \in 1 .. m + q /\ j \in 1 .. m + q /\ DOMAIN g = 1 .. q
        BY <1>5, <1>6
      <4>2. i > m /\ i < j
        BY <1>6, <2>3
      <4> HIDE DEF m, q
      <4>3. /\ i - m \in 1 .. q /\ i = m + (i - m)
            /\ j - m \in 1 .. q /\ j = m + (j - m) /\ i - m < j - m
        BY <4>1, <4>2
      <4> QED BY <4>1, <4>3 DEF m
    <3>2. (f \o g)[i] = g[i - Len(f)] /\ (f \o g)[j] = g[j - Len(f)]
      BY <1>5, <3>1
    <3> QED BY <1>0, <3>1, <3>2 DEF Orderly
  <2> QED BY <1>5, <1>6, <2>1, <2>2, <2>3
<1> QED BY <1>2, <1>3, <1>6 DEF Upto, Orderly

(* Commands of one stage are in any order, *)
LEMMA FlatOrder ==
    ASSUME NEW f, NEW r \in Flat, \A x \in ToSet(f) : Rank(x) = r
    PROVE  Orderly(f)
<1>1. ASSUME NEW i \in DOMAIN f, NEW j \in DOMAIN f PROVE Before(f[i], f[j])
  <2>1. Rank(f[i]) = r /\ Rank(f[j]) = r
    BY InSet
  <2> QED BY <2>1 DEF Before
<1> QED BY <1>1 DEF Orderly

(* and so is a single one. *)
LEMMA SingleOrder == \A x : Orderly(<<x>>)
BY DEF Orderly

LEMMA EmptyOrder == Orderly(<<>>)
BY DEF Orderly

(* A piece of one command, of commands of one stage, and one that an option
   leaves out                                                              *)
LEMMA PieceOfOne ==
    ASSUME NEW kind \in Words, NEW p \in Words, NEW r \in 0 .. 8, NEW s \in r .. 8,
           Rank(<<kind, p>>) = s, r = s => r \in Flat
    PROVE  Piece(Steps(kind, <<p>>), r, s) /\ ToSet(Steps(kind, <<p>>)) = {<<kind, p>>}
<1> DEFINE g == Steps(kind, <<p>>)
<1>1. <<p>> \in Seq(Words) /\ ToSet(<<p>>) = {p} /\ DOMAIN <<p>> = {1}
  BY ToSetOfSingle
<1>2. g \in Seq(Cmds) /\ ToSet(g) = {<<kind, p>>}
  <2>1. g \in Seq(Cmds) /\ ToSet(g) = {kind} \X {p}
    BY <1>1, ToSetOfSteps
  <2>2. {kind} \X {p} = {<<kind, p>>}
    OBVIOUS
  <2> QED BY <2>1, <2>2
<1>3. DOMAIN g = {1}
  BY <1>1 DEF Steps
<1> HIDE DEF g
<1>4. Orderly(g)
  BY <1>3 DEF Orderly
<1>5. Piece(g, r, s)
  BY <1>2, <1>4 DEF Piece
<1> QED BY <1>2, <1>5 DEF g

LEMMA PieceOfStage ==
    ASSUME NEW g \in Seq(Cmds), NEW s \in Flat, NEW r \in 0 .. s, \A y \in ToSet(g) : Rank(y) = s
    PROVE  Piece(g, r, s)
<1>1. Orderly(g)
  BY FlatOrder
<1>2. s \in 0 .. 8
  BY DEF Flat
<1> QED BY <1>1, <1>2 DEF Piece

LEMMA PieceOn ==
    ASSUME NEW option, NEW g, NEW r, NEW s, Piece(g, r, s)
    PROVE  /\ Piece(On(option, g), r, s)
           /\ ToSet(On(option, g)) = IF option \in Options THEN ToSet(g) ELSE {}
<1>1. CASE option \in Options
  BY <1>1 DEF On
<1>2. CASE option \notin Options
  <2>1. On(option, g) = <<>> /\ <<>> \in Seq(Cmds) /\ ToSet(<<>>) = {}
    BY <1>2, ToSetOfEmpty DEF On
  <2> QED BY <1>2, <2>1, EmptyOrder DEF Piece
<1> QED BY <1>1, <1>2

-----------------------------------------------------------------------------
(* The scripts of this model *)

LEMMA Ranks ==
    /\ Rank(TableCmd) = 0 /\ Rank(MapCmd) = 0
    /\ Rank(ListCmd) = 8 /\ Rank(PartsCmd) = 8 /\ Rank(UnifyCmd) = 8
    /\ \A p \in Early : Rank(<<"pack", p>>) = 1
    /\ \A p \in {"key", "fastboot", "linux_bootimgs", "system", "rootfs", "app"} :
            Rank(<<"pack", p>>) = 7
    /\ \A p : Rank(<<"app", p>>) = 7
    /\ \A kind \in {"release", "copy"} : \A p : Rank(<<kind, p>>) = 8
<1>1. /\ TableCmd[1] = "table" /\ MapCmd[1] = "map" /\ ListCmd[1] = "list"
      /\ PartsCmd[1] = "parts" /\ UnifyCmd[1] = "unify"
  BY Zenon DEF TableCmd, MapCmd, ListCmd, PartsCmd, UnifyCmd
<1>2. /\ Rank(TableCmd) = 0 /\ Rank(MapCmd) = 0
      /\ Rank(ListCmd) = 8 /\ Rank(PartsCmd) = 8 /\ Rank(UnifyCmd) = 8
  BY <1>1 DEF Rank
<1> QED BY <1>2 DEF Rank, Early

LEMMA RanksOf ==
    /\ Rank(<<"pack", "firmware">>) = 1 /\ Rank(<<"pack", "ta">>) = 2
    /\ Rank(<<"logo", "unzip">>) = 3 /\ Rank(<<"logo", "move">>) = 4
    /\ Rank(<<"logo", "sign">>) = 5 /\ Rank(<<"pack", "fastlogo">>) = 6
    /\ Rank(<<"pack", "key">>) = 7 /\ Rank(<<"pack", "fastboot">>) = 7
    /\ Rank(<<"pack", "linux_bootimgs">>) = 7
BY DEF Rank, Early

(* What handle_fs_subdir and create_filesystem_image run *)
LEMMA FsScript ==
    /\ FsSteps \in Seq(Cmds)
    /\ ToSet(FsSteps) =
        IF "app" \in Options
        THEN {<<"app", "remove">>, <<"app", "move">>, <<"app", "mkdir">>,
              <<"pack", "rootfs">>, <<"pack", "app">>}
        ELSE {<<"pack", "system">>}
    /\ \A x \in ToSet(FsSteps) : Rank(x) = 7
<1> DEFINE a == <<"app", "remove">>
           b == <<"app", "move">>
           c == <<"app", "mkdir">>
           d == <<"pack", "rootfs">>
           e == <<"pack", "app">>
           s == <<"pack", "system">>
<1>1. a \in Cmds /\ b \in Cmds /\ c \in Cmds /\ d \in Cmds /\ e \in Cmds /\ s \in Cmds
  BY DEF Cmds, Words, Payloads
<1>2. FsSteps = IF "app" \in Options THEN <<a, b, c, d, e>> ELSE <<s>>
  BY DEF FsSteps
<1>3. \A x \in {a, b, c, d, e, s} : Rank(x) = 7
  BY Ranks
<1> HIDE DEF a, b, c, d, e, s
<1>4. /\ <<a, b, c, d, e>> \in Seq(Cmds) /\ ToSet(<<a, b, c, d, e>>) = {a, b, c, d, e}
      /\ <<s>> \in Seq(Cmds) /\ ToSet(<<s>>) = {s}
  BY <1>1, ToSetOfQuintuple, ToSetOfSingle
<1>5. FsSteps \in Seq(Cmds) /\ ToSet(FsSteps) = IF "app" \in Options THEN {a, b, c, d, e} ELSE {s}
  BY <1>2, <1>4
<1>6. \A x \in ToSet(FsSteps) : Rank(x) = 7
  BY <1>3, <1>5
<1> QED BY <1>5, <1>6 DEF a, b, c, d, e, s

LEMMA LogoScript ==
    /\ LogoSteps \in Seq(Cmds) /\ Orderly(LogoSteps)
    /\ ToSet(LogoSteps) = {<<"logo", "unzip">>, <<"logo", "move">>, <<"logo", "sign">>,
                           <<"pack", "fastlogo">>}
    /\ \A x \in ToSet(LogoSteps) : Rank(x) \in 3 .. 6
<1> DEFINE a == <<"logo", "unzip">>
           b == <<"logo", "move">>
           c == <<"logo", "sign">>
           d == <<"pack", "fastlogo">>
<1>1. a \in Cmds /\ b \in Cmds /\ c \in Cmds /\ d \in Cmds
  BY DEF Cmds, Words, Payloads
<1>2. LogoSteps = <<a, b, c, d>>
  BY DEF LogoSteps
<1>3. Rank(a) = 3 /\ Rank(b) = 4 /\ Rank(c) = 5 /\ Rank(d) = 6
  BY RanksOf
<1> HIDE DEF a, b, c, d
<1>4. Before(a, b) /\ Before(a, c) /\ Before(a, d) /\ Before(b, c) /\ Before(b, d) /\ Before(c, d)
  BY <1>3 DEF Before
<1>5. Orderly(<<a, b, c, d>>)
  BY <1>4 DEF Orderly
<1>6. <<a, b, c, d>> \in Seq(Cmds) /\ ToSet(<<a, b, c, d>>) = {a, b, c, d}
  BY <1>1, ToSetOfQuadruple
<1>7. \A x \in ToSet(LogoSteps) : Rank(x) \in 3 .. 6
  BY <1>2, <1>3, <1>6
<1> QED BY <1>2, <1>5, <1>6, <1>7 DEF a, b, c, d

(* The stages a NAND script and an eMMC script begin with *)
LEMMA FirstStage ==
    /\ Upto(<<TableCmd>>, 0) /\ ToSet(<<TableCmd>>) = {TableCmd}
    /\ Upto(<<TableCmd, MapCmd>>, 0) /\ ToSet(<<TableCmd, MapCmd>>) = {TableCmd, MapCmd}
<1>1. TableCmd \in Cmds /\ MapCmd \in Cmds
  BY DEF Cmds, Words, TableCmd, MapCmd
<1>2. Rank(TableCmd) = 0 /\ Rank(MapCmd) = 0
  BY Ranks
<1>3. /\ <<TableCmd>> \in Seq(Cmds) /\ ToSet(<<TableCmd>>) = {TableCmd}
      /\ <<TableCmd, MapCmd>> \in Seq(Cmds) /\ ToSet(<<TableCmd, MapCmd>>) = {TableCmd, MapCmd}
  BY <1>1, ToSetOfSingle, ToSetOfPair
<1>4. Orderly(<<TableCmd>>) /\ Orderly(<<TableCmd, MapCmd>>)
  BY <1>2, <1>3, FlatOrder DEF Flat
<1> QED BY <1>2, <1>3, <1>4 DEF Upto

LEMMA InWords ==
    /\ Payloads \subseteq Words
    /\ "pack" \in Words /\ "release" \in Words /\ "list" \in Words /\ "copy" \in Words
    /\ "parts" \in Words /\ "unify" \in Words /\ "misc" \in Words
    /\ "ta" \in Words
BY DEF Words

(* emmc/packaging.bashrc up to the release *)
EmmcPacked ==
    {TableCmd, MapCmd}
    \cup {<<"pack", "preboot">>, <<"pack", "tee">>, <<"pack", "tee_recovery">>,
          <<"pack", "bootloader">>}
    \cup (IF "genx" \in Options THEN {<<"pack", "firmware">>} ELSE {})
    \cup (IF "preload_ta" \in Options THEN {<<"pack", "ta">>} ELSE {})
    \cup (IF "genx" \in Options
          THEN {<<"logo", "unzip">>, <<"logo", "move">>, <<"logo", "sign">>,
                <<"pack", "fastlogo">>}
          ELSE {})
    \cup {<<"pack", "key">>}
    \cup (IF "fastboot" \in Options THEN {<<"pack", "fastboot">>} ELSE {})
    \cup (IF "runtime" \in Options THEN {<<"pack", "linux_bootimgs">>} \cup ToSet(FsSteps)
          ELSE {})

LEMMA EmmcPackOrder ==
    Upto(EmmcPack, 7) /\ EmmcPack \in Seq(Cmds) /\ ToSet(EmmcPack) = EmmcPacked
<1> DEFINE T == <<TableCmd, MapCmd>>
           P == Steps("pack", <<"preboot", "tee", "tee_recovery", "bootloader">>)
           F == Steps("pack", <<"firmware">>)
           A == Steps("pack", <<"ta">>)
           K == Steps("pack", <<"key">>)
           B == Steps("pack", <<"fastboot">>)
           L == Steps("pack", <<"linux_bootimgs">>)
           R == L \o FsSteps
<1>1. EmmcPack = T \o P \o On("genx", F) \o On("preload_ta", A) \o On("genx", LogoSteps)
                 \o K \o On("fastboot", B) \o On("runtime", R)
  BY DEF EmmcPack, TableCmd, MapCmd
<1>2. Upto(T, 0) /\ ToSet(T) = {TableCmd, MapCmd}
  BY FirstStage
<1>3. Piece(P, 0, 1) /\ ToSet(P) = {<<"pack", "preboot">>, <<"pack", "tee">>,
                                    <<"pack", "tee_recovery">>, <<"pack", "bootloader">>}
  <2> DEFINE ps == <<"preboot", "tee", "tee_recovery", "bootloader">>
  <2>1. ps \in Seq(Words) /\ ToSet(ps) = {"preboot", "tee", "tee_recovery", "bootloader"}
    <3>1. /\ "preboot" \in Words /\ "tee" \in Words /\ "tee_recovery" \in Words
          /\ "bootloader" \in Words
      BY DEF Words, Payloads
    <3> QED BY <3>1, ToSetOfQuadruple
  <2>2. P \in Seq(Cmds) /\ ToSet(P) = {"pack"} \X {"preboot", "tee", "tee_recovery", "bootloader"}
    <3>1. "pack" \in Words
      BY InWords
    <3> HIDE DEF ps
    <3>2. P \in Seq(Cmds) /\ ToSet(P) = {"pack"} \X ToSet(ps)
      BY <2>1, <3>1, ToSetOfSteps DEF ps
    <3> QED BY <2>1, <3>2
  <2>3. ToSet(P) = {<<"pack", "preboot">>, <<"pack", "tee">>,
                    <<"pack", "tee_recovery">>, <<"pack", "bootloader">>}
    BY <2>2
  <2>4. \A y \in ToSet(P) : Rank(y) = 1
    BY <2>3, Ranks DEF Early
  <2> HIDE DEF P
  <2> QED BY <2>2, <2>3, <2>4, PieceOfStage DEF Flat
<1>4. Piece(F, 1, 1) /\ ToSet(F) = {<<"pack", "firmware">>}
  <2>1. "pack" \in Words /\ "firmware" \in Words /\ Rank(<<"pack", "firmware">>) = 1
        /\ 1 \in 0 .. 8 /\ 1 \in 1 .. 8 /\ 1 \in Flat
    BY RanksOf, InWords DEF Payloads, Flat
  <2> QED BY <2>1, PieceOfOne
<1>5. Piece(A, 1, 2) /\ ToSet(A) = {<<"pack", "ta">>}
  <2>1. "pack" \in Words /\ "ta" \in Words /\ Rank(<<"pack", "ta">>) = 2
        /\ 1 \in 0 .. 8 /\ 2 \in 1 .. 8 /\ 1 # 2
    BY RanksOf, InWords DEF Payloads, Flat
  <2> QED BY <2>1, PieceOfOne
<1>6. Piece(LogoSteps, 2, 6) /\ ToSet(LogoSteps) = {<<"logo", "unzip">>, <<"logo", "move">>,
                                                   <<"logo", "sign">>, <<"pack", "fastlogo">>}
  <2>1. \A y \in ToSet(LogoSteps) : Rank(y) <= 6 /\ 2 < Rank(y)
    BY LogoScript
  <2>2. 2 \in 0 .. 8 /\ 6 \in 2 .. 8
    OBVIOUS
  <2> QED BY <2>1, <2>2, LogoScript DEF Piece
<1>7. Piece(K, 6, 7) /\ ToSet(K) = {<<"pack", "key">>}
  <2>1. "pack" \in Words /\ "key" \in Words /\ Rank(<<"pack", "key">>) = 7
        /\ 6 \in 0 .. 8 /\ 7 \in 6 .. 8 /\ 6 # 7
    BY RanksOf, InWords DEF Payloads, Flat
  <2> QED BY <2>1, PieceOfOne
<1>8. Piece(B, 7, 7) /\ ToSet(B) = {<<"pack", "fastboot">>}
  <2>1. "pack" \in Words /\ "fastboot" \in Words /\ Rank(<<"pack", "fastboot">>) = 7
        /\ 7 \in 0 .. 8 /\ 7 \in 7 .. 8 /\ 7 \in Flat
    BY RanksOf, InWords DEF Payloads, Flat
  <2> QED BY <2>1, PieceOfOne
<1>9. Piece(R, 7, 7) /\ ToSet(R) = {<<"pack", "linux_bootimgs">>} \cup ToSet(FsSteps)
  <2>1. Piece(L, 7, 7) /\ ToSet(L) = {<<"pack", "linux_bootimgs">>}
    <3>1. "pack" \in Words /\ "linux_bootimgs" \in Words /\ Rank(<<"pack", "linux_bootimgs">>) = 7
          /\ 7 \in 0 .. 8 /\ 7 \in 7 .. 8 /\ 7 \in Flat
      BY RanksOf, InWords DEF Payloads, Flat
    <3> QED BY <3>1, PieceOfOne
  <2>2. R \in Seq(Cmds) /\ ToSet(R) = ToSet(L) \cup ToSet(FsSteps)
    <3> HIDE DEF L
    <3> QED BY <2>1, FsScript, ToSetOfJoined DEF Piece
  <2>3. Rank(<<"pack", "linux_bootimgs">>) = 7
    BY Ranks
  <2>4. \A y \in ToSet(R) : Rank(y) = 7
    <3> HIDE DEF R
    <3> QED BY <2>1, <2>2, <2>3, FsScript
  <2> HIDE DEF R, L
  <2> QED BY <2>1, <2>2, <2>4, PieceOfStage DEF Flat
<1> HIDE DEF T, P, F, A, K, B, R
<1> DEFINE f1 == T \o P
           f2 == f1 \o On("genx", F)
           f3 == f2 \o On("preload_ta", A)
           f4 == f3 \o On("genx", LogoSteps)
           f5 == f4 \o K
           f6 == f5 \o On("fastboot", B)
           f7 == f6 \o On("runtime", R)
<1>10. /\ Piece(On("genx", F), 1, 1) /\ ToSet(On("genx", F)) = IF "genx" \in Options THEN ToSet(F) ELSE {}
       /\ Piece(On("preload_ta", A), 1, 2)
       /\ ToSet(On("preload_ta", A)) = IF "preload_ta" \in Options THEN ToSet(A) ELSE {}
       /\ Piece(On("genx", LogoSteps), 2, 6)
       /\ ToSet(On("genx", LogoSteps)) = IF "genx" \in Options THEN ToSet(LogoSteps) ELSE {}
       /\ Piece(On("fastboot", B), 7, 7)
       /\ ToSet(On("fastboot", B)) = IF "fastboot" \in Options THEN ToSet(B) ELSE {}
       /\ Piece(On("runtime", R), 7, 7)
       /\ ToSet(On("runtime", R)) = IF "runtime" \in Options THEN ToSet(R) ELSE {}
  BY <1>4, <1>5, <1>6, <1>8, <1>9, PieceOn
<1>11. Upto(f1, 1) /\ ToSet(f1) = ToSet(T) \cup ToSet(P)
  BY <1>2, <1>3, Continued
<1>12. Upto(f2, 1) /\ ToSet(f2) = ToSet(f1) \cup ToSet(On("genx", F))
  <2> HIDE DEF f1
  <2> QED BY <1>10, <1>11, Continued
<1>13. Upto(f3, 2) /\ ToSet(f3) = ToSet(f2) \cup ToSet(On("preload_ta", A))
  <2> HIDE DEF f2
  <2> QED BY <1>10, <1>12, Continued
<1>14. Upto(f4, 6) /\ ToSet(f4) = ToSet(f3) \cup ToSet(On("genx", LogoSteps))
  <2> HIDE DEF f3
  <2> QED BY <1>10, <1>13, Continued
<1>15. Upto(f5, 7) /\ ToSet(f5) = ToSet(f4) \cup ToSet(K)
  <2> HIDE DEF f4
  <2> QED BY <1>7, <1>14, Continued
<1>16. Upto(f6, 7) /\ ToSet(f6) = ToSet(f5) \cup ToSet(On("fastboot", B))
  <2> HIDE DEF f5
  <2> QED BY <1>10, <1>15, Continued
<1>17. Upto(f7, 7) /\ f7 \in Seq(Cmds) /\ ToSet(f7) = ToSet(f6) \cup ToSet(On("runtime", R))
  <2> HIDE DEF f6
  <2> QED BY <1>10, <1>16, Continued
<1>18. EmmcPack = f7
  BY <1>1
<1> HIDE DEF f1, f2, f3, f4, f5, f6, f7
<1>19. ToSet(EmmcPack) =
        ToSet(T) \cup ToSet(P) \cup ToSet(On("genx", F)) \cup ToSet(On("preload_ta", A))
        \cup ToSet(On("genx", LogoSteps)) \cup ToSet(K) \cup ToSet(On("fastboot", B))
        \cup ToSet(On("runtime", R))
  BY <1>11, <1>12, <1>13, <1>14, <1>15, <1>16, <1>17, <1>18
<1>20. ToSet(EmmcPack) = EmmcPacked
  BY <1>2, <1>3, <1>4, <1>5, <1>6, <1>7, <1>8, <1>9, <1>10, <1>19 DEF EmmcPacked
<1> QED BY <1>17, <1>18, <1>20

(* Commands of the last stage *)
Final(f) == f \in Seq(Cmds) /\ \A y \in ToSet(f) : Rank(y) = 8

LEMMA FinalJoined ==
    ASSUME NEW f, NEW g, Final(f), Final(g)
    PROVE  Final(f \o g) /\ ToSet(f \o g) = ToSet(f) \cup ToSet(g)
BY ToSetOfJoined DEF Final

LEMMA FinalOn ==
    ASSUME NEW option, NEW f, Final(f)
    PROVE  /\ Final(On(option, f))
           /\ ToSet(On(option, f)) = IF option \in Options THEN ToSet(f) ELSE {}
<1>1. /\ On(option, f) \in Seq(Cmds)
      /\ ToSet(On(option, f)) = IF option \in Options THEN ToSet(f) ELSE {}
  BY ToSetOfOn DEF Final
<1> QED BY <1>1 DEF Final

LEMMA FinalSteps ==
    ASSUME NEW payloads \in Seq(Words)
    PROVE  /\ Final(Steps("release", payloads))
           /\ ToSet(Steps("release", payloads)) = {"release"} \X ToSet(payloads)
<1>1. "release" \in Words
  BY InWords
<1>2. /\ Steps("release", payloads) \in Seq(Cmds)
      /\ ToSet(Steps("release", payloads)) = {"release"} \X ToSet(payloads)
  BY <1>1, ToSetOfSteps
<1>3. ASSUME NEW y \in {"release"} \X ToSet(payloads) PROVE Rank(y) = 8
  <2>1. y = <<"release", y[2]>>
    BY Pairs
  <2> QED BY <2>1, Ranks
<1> QED BY <1>2, <1>3 DEF Final

(* emmc/packaging.bashrc from the release on *)
EmmcReleased ==
    {ListCmd} \cup {"release"} \X {"preboot", "tee", "tee_recovery"}
    \cup (IF "android" \in Options THEN {"release"} \X {"fastboot"} ELSE {})
    \cup {"release"} \X {"bootloader"}
    \cup (IF "genx" \in Options THEN {"release"} \X {"firmware"} ELSE {})
    \cup {"release"} \X {"key"}
    \cup (IF "runtime" \in Options THEN {"release"} \X {"linux_bootimgs", "system"} ELSE {})
    \cup (IF "fastboot" \in Options THEN {"release"} \X {"fastboot"} ELSE {})
    \cup (IF "fastlogo" \in Options THEN {<<"copy", "fastlogo">>, <<"release", "fastlogo">>} ELSE {})
    \cup (IF "ab" \in Options THEN {<<"copy", "misc">>} ELSE {})

LEMMA EmmcReleaseOrder == Final(EmmcRelease) /\ ToSet(EmmcRelease) = EmmcReleased
<1> DEFINE a == <<"copy", "fastlogo">>
           b == <<"release", "fastlogo">>
           c == <<"copy", "misc">>
           P == Steps("release", <<"preboot", "tee", "tee_recovery">>)
           F == Steps("release", <<"fastboot">>)
           B == Steps("release", <<"bootloader">>)
           M == Steps("release", <<"firmware">>)
           K == Steps("release", <<"key">>)
           L == Steps("release", <<"linux_bootimgs", "system">>)
<1>1. EmmcRelease = <<ListCmd>> \o P \o On("android", F) \o B \o On("genx", M) \o K
        \o On("runtime", L) \o On("fastboot", F) \o On("fastlogo", <<a, b>>) \o On("ab", <<c>>)
  BY DEF EmmcRelease, ListCmd
<1>2. /\ Final(P) /\ ToSet(P) = {"release"} \X {"preboot", "tee", "tee_recovery"}
      /\ Final(F) /\ ToSet(F) = {"release"} \X {"fastboot"}
      /\ Final(B) /\ ToSet(B) = {"release"} \X {"bootloader"}
      /\ Final(M) /\ ToSet(M) = {"release"} \X {"firmware"}
      /\ Final(K) /\ ToSet(K) = {"release"} \X {"key"}
      /\ Final(L) /\ ToSet(L) = {"release"} \X {"linux_bootimgs", "system"}
  <2>1. /\ "preboot" \in Words /\ "tee" \in Words /\ "tee_recovery" \in Words
        /\ "bootloader" \in Words /\ "firmware" \in Words /\ "key" \in Words
        /\ "fastboot" \in Words /\ "linux_bootimgs" \in Words /\ "system" \in Words
    BY InWords DEF Payloads
  <2>2. /\ <<"preboot", "tee", "tee_recovery">> \in Seq(Words)
        /\ ToSet(<<"preboot", "tee", "tee_recovery">>) = {"preboot", "tee", "tee_recovery"}
        /\ <<"linux_bootimgs", "system">> \in Seq(Words)
        /\ ToSet(<<"linux_bootimgs", "system">>) = {"linux_bootimgs", "system"}
    BY <2>1, ToSetOfTriple, ToSetOfPair
  <2>3. /\ <<"fastboot">> \in Seq(Words) /\ ToSet(<<"fastboot">>) = {"fastboot"}
        /\ <<"bootloader">> \in Seq(Words) /\ ToSet(<<"bootloader">>) = {"bootloader"}
        /\ <<"firmware">> \in Seq(Words) /\ ToSet(<<"firmware">>) = {"firmware"}
        /\ <<"key">> \in Seq(Words) /\ ToSet(<<"key">>) = {"key"}
    BY <2>1, ToSetOfSingle
  <2>4. \A ps \in Seq(Words) : Final(Steps("release", ps))
            /\ ToSet(Steps("release", ps)) = {"release"} \X ToSet(ps)
    BY FinalSteps
  <2> QED BY <2>2, <2>3, <2>4
<1>3. /\ Final(<<ListCmd>>) /\ ToSet(<<ListCmd>>) = {ListCmd}
      /\ Final(<<a, b>>) /\ ToSet(<<a, b>>) = {a, b}
      /\ Final(<<c>>) /\ ToSet(<<c>>) = {c}
  <2>1. ListCmd \in Cmds
    BY DEF ListCmd, Cmds, Words
  <2>2. a \in Cmds /\ b \in Cmds /\ c \in Cmds
    BY InWords DEF Cmds, Payloads
  <2>3. Rank(ListCmd) = 8 /\ Rank(a) = 8 /\ Rank(b) = 8 /\ Rank(c) = 8
    BY Ranks
  <2> HIDE DEF a, b, c
  <2>4. /\ <<ListCmd>> \in Seq(Cmds) /\ ToSet(<<ListCmd>>) = {ListCmd}
        /\ <<a, b>> \in Seq(Cmds) /\ ToSet(<<a, b>>) = {a, b}
        /\ <<c>> \in Seq(Cmds) /\ ToSet(<<c>>) = {c}
    BY <2>1, <2>2, ToSetOfSingle, ToSetOfPair
  <2> QED BY <2>3, <2>4 DEF Final
<1> DEFINE E == <<ListCmd>>
           G == <<a, b>>
           H == <<c>>
<1> HIDE DEF P, F, B, M, K, L, E, G, H
<1>4. /\ Final(On("android", F)) /\ ToSet(On("android", F)) = IF "android" \in Options THEN ToSet(F) ELSE {}
      /\ Final(On("genx", M)) /\ ToSet(On("genx", M)) = IF "genx" \in Options THEN ToSet(M) ELSE {}
      /\ Final(On("runtime", L)) /\ ToSet(On("runtime", L)) = IF "runtime" \in Options THEN ToSet(L) ELSE {}
      /\ Final(On("fastboot", F)) /\ ToSet(On("fastboot", F)) = IF "fastboot" \in Options THEN ToSet(F) ELSE {}
      /\ Final(On("fastlogo", G)) /\ ToSet(On("fastlogo", G)) = IF "fastlogo" \in Options THEN ToSet(G) ELSE {}
      /\ Final(On("ab", H)) /\ ToSet(On("ab", H)) = IF "ab" \in Options THEN ToSet(H) ELSE {}
  BY <1>2, <1>3, FinalOn DEF G, H
<1>5. EmmcRelease = E \o P \o On("android", F) \o B \o On("genx", M) \o K
        \o On("runtime", L) \o On("fastboot", F) \o On("fastlogo", G) \o On("ab", H)
  BY <1>1 DEF E, G, H
<1>6. /\ Final(EmmcRelease)
      /\ ToSet(EmmcRelease) = ToSet(E) \cup ToSet(P) \cup ToSet(On("android", F)) \cup ToSet(B)
            \cup ToSet(On("genx", M)) \cup ToSet(K) \cup ToSet(On("runtime", L))
            \cup ToSet(On("fastboot", F)) \cup ToSet(On("fastlogo", G)) \cup ToSet(On("ab", H))
  BY <1>2, <1>3, <1>4, <1>5, FinalJoined DEF E
<1> QED BY <1>2, <1>3, <1>4, <1>6 DEF E, G, H, EmmcReleased

(* In f nothing is done to out/app after app was packed from it. *)
AppsFirst(f) == \A i, j \in DOMAIN f : i < j /\ f[i] = PackApp => f[j][1] # "app"

LEMMA AppsNone ==
    ASSUME NEW f, PackApp \notin ToSet(f)
    PROVE  AppsFirst(f)
BY InSet DEF AppsFirst

LEMMA AppsJoined ==
    ASSUME NEW f \in Seq(Cmds), NEW g \in Seq(Cmds), AppsFirst(f), AppsFirst(g),
           PackApp \notin ToSet(f) \/ \A x \in ToSet(g) : x[1] # "app"
    PROVE  AppsFirst(f \o g)
<1>1. /\ DOMAIN f = 1 .. Len(f) /\ DOMAIN g = 1 .. Len(g) /\ Len(f) \in Nat /\ Len(g) \in Nat
      /\ DOMAIN (f \o g) = 1 .. Len(f) + Len(g)
      /\ \A j \in 1 .. Len(f) : (f \o g)[j] = f[j]
      /\ \A j \in 1 .. Len(g) : (f \o g)[Len(f) + j] = g[j]
  BY Joined
<1> DEFINE h == f \o g
<1> HIDE DEF h
<1>2. ASSUME NEW i \in DOMAIN h, NEW j \in DOMAIN h, i < j, h[i] = PackApp
      PROVE  h[j][1] # "app"
  <2>1. CASE j <= Len(f)
    <3>1. i \in DOMAIN f /\ j \in DOMAIN f /\ h[i] = f[i] /\ h[j] = f[j]
      BY <1>1, <1>2, <2>1 DEF h
    <3> QED BY <1>2, <3>1 DEF AppsFirst
  <2>2. CASE i <= Len(f) /\ j > Len(f)
    <3>1. i \in DOMAIN f /\ j - Len(f) \in DOMAIN g /\ j = Len(f) + (j - Len(f))
      BY <1>1, <1>2, <2>2 DEF h
    <3>2. h[i] = f[i] /\ h[j] = g[j - Len(f)]
      BY <1>1, <3>1 DEF h
    <3> QED BY <1>2, <3>1, <3>2, InSet
  <2>3. CASE i > Len(f)
    <3>1. /\ i - Len(f) \in DOMAIN g /\ i = Len(f) + (i - Len(f))
          /\ j - Len(f) \in DOMAIN g /\ j = Len(f) + (j - Len(f))
          /\ i - Len(f) < j - Len(f)
      BY <1>1, <1>2, <2>3 DEF h
    <3>2. h[i] = g[i - Len(f)] /\ h[j] = g[j - Len(f)]
      BY <1>1, <3>1 DEF h
    <3> QED BY <1>2, <3>1, <3>2 DEF AppsFirst
  <2> QED BY <1>1, <1>2, <2>1, <2>2, <2>3 DEF h
<1> QED BY <1>2 DEF AppsFirst, h

LEMMA AppsFs == AppsFirst(FsSteps)
<1> DEFINE a == <<"app", "remove">>
           b == AppMove
           c == AppMkdir
           d == PackRootfs
           e == PackApp
           s == <<"pack", "system">>
<1>1. a # e /\ b # e /\ c # e /\ d # e /\ s # e
  BY DEF AppMove, AppMkdir, PackRootfs, PackApp
<1>2. FsSteps = IF "app" \in Options THEN <<a, b, c, d, e>> ELSE <<s>>
  BY DEF FsSteps, AppMove, AppMkdir, PackRootfs, PackApp
<1> HIDE DEF a, b, c, d, e, s
<1>3. ASSUME e = PackApp PROVE AppsFirst(<<a, b, c, d, e>>) /\ AppsFirst(<<s>>)
  BY <1>1, <1>3 DEF AppsFirst
<1> QED BY <1>2, <1>3 DEF e

(* nand/packaging.bashrc *)
NandPacked ==
    {TableCmd, <<"pack", "block0">>}
    \cup {"pack"} \X {"preboot", "tee", "tee_recovery", "bootloader", "linux_bootimgs"}
    \cup ToSet(FsSteps) \cup {<<"pack", "key">>}

LEMMA NandOrder ==
    /\ Upto(NandPack, 7) /\ ToSet(NandPack) = NandPacked /\ AppsFirst(NandPack)
    /\ Final(NandRelease) /\ ToSet(NandRelease) = {ListCmd, PartsCmd, UnifyCmd}
<1> DEFINE ps == <<"preboot", "tee", "tee_recovery", "bootloader", "linux_bootimgs">>
           P == Steps("pack", ps)
           Z == Steps("pack", <<"block0">>)
           K == Steps("pack", <<"key">>)
           T == <<TableCmd>>
<1>1. NandPack = T \o Z \o P \o FsSteps \o K
  BY DEF NandPack, TableCmd
<1>2. Upto(T, 0) /\ ToSet(T) = {TableCmd}
  BY FirstStage
<1>9. Piece(Z, 0, 1) /\ ToSet(Z) = {<<"pack", "block0">>}
  <2>1. "pack" \in Words /\ "block0" \in Words /\ Rank(<<"pack", "block0">>) = 1
        /\ 0 \in 0 .. 8 /\ 1 \in 0 .. 8 /\ 0 # 1
    BY Ranks, InWords DEF Payloads, Early
  <2> QED BY <2>1, PieceOfOne
<1>3. /\ Piece(P, 1, 7)
      /\ ToSet(P) = {"pack"} \X {"preboot", "tee", "tee_recovery", "bootloader", "linux_bootimgs"}
  <2>1. /\ "pack" \in Words /\ "preboot" \in Words /\ "tee" \in Words /\ "tee_recovery" \in Words
        /\ "bootloader" \in Words /\ "linux_bootimgs" \in Words
    BY InWords DEF Payloads
  <2>2. /\ ps \in Seq(Words) /\ DOMAIN ps = 1 .. 5
        /\ ToSet(ps) = {"preboot", "tee", "tee_recovery", "bootloader", "linux_bootimgs"}
    BY <2>1, ToSetOfQuintuple
  <2>3. /\ P \in Seq(Cmds) /\ ToSet(P) = {"pack"} \X ToSet(ps)
        /\ DOMAIN P = 1 .. 5 /\ \A i \in 1 .. 5 : P[i] = <<"pack", ps[i]>>
    <3> HIDE DEF ps
    <3>1. P \in Seq(Cmds) /\ ToSet(P) = {"pack"} \X ToSet(ps)
      BY <2>1, <2>2, ToSetOfSteps DEF ps
    <3> QED BY <2>2, <3>1 DEF Steps
  <2>4. /\ \A i \in 1 .. 4 : ps[i] \in Early
        /\ ps[5] = "linux_bootimgs"
    <3>1. \A i \in {1, 2, 3, 4} : ps[i] \in Early
      BY DEF Early
    <3> QED BY <3>1
  <2> HIDE DEF ps, P
  <2>5. (\A i \in 1 .. 4 : Rank(P[i]) = 1) /\ Rank(P[5]) = 7
    <3>1. ASSUME NEW i \in 1 .. 4 PROVE Rank(P[i]) = 1
      <4>1. P[i] = <<"pack", ps[i]>> /\ ps[i] \in Early
        BY <2>3, <2>4
      <4> QED BY <4>1, Ranks
    <3>2. P[5] = <<"pack", "linux_bootimgs">>
      BY <2>3, <2>4
    <3> QED BY <3>1, <3>2, RanksOf
  <2>6. Orderly(P)
    <3>1. ASSUME NEW i \in 1 .. 5, NEW j \in 1 .. 5, i < j PROVE Before(P[i], P[j])
      <4>1. i \in 1 .. 4 /\ (j \in 1 .. 4 \/ j = 5)
        BY <3>1
      <4>2. Rank(P[i]) = 1 /\ Rank(P[j]) \in {1, 7}
        BY <2>5, <4>1
      <4> QED BY <4>2 DEF Before, Flat
    <3> QED BY <2>3, <3>1 DEF Orderly
  <2>7. \A y \in ToSet(P) : Rank(y) \in {1, 7}
    <3>1. \A i \in 1 .. 5 : Rank(P[i]) \in {1, 7}
      BY <2>5
    <3> QED BY <2>3, <3>1 DEF ToSet
  <2> QED BY <2>2, <2>3, <2>6, <2>7 DEF Piece, Flat
<1>4. Piece(FsSteps, 7, 7)
  BY FsScript, PieceOfStage DEF Flat
<1>5. Piece(K, 7, 7) /\ ToSet(K) = {<<"pack", "key">>}
  <2>1. "pack" \in Words /\ "key" \in Words /\ Rank(<<"pack", "key">>) = 7
        /\ 7 \in 0 .. 8 /\ 7 \in 7 .. 8 /\ 7 \in Flat
    BY RanksOf, InWords DEF Payloads, Flat
  <2> QED BY <2>1, PieceOfOne
<1>6. /\ Upto(NandPack, 7) /\ AppsFirst(NandPack)
      /\ ToSet(NandPack) = ToSet(T) \cup ToSet(Z) \cup ToSet(P) \cup ToSet(FsSteps) \cup ToSet(K)
  <2> DEFINE f1 == T \o Z
             f2 == f1 \o P
             f3 == f2 \o FsSteps
  <2>0. /\ PackApp \notin ToSet(T) \cup ToSet(Z) \cup ToSet(P) \cup ToSet(K)
        /\ \A x \in ToSet(K) : x[1] # "app"
    BY <1>2, <1>3, <1>5, <1>9, Kind DEF PackApp
  <2> HIDE DEF T, Z, P, K
  <2>1. Upto(f1, 1) /\ ToSet(f1) = ToSet(T) \cup ToSet(Z)
    BY <1>2, <1>9, Continued
  <2> HIDE DEF f1
  <2>2. Upto(f2, 7) /\ ToSet(f2) = ToSet(f1) \cup ToSet(P)
    BY <1>3, <2>1, Continued
  <2> HIDE DEF f2
  <2>3. Upto(f3, 7) /\ ToSet(f3) = ToSet(f2) \cup ToSet(FsSteps)
    BY <1>4, <2>2, Continued
  <2>4. AppsFirst(f3)
    <3>1. AppsFirst(f2) /\ PackApp \notin ToSet(f2)
      BY <2>0, <2>1, <2>2, AppsNone
    <3> QED BY <2>2, <3>1, FsScript, AppsFs, AppsJoined DEF Upto
  <2> HIDE DEF f3
  <2>5. Upto(f3 \o K, 7) /\ ToSet(f3 \o K) = ToSet(f3) \cup ToSet(K)
    BY <1>5, <2>3, Continued
  <2>6. AppsFirst(f3 \o K)
    <3>1. K \in Seq(Cmds) /\ AppsFirst(K)
      BY <1>5, <2>0, AppsNone DEF Piece
    <3> QED BY <2>0, <2>3, <2>4, <3>1, AppsJoined DEF Upto
  <2>7. NandPack = f3 \o K
    BY <1>1 DEF f1, f2, f3
  <2> QED BY <2>1, <2>2, <2>3, <2>5, <2>6, <2>7
<1>7. ToSet(NandPack) = NandPacked
  <2> HIDE DEF T, Z, P, K
  <2> QED BY <1>2, <1>3, <1>5, <1>6, <1>9 DEF NandPacked
<1>8. Final(NandRelease) /\ ToSet(NandRelease) = {ListCmd, PartsCmd, UnifyCmd}
  <2>1. ListCmd \in Cmds /\ PartsCmd \in Cmds /\ UnifyCmd \in Cmds
    BY DEF ListCmd, PartsCmd, UnifyCmd, Cmds, Words
  <2>2. NandRelease = <<ListCmd, PartsCmd, UnifyCmd>>
    BY DEF NandRelease, ListCmd, PartsCmd, UnifyCmd
  <2>3. NandRelease \in Seq(Cmds) /\ ToSet(NandRelease) = {ListCmd, PartsCmd, UnifyCmd}
    BY <2>1, <2>2, ToSetOfTriple
  <2> QED BY <2>3, Ranks DEF Final
<1> QED BY <1>6, <1>7, <1>8

LEMMA Whole ==
    /\ Full \in Seq(Cmds) /\ Orderly(Full)
    /\ Boot = "emmc" => ToSet(Full) = EmmcPacked \cup EmmcReleased
    /\ Boot # "emmc" => ToSet(Full) = NandPacked \cup {ListCmd, PartsCmd, UnifyCmd}
    /\ config \in Configs => AppsFirst(Full)
<1>1. ASSUME NEW f, NEW g, Upto(f, 7), Final(g)
      PROVE  f \o g \in Seq(Cmds) /\ Orderly(f \o g) /\ ToSet(f \o g) = ToSet(f) \cup ToSet(g)
  <2>1. Piece(g, 7, 8)
    BY <1>1, PieceOfStage DEF Final, Flat
  <2> QED BY <1>1, <2>1, Continued DEF Upto
<1>2. CASE Boot = "emmc"
  <2>1. Full = EmmcPack \o EmmcRelease
    BY <1>2 DEF Full
  <2>2. ToSet(Full) = EmmcPacked \cup EmmcReleased
    BY <1>1, <2>1, EmmcPackOrder, EmmcReleaseOrder
  <2>3. ASSUME config \in Configs PROVE AppsFirst(Full)
    <3>1. ToSet(FsSteps) = {<<"pack", "system">>}
      BY <1>2, <2>3, FsScript, ConfigAssumption DEF Boot, Options
    <3>2. PackApp \notin EmmcPacked /\ PackApp \notin EmmcReleased
      <4>1. PackApp \notin EmmcPacked
        BY <3>1, Kind DEF EmmcPacked, PackApp
      <4>2. PackApp \notin EmmcReleased
        BY Kind DEF EmmcReleased, PackApp
      <4> QED BY <4>1, <4>2
    <3> QED BY <2>2, <3>2, AppsNone
  <2> QED BY <1>1, <1>2, <2>1, <2>3, EmmcPackOrder, EmmcReleaseOrder
<1>3. CASE Boot # "emmc"
  <2>1. Full = NandPack \o NandRelease
    BY <1>3 DEF Full
  <2>2. AppsFirst(Full)
    <3>1. \A x \in {ListCmd, PartsCmd, UnifyCmd} : x[1] # "app" /\ x # PackApp
      BY Kind DEF PackApp
    <3>2. NandRelease \in Seq(Cmds) /\ AppsFirst(NandRelease)
      BY <3>1, NandOrder, AppsNone DEF Final
    <3> QED BY <2>1, <3>1, <3>2, NandOrder, AppsJoined DEF Upto
  <2> QED BY <1>1, <1>3, <2>1, <2>2, NandOrder
<1> QED BY <1>2, <1>3

(* What a script holds, and what it holds only together *)
LEMMA Script ==
    ASSUME config \in Configs
    PROVE  /\ TableCmd \in ToSet(Full) /\ ListCmd \in ToSet(Full)
           /\ <<"pack", "ta">> \in ToSet(Full) <=> "preload_ta" \in Options
           /\ <<"pack", "bootloader">> \in ToSet(Full)
           /\ <<"logo", "move">> \in ToSet(Full) => <<"logo", "unzip">> \in ToSet(Full)
           /\ <<"logo", "sign">> \in ToSet(Full) => <<"logo", "move">> \in ToSet(Full)
           /\ <<"pack", "fastlogo">> \in ToSet(Full) =>
                    "genx" \in Options /\ <<"logo", "sign">> \in ToSet(Full)
           /\ PartsCmd \in ToSet(Full) <=> Boot # "emmc"
           /\ \A p : <<"copy", p>> \in ToSet(Full) => Boot = "emmc"
           /\ \A p : <<"release", p>> \in ToSet(Full) => Boot = "emmc"
           /\ Boot = "emmc" => \A p \in Payloads \ {"fastlogo"} :
                    <<"pack", p>> \in ToSet(Full) => <<"release", p>> \in ToSet(Full)
           /\ Boot = "emmc" /\ "genx" \in Options => <<"pack", "fastlogo">> \in ToSet(Full)
           /\ Boot = "emmc" /\ "fastlogo" \in Options =>
                    LogoCopy \in ToSet(Full) /\ LogoRelease \in ToSet(Full)
           /\ LogoRelease \in ToSet(Full) => LogoCopy \in ToSet(Full)
           /\ Boot = "emmc" /\ "ab" \in Options => <<"copy", "misc">> \in ToSet(Full)
<1> DEFINE H == ToSet(FsSteps)
<1>1. /\ "preload_ta" \in Options => Boot = "emmc"
      /\ "app" \in Options => Boot # "emmc"
  BY ConfigAssumption DEF Boot, Options
<1>2. H = IF "app" \in Options
          THEN {<<"app", "remove">>, <<"app", "move">>, <<"app", "mkdir">>,
                <<"pack", "rootfs">>, <<"pack", "app">>}
          ELSE {<<"pack", "system">>}
  BY FsScript
<1>3. CASE Boot = "emmc"
  <2> DEFINE F == ToSet(Full)
  <2>1. F = EmmcPacked \cup EmmcReleased
    BY <1>3, Whole
  <2>2. H = {<<"pack", "system">>}
    BY <1>1, <1>2, <1>3
  <2> HIDE DEF F, H
  <2>3. TableCmd \in F /\ ListCmd \in F /\ <<"pack", "bootloader">> \in F
    BY <2>1 DEF EmmcPacked, EmmcReleased
  <2>4. <<"pack", "ta">> \in F <=> "preload_ta" \in Options
    BY <2>1, <2>2, Kind DEF EmmcPacked, EmmcReleased, H
  <2>5. <<"logo", "unzip">> \in F <=> "genx" \in Options
    BY <2>1, <2>2, Kind DEF EmmcPacked, EmmcReleased, H
  <2>6. <<"logo", "move">> \in F <=> "genx" \in Options
    BY <2>1, <2>2, Kind DEF EmmcPacked, EmmcReleased, H
  <2>7. <<"logo", "sign">> \in F <=> "genx" \in Options
    BY <2>1, <2>2, Kind DEF EmmcPacked, EmmcReleased, H
  <2>8. <<"pack", "fastlogo">> \in F => "genx" \in Options
    BY <2>1, <2>2, Kind DEF EmmcPacked, EmmcReleased, H
  <2>9. PartsCmd \notin F
    BY <2>1, <2>2, Kind DEF EmmcPacked, EmmcReleased, H
  <2>10. /\ "fastlogo" \in Options => LogoCopy \in F /\ LogoRelease \in F
         /\ "ab" \in Options => <<"copy", "misc">> \in F
         /\ "genx" \in Options => <<"pack", "fastlogo">> \in F
    BY <2>1 DEF EmmcPacked, EmmcReleased, LogoCopy, LogoRelease
  <2>12. LogoRelease \in F => "fastlogo" \in Options
    BY <2>1, <2>2, Kind DEF EmmcPacked, EmmcReleased, H, LogoRelease
  <2>11. ASSUME NEW p \in Payloads \ {"fastlogo"}, <<"pack", p>> \in F
         PROVE  <<"release", p>> \in F
    <3>1. /\ p = "firmware" => "genx" \in Options
          /\ p = "fastboot" => "fastboot" \in Options
          /\ p \notin {"block0", "rootfs", "app"}
          /\ p \in {"linux_bootimgs", "system"} => "runtime" \in Options
      BY <2>1, <2>2, <2>11, Kind DEF EmmcPacked, EmmcReleased, H
    <3>2. \/ p \in {"preboot", "tee", "tee_recovery"} \/ p = "bootloader" \/ p = "firmware"
          \/ p = "key" \/ p = "fastboot" \/ p \in {"linux_bootimgs", "system"}
      BY <2>11, <3>1 DEF Payloads
    <3> QED BY <2>1, <3>1, <3>2 DEF EmmcReleased
  <2> QED BY <1>3, <2>3, <2>4, <2>5, <2>6, <2>7, <2>8, <2>9, <2>10, <2>11, <2>12 DEF F
<1>4. CASE Boot # "emmc"
  <2> DEFINE F == ToSet(Full)
  <2>1. F = NandPacked \cup {ListCmd, PartsCmd, UnifyCmd}
    BY <1>4, Whole
  <2> HIDE DEF F, H
  <2>3. TableCmd \in F /\ ListCmd \in F /\ PartsCmd \in F /\ <<"pack", "bootloader">> \in F
    BY <2>1 DEF NandPacked
  <2>4. <<"pack", "ta">> \notin F /\ <<"pack", "fastlogo">> \notin F
    BY <1>2, <2>1, Kind DEF NandPacked, H
  <2>5. \A p : <<"logo", p>> \notin F /\ <<"copy", p>> \notin F /\ <<"release", p>> \notin F
    BY <1>2, <2>1, Kind DEF NandPacked, H
  <2> QED BY <1>1, <1>4, <2>3, <2>4, <2>5 DEF F, LogoRelease
<1> QED BY <1>3, <1>4

-----------------------------------------------------------------------------
(* The commands that belong together *)

(* In f, a is always followed at once by b; b always comes at once after a. *)
Follows(f, a, b) == \A i \in DOMAIN f : f[i] = a => i + 1 \in DOMAIN f /\ f[i + 1] = b
Behind(f, a, b) == \A i \in DOMAIN f : f[i] = b /\ i > 1 => f[i - 1] = a

(* Of any script *)
Chain(f) ==
    /\ Follows(f, LogoUnzip, LogoMove)
    /\ Follows(f, AppMove, AppMkdir)
    /\ \A x \in ToSet(f) : x[1] = "logo" => "genx" \in Options

(* Of a full one *)
Seconds == {AppMkdir, PackRootfs, PackApp, LogoRelease}
Order(f) ==
    /\ Behind(f, AppMove, AppMkdir)
    /\ Behind(f, AppMkdir, PackRootfs)
    /\ Behind(f, PackRootfs, PackApp)
    /\ Behind(f, LogoCopy, LogoRelease)

Neat(f) == f \in Seq(Cmds) /\ Chain(f) /\ Order(f) /\ (f # <<>> => f[1] \notin Seconds)

LEMMA FollowsJoined ==
    ASSUME NEW f \in Seq(Cmds), NEW g \in Seq(Cmds)
    PROVE  \A a, b : Follows(f, a, b) /\ Follows(g, a, b) => Follows(f \o g, a, b)
<1> SUFFICES ASSUME NEW a, NEW b, Follows(f, a, b), Follows(g, a, b)
             PROVE  Follows(f \o g, a, b)
  OBVIOUS
<1>1. /\ DOMAIN f = 1 .. Len(f) /\ DOMAIN g = 1 .. Len(g) /\ Len(f) \in Nat /\ Len(g) \in Nat
      /\ DOMAIN (f \o g) = 1 .. Len(f) + Len(g)
      /\ \A j \in 1 .. Len(f) : (f \o g)[j] = f[j]
      /\ \A j \in 1 .. Len(g) : (f \o g)[Len(f) + j] = g[j]
  BY Joined
<1> DEFINE h == f \o g
<1> HIDE DEF h
<1>2. ASSUME NEW i \in DOMAIN h, h[i] = a
      PROVE  i + 1 \in DOMAIN h /\ h[i + 1] = b
  <2>1. CASE i <= Len(f)
    <3>1. i \in DOMAIN f /\ f[i] = a
      BY <1>1, <1>2, <2>1 DEF h
    <3>2. i + 1 \in DOMAIN f /\ f[i + 1] = b
      BY <3>1 DEF Follows
    <3> QED BY <1>1, <3>2 DEF h
  <2>2. CASE i > Len(f)
    <3>1. PICK j \in 1 .. Len(g) : i = Len(f) + j
      <4>1. i - Len(f) \in 1 .. Len(g) /\ i = Len(f) + (i - Len(f))
        BY <1>1, <1>2, <2>2 DEF h
      <4> QED BY <4>1
    <3>2. j \in DOMAIN g /\ g[j] = a
      BY <1>1, <1>2, <3>1 DEF h
    <3>3. j + 1 \in 1 .. Len(g) /\ g[j + 1] = b
      BY <1>1, <3>2 DEF Follows
    <3>4. Len(f) + (j + 1) = i + 1 /\ i + 1 \in 1 .. Len(f) + Len(g)
      <4> DEFINE n == Len(f)
                 m == Len(g)
      <4>1. n \in Nat /\ m \in Nat /\ j \in 1 .. m /\ i = n + j /\ j + 1 \in 1 .. m
        BY <1>1, <3>1, <3>3
      <4> HIDE DEF n, m
      <4>2. n + (j + 1) = i + 1 /\ i + 1 \in 1 .. n + m
        BY <4>1
      <4> QED BY <4>2 DEF n, m
    <3> QED BY <1>1, <3>3, <3>4 DEF h
  <2> QED BY <1>1, <1>2, <2>1, <2>2 DEF h
<1> QED BY <1>2 DEF Follows, h

LEMMA BehindJoined ==
    ASSUME NEW f \in Seq(Cmds), NEW g \in Seq(Cmds)
    PROVE  \A a, b : Behind(f, a, b) /\ Behind(g, a, b) /\ (g # <<>> => g[1] # b)
                        => Behind(f \o g, a, b)
<1> SUFFICES ASSUME NEW a, NEW b, Behind(f, a, b), Behind(g, a, b), g # <<>> => g[1] # b
             PROVE  Behind(f \o g, a, b)
  OBVIOUS
<1>1. /\ DOMAIN f = 1 .. Len(f) /\ DOMAIN g = 1 .. Len(g) /\ Len(f) \in Nat /\ Len(g) \in Nat
      /\ DOMAIN (f \o g) = 1 .. Len(f) + Len(g)
      /\ \A j \in 1 .. Len(f) : (f \o g)[j] = f[j]
      /\ \A j \in 1 .. Len(g) : (f \o g)[Len(f) + j] = g[j]
  BY Joined
<1> DEFINE h == f \o g
<1> HIDE DEF h
<1>2. ASSUME NEW i \in DOMAIN h, h[i] = b, i > 1
      PROVE  h[i - 1] = a
  <2>1. CASE i <= Len(f)
    <3>1. i \in DOMAIN f /\ f[i] = b /\ i - 1 \in 1 .. Len(f)
      BY <1>1, <1>2, <2>1 DEF h
    <3>2. f[i - 1] = a
      BY <1>2, <3>1 DEF Behind
    <3> QED BY <1>1, <3>1, <3>2 DEF h
  <2>2. CASE i > Len(f)
    <3>1. PICK j \in 1 .. Len(g) : i = Len(f) + j
      <4>1. i - Len(f) \in 1 .. Len(g) /\ i = Len(f) + (i - Len(f))
        BY <1>1, <1>2, <2>2 DEF h
      <4> QED BY <4>1
    <3>2. j \in DOMAIN g /\ g[j] = b
      BY <1>1, <1>2, <3>1 DEF h
    <3>3. j # 1
      <4>1. g # <<>>
        BY <1>1, <3>1
      <4> QED BY <3>2, <4>1
    <3>4. j - 1 \in 1 .. Len(g) /\ g[j - 1] = a
      BY <1>1, <3>1, <3>2, <3>3 DEF Behind
    <3>5. Len(f) + (j - 1) = i - 1
      BY <1>1, <3>1
    <3> QED BY <1>1, <3>4, <3>5 DEF h
  <2> QED BY <1>1, <1>2, <2>1, <2>2 DEF h
<1> QED BY <1>2 DEF Behind, h

LEMMA ChainJoined ==
    ASSUME NEW f \in Seq(Cmds), NEW g \in Seq(Cmds), Chain(f), Chain(g)
    PROVE  f \o g \in Seq(Cmds) /\ Chain(f \o g)
<1>1. f \o g \in Seq(Cmds) /\ ToSet(f \o g) = ToSet(f) \cup ToSet(g)
  BY ToSetOfJoined
<1> QED BY <1>1, FollowsJoined DEF Chain

LEMMA NeatJoined ==
    ASSUME NEW f, NEW g, Neat(f), Neat(g)
    PROVE  Neat(f \o g)
<1>1. f \in Seq(Cmds) /\ g \in Seq(Cmds)
  BY DEF Neat
<1>2. f \o g \in Seq(Cmds) /\ Chain(f \o g)
  BY <1>1, ChainJoined DEF Neat
<1>3. Order(f \o g)
  BY <1>1, BehindJoined DEF Neat, Order, Seconds
<1>4. f \o g # <<>> => (f \o g)[1] \notin Seconds
  <2>1. CASE f = <<>>
    BY <1>1, <2>1 DEF Neat
  <2>2. CASE f # <<>>
    <3>1. 1 \in 1 .. Len(f)
      BY <1>1, <2>2
    <3>2. (f \o g)[1] = f[1]
      BY <1>1, <3>1, Joined
    <3> QED BY <2>2, <3>2 DEF Neat
  <2> QED BY <2>1, <2>2
<1> QED BY <1>2, <1>3, <1>4 DEF Neat

LEMMA NeatEmpty == Neat(<<>>)
<1>1. <<>> \in Seq(Cmds) /\ ToSet(<<>>) = {}
  BY ToSetOfEmpty
<1> QED BY <1>1 DEF Neat, Chain, Order, Follows, Behind

LEMMA NeatOn == \A option, f : Neat(f) => Neat(On(option, f))
BY NeatEmpty DEF On

(* A script that has none of them *)
LEMMA NeatPlain ==
    ASSUME NEW f \in Seq(Cmds),
           \A x \in ToSet(f) : x[1] # "logo" /\ x # AppMove /\ x \notin Seconds
    PROVE  Neat(f)
<1>1. \A i \in DOMAIN f : f[i][1] # "logo" /\ f[i] # AppMove /\ f[i] \notin Seconds
  BY InSet
<1>2. LogoUnzip[1] = "logo"
  BY DEF LogoUnzip
<1>3. Chain(f)
  BY <1>1, <1>2 DEF Chain, Follows
<1>4. Order(f)
  BY <1>1 DEF Order, Behind, Seconds
<1>5. f # <<>> => 1 \in DOMAIN f
  OBVIOUS
<1> QED BY <1>1, <1>3, <1>4, <1>5 DEF Neat

LEMMA NeatLogo == "genx" \in Options => Neat(LogoSteps)
<1> SUFFICES ASSUME "genx" \in Options PROVE Neat(LogoSteps)
  OBVIOUS
<1> DEFINE a == LogoUnzip
           b == LogoMove
           c == <<"logo", "sign">>
           d == <<"pack", "fastlogo">>
<1>1. a \in Cmds /\ b \in Cmds /\ c \in Cmds /\ d \in Cmds
  BY DEF Cmds, Words, Payloads, LogoUnzip, LogoMove
<1>2. LogoSteps = <<a, b, c, d>>
  BY DEF LogoSteps, LogoUnzip, LogoMove
<1>3. /\ b # a /\ c # a /\ d # a
      /\ \A x \in {a, b, c, d} : x # AppMove /\ x \notin Seconds
  BY DEF Seconds, LogoUnzip, LogoMove, AppMove, AppMkdir, PackRootfs, PackApp, LogoRelease
<1> HIDE DEF a, b, c, d
<1>4. <<a, b, c, d>> \in Seq(Cmds) /\ ToSet(<<a, b, c, d>>) = {a, b, c, d}
      /\ DOMAIN <<a, b, c, d>> = 1 .. 4
  BY <1>1, ToSetOfQuadruple
<1>5. Follows(<<a, b, c, d>>, a, b)
  BY <1>3 DEF Follows
<1>6. Follows(<<a, b, c, d>>, AppMove, AppMkdir)
  BY <1>3 DEF Follows
<1>7. Chain(<<a, b, c, d>>)
  BY <1>5, <1>6 DEF Chain, a, b
<1>8. \A i \in 1 .. 4 : <<a, b, c, d>>[i] \notin Seconds
  BY <1>3
<1>9. Order(<<a, b, c, d>>)
  <2> DEFINE h == <<a, b, c, d>>
  <2>1. \A i \in DOMAIN h : h[i] \notin Seconds
    BY <1>4, <1>8
  <2> HIDE DEF h
  <2>2. Order(h)
    BY <2>1 DEF Order, Behind, Seconds
  <2> QED BY <2>2 DEF h
<1>10. <<a, b, c, d>>[1] \notin Seconds
  BY <1>8
<1> QED BY <1>2, <1>4, <1>7, <1>9, <1>10 DEF Neat

LEMMA NeatFs == Neat(FsSteps)
<1>1. CASE "app" \in Options
  <2> DEFINE z == <<"app", "remove">>
             a == AppMove
             b == AppMkdir
             c == PackRootfs
             d == PackApp
  <2>1. z \in Cmds /\ a \in Cmds /\ b \in Cmds /\ c \in Cmds /\ d \in Cmds
    BY DEF Cmds, Words, Payloads, AppMove, AppMkdir, PackRootfs, PackApp
  <2>2. FsSteps = <<z, a, b, c, d>>
    BY <1>1 DEF FsSteps, AppMove, AppMkdir, PackRootfs, PackApp
  <2>3. /\ \A x \in {z, a, b, c, d} : x[1] # "logo"
        /\ z # a /\ b # a /\ c # a /\ d # a /\ z # b /\ z # c /\ z # d
        /\ b # c /\ b # d /\ c # d /\ z # LogoRelease /\ a # LogoRelease /\ b # LogoRelease
        /\ c # LogoRelease /\ d # LogoRelease
    BY DEF AppMove, AppMkdir, PackRootfs, PackApp, LogoRelease
  <2>4. LogoUnzip[1] = "logo"
    BY DEF LogoUnzip
  <2> DEFINE h == <<z, a, b, c, d>>
  <2>5. /\ h \in Seq(Cmds) /\ ToSet(h) = {z, a, b, c, d} /\ DOMAIN h = 1 .. 5
        /\ h[1] = z /\ h[2] = a /\ h[3] = b /\ h[4] = c /\ h[5] = d
    <3> HIDE DEF z, a, b, c, d
    <3> QED BY <2>1, ToSetOfQuintuple
  <2> HIDE DEF h, z, a, b, c, d
  <2>6. Follows(h, a, b) /\ Behind(h, a, b) /\ Behind(h, b, c) /\ Behind(h, c, d)
    <3>1. \A i \in 1 .. 5 : i = 1 \/ i = 2 \/ i = 3 \/ i = 4 \/ i = 5
      OBVIOUS
    <3>2. Follows(h, a, b)
      BY <2>3, <2>5, <3>1 DEF Follows
    <3>3. Behind(h, a, b)
      BY <2>3, <2>5, <3>1 DEF Behind
    <3>4. Behind(h, b, c)
      BY <2>3, <2>5, <3>1 DEF Behind
    <3>5. Behind(h, c, d)
      BY <2>3, <2>5, <3>1 DEF Behind
    <3> QED BY <3>2, <3>3, <3>4, <3>5
  <2>7. \A i \in DOMAIN h : h[i] # LogoUnzip /\ h[i] # LogoRelease
    <3>1. \A i \in DOMAIN h : h[i] \in {z, a, b, c, d}
      BY <2>5, InSet
    <3> QED BY <2>3, <2>4, <3>1
  <2>8. Follows(h, LogoUnzip, LogoMove) /\ Behind(h, LogoCopy, LogoRelease)
    BY <2>7 DEF Follows, Behind
  <2>9. Chain(h) /\ Order(h)
    BY <2>3, <2>5, <2>6, <2>8 DEF Chain, Order, a, b, c, d
  <2>10. h[1] \notin Seconds
    BY <2>3, <2>5 DEF Seconds, b, c, d
  <2> QED BY <2>2, <2>5, <2>9, <2>10 DEF Neat, h
<1>2. CASE "app" \notin Options
  <2>1. FsSteps \in Seq(Cmds) /\ ToSet(FsSteps) = {<<"pack", "system">>}
    BY <1>2, FsScript
  <2>2. \A x \in ToSet(FsSteps) : x[1] # "logo" /\ x # AppMove /\ x \notin Seconds
    BY <2>1 DEF AppMove, Seconds, AppMkdir, PackRootfs, PackApp, LogoRelease
  <2> QED BY <2>1, <2>2, NeatPlain
<1> QED BY <1>1, <1>2

LEMMA NeatSteps ==
    \A ps \in Seq(Words \ {"rootfs", "app"}) : Neat(Steps("pack", ps))
<1> SUFFICES ASSUME NEW ps \in Seq(Words \ {"rootfs", "app"}) PROVE Neat(Steps("pack", ps))
  OBVIOUS
<1>1. ps \in Seq(Words) /\ "pack" \in Words
  BY InWords
<1>2. ToSet(ps) \subseteq Words \ {"rootfs", "app"}
  BY DEF ToSet
<1>3. /\ Steps("pack", ps) \in Seq(Cmds)
      /\ ToSet(Steps("pack", ps)) = {"pack"} \X ToSet(ps)
  BY <1>1, ToSetOfSteps
<1>4. ASSUME NEW x \in {"pack"} \X ToSet(ps)
      PROVE  x[1] # "logo" /\ x # AppMove /\ x \notin Seconds
  <2>1. PICK p \in ToSet(ps) : x = <<"pack", p>>
    BY <1>4, Pairs
  <2>2. p # "rootfs" /\ p # "app"
    BY <1>2
  <2> QED BY <2>1, <2>2 DEF AppMove, Seconds, AppMkdir, PackRootfs, PackApp, LogoRelease
<1> QED BY <1>3, <1>4, NeatPlain

LEMMA NeatReleases ==
    \A ps \in Seq(Words \ {"fastlogo"}) : Neat(Steps("release", ps))
<1> SUFFICES ASSUME NEW ps \in Seq(Words \ {"fastlogo"}) PROVE Neat(Steps("release", ps))
  OBVIOUS
<1>1. ps \in Seq(Words) /\ "release" \in Words
  BY InWords
<1>2. ToSet(ps) \subseteq Words \ {"fastlogo"}
  BY DEF ToSet
<1>3. /\ Steps("release", ps) \in Seq(Cmds)
      /\ ToSet(Steps("release", ps)) = {"release"} \X ToSet(ps)
  BY <1>1, ToSetOfSteps
<1>4. ASSUME NEW x \in {"release"} \X ToSet(ps)
      PROVE  x[1] # "logo" /\ x # AppMove /\ x \notin Seconds
  <2>1. PICK p \in ToSet(ps) : x = <<"release", p>>
    BY <1>4, Pairs
  <2>2. p # "fastlogo"
    BY <1>2
  <2> QED BY <2>1, <2>2 DEF AppMove, Seconds, AppMkdir, PackRootfs, PackApp, LogoRelease
<1> QED BY <1>3, <1>4, NeatPlain

(* A command without an argument *)
LEMMA NeatBare ==
    \A x \in {TableCmd, MapCmd, ListCmd, PartsCmd, UnifyCmd} : Neat(<<x>>)
<1>1. ASSUME NEW x \in {TableCmd, MapCmd, ListCmd, PartsCmd, UnifyCmd}
      PROVE  Neat(<<x>>)
  <2>1. x \in Cmds
    <3>1. TableCmd \in Cmds /\ MapCmd \in Cmds
      BY DEF Cmds, Words, TableCmd, MapCmd
    <3>2. ListCmd \in Cmds /\ PartsCmd \in Cmds
      BY DEF Cmds, Words, ListCmd, PartsCmd
    <3>3. UnifyCmd \in Cmds
      BY DEF Cmds, Words, UnifyCmd
    <3> QED BY <3>1, <3>2, <3>3
  <2>2. <<x>> \in Seq(Cmds) /\ ToSet(<<x>>) = {x}
    BY <2>1, ToSetOfSingle
  <2>3. x[1] \in {"table", "map", "list", "parts", "unify"}
    BY Kind
  <2>4. AppMove[1] = "app" /\ \A y \in Seconds : y[1] \in {"app", "pack", "release"}
    BY DEF AppMove, Seconds, AppMkdir, PackRootfs, PackApp, LogoRelease
  <2>5. x[1] # "logo" /\ x # AppMove /\ x \notin Seconds
    BY <2>3, <2>4
  <2> QED BY <2>2, <2>5, NeatPlain
<1> QED BY <1>1

LEMMA NeatCopies == Neat(<<LogoCopy, LogoRelease>>) /\ Neat(<<<<"copy", "misc">>>>)
<1> DEFINE a == LogoCopy
           b == LogoRelease
           c == <<"copy", "misc">>
<1>1. a \in Cmds /\ b \in Cmds /\ c \in Cmds
  BY InWords DEF Cmds, Payloads, LogoCopy, LogoRelease
<1>2. /\ \A x \in {a, b, c} : x[1] # "logo" /\ x \notin {AppMove, AppMkdir, PackRootfs, PackApp}
      /\ a # b /\ c # b
  BY DEF LogoCopy, LogoRelease, AppMove, AppMkdir, PackRootfs, PackApp
<1>3. LogoUnzip[1] = "logo"
  BY DEF LogoUnzip
<1> DEFINE h == <<a, b>>
<1>4. /\ h \in Seq(Cmds) /\ ToSet(h) = {a, b} /\ DOMAIN h = 1 .. 2 /\ h[1] = a /\ h[2] = b
      /\ <<c>> \in Seq(Cmds) /\ ToSet(<<c>>) = {c}
  <2> HIDE DEF a, b, c
  <2> QED BY <1>1, ToSetOfPair, ToSetOfSingle
<1> HIDE DEF a, b, c, h
<1>5. Neat(<<c>>)
  BY <1>2, <1>4, NeatPlain DEF Seconds, b
<1>6. \A i \in 1 .. 2 : i = 1 \/ i = 2
  OBVIOUS
<1>7. Behind(h, a, b)
  BY <1>2, <1>4, <1>6 DEF Behind
<1>8. \A i \in DOMAIN h : h[i] # LogoUnzip /\ h[i] \notin {AppMove, AppMkdir, PackRootfs, PackApp}
  <2>1. \A i \in DOMAIN h : h[i] \in {a, b}
    BY <1>4, InSet
  <2> QED BY <1>2, <1>3, <2>1
<1>9. Chain(h)
  BY <1>2, <1>4, <1>8 DEF Chain, Follows
<1>10. Order(h)
  BY <1>7, <1>8 DEF Order, Behind, a, b
<1>11. h[1] \notin Seconds
  BY <1>2, <1>4 DEF Seconds, b
<1> QED BY <1>4, <1>5, <1>9, <1>10, <1>11 DEF Neat, h, a, b, c

LEMMA Pieces == \A a, b : <<a, b>> = <<a>> \o <<b>>
<1> SUFFICES ASSUME NEW a, NEW b PROVE <<a, b>> = <<a>> \o <<b>>
  OBVIOUS
<1> DEFINE g == <<a>> \o <<b>>
<1>1. <<a>> \in Seq({a, b}) /\ <<b>> \in Seq({a, b})
  OBVIOUS
<1>2. Len(g) = 2 /\ g \in Seq({a, b}) /\ g[1] = a /\ g[2] = b
  BY <1>1
<1> HIDE DEF g
<1>3. g = [i \in 1 .. 2 |-> g[i]]
  BY <1>2
<1>4. <<a, b>> = [i \in 1 .. 2 |-> <<a, b>>[i]]
  OBVIOUS
<1>5. \A i \in 1 .. 2 : i = 1 \/ i = 2
  OBVIOUS
<1>6. \A i \in 1 .. 2 : g[i] = <<a, b>>[i]
  BY <1>2, <1>5
<1>7. <<a, b>> = g
  BY <1>3, <1>4, <1>6
<1> QED BY <1>7 DEF g

LEMMA PiecesOfThree == \A a, b, c : <<a, b, c>> = <<a>> \o <<b>> \o <<c>>
<1> SUFFICES ASSUME NEW a, NEW b, NEW c PROVE <<a, b, c>> = <<a>> \o <<b>> \o <<c>>
  OBVIOUS
<1> DEFINE g == <<a, b>> \o <<c>>
<1>1. <<a, b>> \in Seq({a, b, c}) /\ <<c>> \in Seq({a, b, c})
  OBVIOUS
<1>2. Len(g) = 3 /\ g \in Seq({a, b, c}) /\ g[1] = a /\ g[2] = b /\ g[3] = c
  BY <1>1
<1> HIDE DEF g
<1>3. g = [i \in 1 .. 3 |-> g[i]]
  BY <1>2
<1>4. <<a, b, c>> = [i \in 1 .. 3 |-> <<a, b, c>>[i]]
  OBVIOUS
<1>5. \A i \in 1 .. 3 : i = 1 \/ i = 2 \/ i = 3
  OBVIOUS
<1>6. \A i \in 1 .. 3 : g[i] = <<a, b, c>>[i]
  BY <1>2, <1>5
<1>7. <<a, b, c>> = g
  BY <1>3, <1>4, <1>6
<1>8. <<a, b>> = <<a>> \o <<b>>
  BY Pieces
<1> QED BY <1>7, <1>8 DEF g

LEMMA NeatWhole == Neat(Full)
<1> DEFINE W == Words \ {"rootfs", "app"}
           V == Words \ {"fastlogo"}
<1>1. /\ \A p \in {"preboot", "tee", "tee_recovery", "bootloader", "firmware", "key", "fastboot",
                   "linux_bootimgs", "system", "ta", "block0"} : p \in W /\ p \in V
  BY InWords DEF Payloads
<1> HIDE DEF W, V
<1>2. CASE Boot = "emmc"
  <2>1. Neat(<<TableCmd, MapCmd>>)
    <3>1. Neat(<<TableCmd>>) /\ Neat(<<MapCmd>>)
      BY NeatBare
    <3>2. <<TableCmd, MapCmd>> = <<TableCmd>> \o <<MapCmd>>
      BY Pieces
    <3> QED BY <3>1, <3>2, NeatJoined
  <2> DEFINE P == Steps("pack", <<"preboot", "tee", "tee_recovery", "bootloader">>)
             F == Steps("pack", <<"firmware">>)
             A == Steps("pack", <<"ta">>)
             K == Steps("pack", <<"key">>)
             B == Steps("pack", <<"fastboot">>)
             L == Steps("pack", <<"linux_bootimgs">>)
             T == <<TableCmd, MapCmd>>
  <2>2. Neat(P) /\ Neat(F) /\ Neat(A) /\ Neat(K) /\ Neat(B) /\ Neat(L) /\ Neat(T)
    <3>1. /\ <<"preboot", "tee", "tee_recovery", "bootloader">> \in Seq(W)
          /\ <<"firmware">> \in Seq(W) /\ <<"ta">> \in Seq(W) /\ <<"key">> \in Seq(W)
          /\ <<"fastboot">> \in Seq(W) /\ <<"linux_bootimgs">> \in Seq(W)
      BY <1>1
    <3>2. \A ps \in Seq(W) : Neat(Steps("pack", ps))
      BY NeatSteps DEF W
    <3> QED BY <2>1, <3>1, <3>2
  <2>3. Neat(On("genx", LogoSteps))
    BY NeatLogo, NeatEmpty DEF On
  <2>4. EmmcPack = T \o P \o On("genx", F) \o On("preload_ta", A) \o On("genx", LogoSteps) \o K
                   \o On("fastboot", B) \o On("runtime", L \o FsSteps)
    BY DEF EmmcPack, TableCmd, MapCmd
  <2> HIDE DEF P, F, A, K, B, L, T
  <2>5. /\ Neat(On("genx", F)) /\ Neat(On("preload_ta", A)) /\ Neat(On("fastboot", B))
        /\ Neat(On("runtime", L \o FsSteps))
    BY <2>2, NeatFs, NeatJoined, NeatOn
  <2>6. Neat(EmmcPack)
    BY <2>2, <2>3, <2>4, <2>5, NeatJoined
  <2> DEFINE rP == Steps("release", <<"preboot", "tee", "tee_recovery">>)
             rF == Steps("release", <<"fastboot">>)
             rB == Steps("release", <<"bootloader">>)
             rM == Steps("release", <<"firmware">>)
             rK == Steps("release", <<"key">>)
             rL == Steps("release", <<"linux_bootimgs", "system">>)
             E == <<ListCmd>>
             G == <<LogoCopy, LogoRelease>>
             H == <<<<"copy", "misc">>>>
  <2>7. /\ Neat(rP) /\ Neat(rF) /\ Neat(rB) /\ Neat(rM) /\ Neat(rK) /\ Neat(rL)
        /\ Neat(E) /\ Neat(G) /\ Neat(H)
    <3>1. /\ <<"preboot", "tee", "tee_recovery">> \in Seq(V)
          /\ <<"fastboot">> \in Seq(V) /\ <<"bootloader">> \in Seq(V)
          /\ <<"firmware">> \in Seq(V) /\ <<"key">> \in Seq(V)
          /\ <<"linux_bootimgs", "system">> \in Seq(V)
      BY <1>1
    <3>2. \A ps \in Seq(V) : Neat(Steps("release", ps))
      BY NeatReleases DEF V
    <3> QED BY <3>1, <3>2, NeatBare, NeatCopies
  <2>8. EmmcRelease = E \o rP \o On("android", rF) \o rB \o On("genx", rM) \o rK
          \o On("runtime", rL) \o On("fastboot", rF) \o On("fastlogo", G) \o On("ab", H)
    BY DEF EmmcRelease, ListCmd, LogoCopy, LogoRelease
  <2> HIDE DEF rP, rF, rB, rM, rK, rL, E, G, H
  <2>9. /\ Neat(On("android", rF)) /\ Neat(On("genx", rM)) /\ Neat(On("runtime", rL))
        /\ Neat(On("fastboot", rF)) /\ Neat(On("fastlogo", G)) /\ Neat(On("ab", H))
    BY <2>7, NeatOn
  <2>10. Neat(EmmcRelease)
    BY <2>7, <2>8, <2>9, NeatJoined
  <2>11. Full = EmmcPack \o EmmcRelease
    BY <1>2 DEF Full
  <2> QED BY <2>6, <2>10, <2>11, NeatJoined
<1>3. CASE Boot # "emmc"
  <2> DEFINE T == <<TableCmd>>
             Z == Steps("pack", <<"block0">>)
             P == Steps("pack", <<"preboot", "tee", "tee_recovery", "bootloader", "linux_bootimgs">>)
             K == Steps("pack", <<"key">>)
             a == <<ListCmd>>
             b == <<PartsCmd>>
             c == <<UnifyCmd>>
  <2>1. Neat(T) /\ Neat(Z) /\ Neat(P) /\ Neat(K) /\ Neat(a) /\ Neat(b) /\ Neat(c)
    <3>1. /\ <<"preboot", "tee", "tee_recovery", "bootloader", "linux_bootimgs">> \in Seq(W)
          /\ <<"block0">> \in Seq(W) /\ <<"key">> \in Seq(W)
      BY <1>1
    <3>2. \A ps \in Seq(W) : Neat(Steps("pack", ps))
      BY NeatSteps DEF W
    <3> QED BY <3>1, <3>2, NeatBare
  <2>2. Full = (T \o Z \o P \o FsSteps \o K) \o NandRelease
    BY <1>3 DEF Full, NandPack, TableCmd
  <2>3. NandRelease = a \o b \o c
    <3>1. NandRelease = <<ListCmd, PartsCmd, UnifyCmd>>
      BY Zenon DEF NandRelease, ListCmd, PartsCmd, UnifyCmd
    <3>2. <<ListCmd, PartsCmd, UnifyCmd>> = <<ListCmd>> \o <<PartsCmd>> \o <<UnifyCmd>>
      BY PiecesOfThree
    <3> QED BY <3>1, <3>2
  <2> HIDE DEF T, Z, P, K, a, b, c
  <2> QED BY <2>1, <2>2, <2>3, NeatFs, NeatJoined
<1> QED BY <1>2, <1>3

-----------------------------------------------------------------------------
(* Where a running script is *)

(* The commands that were run when x is the next one *)
Ahead(done, x) ==
    /\ done \subseteq ToSet(Full) /\ x \in ToSet(Full)
    /\ \A y \in done : Before(y, x)
    /\ \A y \in ToSet(Full) : Rank(y) < Rank(x) => y \in done
    /\ x[1] = "app" => PackApp \notin done
    /\ x = LogoRelease => LogoCopy \in done

LEMMA Rest ==
    ASSUME NEW S, NEW f \in Seq(S), NEW k \in 0 .. Len(f), NEW t, t = SubSeq(f, k + 1, Len(f))
    PROVE  /\ t # <<>> => k + 1 \in 1 .. Len(f) /\ Head(t) = f[k + 1]
                           /\ Tail(t) = SubSeq(f, k + 2, Len(f))
           /\ t = <<>> => k = Len(f)
<1>1. CASE k = Len(f)
  BY <1>1
<1>2. CASE k # Len(f)
  <2>1. k \in 0 .. Len(f) - 1
    BY <1>2
  <2>2. /\ Len(t) = Len(f) - k /\ t \in Seq(S)
        /\ \A i \in 1 .. Len(f) - k : t[i] = f[k + i]
    BY <2>1
  <2>3. t # <<>> /\ Head(t) = f[k + 1]
    <3>1. Len(t) > 0 /\ t[1] = f[k + 1]
      BY <2>1, <2>2
    <3>2. Len(<<>>) = 0
      OBVIOUS
    <3>3. ASSUME t = <<>> PROVE FALSE
      <4>1. Len(t) = 0
        BY <3>2, <3>3
      <4> QED BY <3>1, <4>1
    <3> QED BY <3>1, <3>3
  <2>4. Tail(t) = SubSeq(f, k + 2, Len(f))
    BY <2>1, <2>2
  <2> QED BY <1>2, <2>1, <2>3, <2>4
<1> QED BY <1>1, <1>2

LEMMA NextCommand ==
    ASSUME config \in Configs,
           NEW k \in 0 .. Len(Full), todo = SubSeq(Full, k + 1, Len(Full)), todo # <<>>,
           NEW done, done = {Full[j] : j \in 1 .. k}
    PROVE  /\ Ahead(done, Head(todo)) /\ k + 1 \in 0 .. Len(Full)
           /\ Tail(todo) = SubSeq(Full, (k + 1) + 1, Len(Full))
           /\ done \cup {Head(todo)} = {Full[j] : j \in 1 .. k + 1}
<1> DEFINE f == Full
           x == Head(todo)
<1>1. /\ f \in Seq(Cmds) /\ Orderly(f) /\ Len(f) \in Nat /\ DOMAIN f = 1 .. Len(f)
      /\ AppsFirst(f) /\ Neat(f)
  BY Whole, NeatWhole
<1> HIDE DEF f
<1>2. /\ k + 1 \in 1 .. Len(f) /\ x = f[k + 1] /\ k \in Nat
      /\ Tail(todo) = SubSeq(f, k + 2, Len(f))
  <2>1. f \in Seq(Cmds) /\ k \in 0 .. Len(f) /\ todo = SubSeq(f, k + 1, Len(f))
    BY <1>1 DEF f
  <2>2. /\ k + 1 \in 1 .. Len(f) /\ Head(todo) = f[k + 1]
        /\ Tail(todo) = SubSeq(f, k + 2, Len(f))
    BY <2>1, Rest
  <2>3. k \in Nat
    BY <1>1, <2>1
  <2> QED BY <2>2, <2>3
<1>3. /\ done \subseteq ToSet(f) /\ x \in ToSet(f)
      /\ done \cup {x} = {f[j] : j \in 1 .. k + 1}
  <2>1. \A j \in 1 .. k : j \in DOMAIN f
    BY <1>1, <1>2
  <2>2. done = {f[j] : j \in 1 .. k}
    BY DEF f
  <2>3. done \subseteq ToSet(f) /\ x \in ToSet(f)
    BY <1>1, <1>2, <2>1, <2>2 DEF ToSet
  <2>4. \A j \in 1 .. k + 1 : j \in 1 .. k \/ j = k + 1
    BY <1>2
  <2>5. (1 .. k) \subseteq 1 .. k + 1 /\ k + 1 \in 1 .. k + 1
    BY <1>2
  <2> QED BY <1>2, <2>2, <2>3, <2>4, <2>5
<1>4. \A y \in done : Before(y, x)
  <2>1. ASSUME NEW j \in 1 .. k PROVE Before(f[j], x)
    <3>1. j \in DOMAIN f /\ k + 1 \in DOMAIN f /\ j < k + 1
      BY <1>1, <1>2
    <3> QED BY <1>1, <1>2, <3>1 DEF Orderly
  <2> QED BY <2>1 DEF f
<1>5. ASSUME NEW y \in ToSet(f), Rank(y) < Rank(x) PROVE y \in done
  <2>1. PICK j \in DOMAIN f : f[j] = y
    BY DEF ToSet
  <2>2. CASE j <= k
    <3>1. j \in 1 .. k
      BY <1>1, <1>2, <2>2
    <3> QED BY <2>1, <3>1 DEF f
  <2>3. CASE j = k + 1
    <3>1. y = x
      BY <1>2, <2>1, <2>3
    <3>2. Rank(x) \in Int /\ Rank(y) = Rank(x)
      <4> HIDE DEF x
      <4> QED BY <3>1, RankNat
    <3> QED BY <1>5, <3>2
  <2>4. CASE j > k + 1
    <3>1. Before(x, y)
      BY <1>1, <1>2, <2>1, <2>4 DEF Orderly
    <3> QED BY <1>5, <3>1, NotBefore
  <2> QED BY <1>1, <1>2, <2>2, <2>3, <2>4
<1>6. k + 1 \in 0 .. Len(f) /\ (k + 1) + 1 = k + 2
  BY <1>1, <1>2
<1>8. ASSUME x[1] = "app", PackApp \in done PROVE FALSE
  <2>1. PICK j \in 1 .. k : f[j] = PackApp
    BY <1>8 DEF f
  <2>2. j \in DOMAIN f /\ k + 1 \in DOMAIN f /\ j < k + 1
    BY <1>1, <1>2
  <2> QED BY <1>1, <1>2, <1>8, <2>1, <2>2 DEF AppsFirst
<1>9. ASSUME x = LogoRelease PROVE LogoCopy \in done
  <2>1. k # 0
    <3>1. f # <<>> => f[1] \notin Seconds
      BY <1>1 DEF Neat
    <3>2. f # <<>>
      BY <1>1, <1>2
    <3>3. f[k + 1] \in Seconds
      BY <1>2, <1>9 DEF Seconds
    <3> QED BY <1>2, <3>1, <3>2, <3>3
  <2>2. k + 1 \in DOMAIN f /\ k + 1 > 1 /\ f[k + 1] = LogoRelease /\ (k + 1) - 1 = k
    BY <1>1, <1>2, <1>9, <2>1
  <2>3. f[k] = LogoCopy
    BY <1>1, <2>2 DEF Neat, Order, Behind
  <2>4. k \in 1 .. k
    BY <1>2, <2>1
  <2> QED BY <2>3, <2>4 DEF f
<1>7. Ahead(done, x)
  BY <1>3, <1>4, <1>5, <1>8, <1>9 DEF Ahead, f
<1> QED BY <1>2, <1>3, <1>6, <1>7 DEF f

-----------------------------------------------------------------------------
(* What the commands that were run have left *)

Listed == [i \in DOMAIN table |-> table[i].base]
Judged == Packed \ {"tee_recovery"}

(* A subimage as the present inputs make it, with the TAs when they were loaded *)
Own(p) == <<p, input[p]>>
Fresh(p) == IF p = "fastlogo" THEN <<Own(p)>> ELSE Parts(p)
Content(done, p) == IF p = "bootloader" /\ <<"pack", "ta">> \in done
                   THEN <<Own(p), Own("ta")>> ELSE Fresh(p)

NamesKnown(done) == TableCmd \in done => names = Listed
IsPacked(done) == \A p \in Judged :
    <<"pack", p>> \in done /\ (p = "fastlogo" => input["fastlogo"] # Absent) =>
        sub[p] = Content(done, p)
LogoMade(done) == input["fastlogo"] # Absent =>
    /\ <<"logo", "unzip">> \in done /\ <<"logo", "move">> \notin done =>
            logo["plain"] = input["fastlogo"]
    /\ <<"logo", "move">> \in done => logo["payload"] = input["fastlogo"]
    /\ <<"logo", "sign">> \in done => logo["en"] = input["fastlogo"]
IsReleased(done) == \A p \in Judged :
    <<"release", p>> \in done => \A n \in NamesOf(p) : release[n] = sub[p]
PartsReleased(done) == PartsCmd \in done =>
    \A n \in ToSet(names) : release[n] = sub[ModuleOf(n)]
ListReleased(done) == ListCmd \in done => listed = names

(* The product's own files: a fastlogo that nobody signs, and misc *)
LogoIsOwn(done) == "genx" \notin Options /\ input["fastlogo"] # Absent =>
    /\ LogoCopy \in done => sub["fastlogo"] = <<Own("fastlogo")>>
    /\ LogoRelease \in done => \A n \in NamesOf("fastlogo") : release[n] = <<Own("fastlogo")>>
MiscIsOwn(done) == <<"copy", "misc">> \in done /\ input["misc"] # Absent =>
    release["misc"] = <<Own("misc")>>
CopiesAreOwn(done) == LogoIsOwn(done) /\ MiscIsOwn(done)

Left(done) ==
    /\ NamesKnown(done) /\ IsPacked(done) /\ LogoMade(done)
    /\ IsReleased(done) /\ PartsReleased(done) /\ ListReleased(done)
    /\ CopiesAreOwn(done)

LEMMA SameConfig ==
    ASSUME UNCHANGED config
    PROVE  UNCHANGED <<Full, Judged, Boot, Options>>
<1>1. UNCHANGED <<Boot, Options>>
  BY DEF Boot, Options
<1>2. UNCHANGED Full
  BY <1>1 DEF Full, NandPack, EmmcPack, EmmcRelease, NandRelease, LogoSteps, FsSteps, On, Steps
<1>3. UNCHANGED Judged
  <2> HIDE DEF Full
  <2> QED BY <1>2 DEF Judged, Packed
<1> QED BY <1>1, <1>2, <1>3

(* What a command leaves alone stays as it was. *)
LEMMA FreshStays ==
    ASSUME NEW p, UNCHANGED <<config, input, names>>, p = "app" => UNCHANGED appdir
    PROVE  Fresh(p)' = Fresh(p)
<1>1. UNCHANGED <<Boot, Options>>
  BY SameConfig
<1>2. CASE p = "fastlogo"
  BY <1>2 DEF Fresh, Own
<1>3. CASE p # "fastlogo"
  <2>1. Parts(p)' = Parts(p)
    BY <1>1, <1>3 DEF Parts, On
  <2> QED BY <1>3, <2>1 DEF Fresh
<1> QED BY <1>2, <1>3

LEMMA NamesStay ==
    ASSUME NEW done, NEW x, NamesKnown(done), UNCHANGED <<table, names>>, x[1] # "table"
    PROVE  NamesKnown(done \cup {x})'
BY Kind DEF NamesKnown, Listed

LEMMA PacksStay ==
    ASSUME NEW done, NEW x, IsPacked(done), UNCHANGED <<config, input, names, sub>>, x[1] # "pack",
           UNCHANGED appdir \/ PackApp \notin done
    PROVE  IsPacked(done \cup {x})'
<1>1. \A p : <<"pack", p>>[1] = "pack"
  OBVIOUS
<1>2. \A p : <<"pack", p>> # x
  BY <1>1
<1>3. UNCHANGED Judged
  BY SameConfig
<1>4. \A p : <<"pack", p>> \in done => Fresh(p)' = Fresh(p)
  BY FreshStays DEF PackApp
<1> QED BY <1>2, <1>3, <1>4 DEF IsPacked, Content, Own

LEMMA LogoStays ==
    ASSUME NEW done, NEW x, LogoMade(done), UNCHANGED <<input, logo>>, x[1] # "logo"
    PROVE  LogoMade(done \cup {x})'
<1>1. \A p : <<"logo", p>>[1] = "logo"
  OBVIOUS
<1>2. \A p : <<"logo", p>> # x
  BY <1>1
<1> QED BY <1>2 DEF LogoMade

LEMMA ReleasesStay ==
    ASSUME NEW done, NEW x, IsReleased(done), UNCHANGED <<config, names, recovery, sub, release>>,
           x[1] # "release"
    PROVE  IsReleased(done \cup {x})'
<1>1. \A p : <<"release", p>>[1] = "release"
  OBVIOUS
<1>2. \A p : <<"release", p>> # x
  BY <1>1
<1>3. UNCHANGED <<Judged, Boot>>
  BY SameConfig
<1>4. \A p : NamesOf(p)' = NamesOf(p)
  BY <1>3 DEF NamesOf, ModuleOf, EmmcModule, NandModule
<1> QED BY <1>2, <1>3, <1>4 DEF IsReleased

LEMMA PartsStay ==
    ASSUME NEW done, NEW x, PartsReleased(done), UNCHANGED <<config, names, recovery, sub, release>>,
           x[1] # "parts"
    PROVE  PartsReleased(done \cup {x})'
<1>1. UNCHANGED Boot
  BY SameConfig
<1>2. \A n : ModuleOf(n)' = ModuleOf(n)
  BY <1>1 DEF ModuleOf, EmmcModule, NandModule
<1>3. PartsCmd \in done \cup {x} <=> PartsCmd \in done
  BY Kind
<1>4. ToSet(names)' = ToSet(names)
  BY DEF ToSet
<1> QED BY <1>2, <1>3, <1>4 DEF PartsReleased

LEMMA CopiesStay ==
    ASSUME NEW done, NEW x, CopiesAreOwn(done), x[1] \notin {"copy", "release"},
           UNCHANGED <<config, input, names, recovery, sub, release>>
    PROVE  CopiesAreOwn(done \cup {x})'
<1>1. LogoCopy[1] = "copy" /\ LogoRelease[1] = "release" /\ <<"copy", "misc">>[1] = "copy"
  BY DEF LogoCopy, LogoRelease
<1>2. LogoCopy # x /\ LogoRelease # x /\ <<"copy", "misc">> # x
  BY <1>1
<1>3. UNCHANGED <<Options, Boot>>
  BY SameConfig
<1>4. NamesOf("fastlogo")' = NamesOf("fastlogo")
  BY <1>3 DEF NamesOf, ModuleOf, EmmcModule, NandModule
<1> QED BY <1>2, <1>3, <1>4 DEF CopiesAreOwn, LogoIsOwn, MiscIsOwn, Own

LEMMA ListStays ==
    ASSUME NEW done, NEW x, ListReleased(done), UNCHANGED <<names, listed>>, x[1] # "list"
    PROVE  ListReleased(done \cup {x})'
BY Kind DEF ListReleased

(* What no command has begun yet holds. *)
LEMMA PackStage == \A p \in Payloads \cup {"ta"} : Rank(<<"pack", p>>) \in 1 .. 7
BY DEF Rank, Payloads, Early

LEMMA NoRelease ==
    ASSUME NEW done, NEW x, Ahead(done, x), Rank(x) < 8
    PROVE  (IsReleased(done \cup {x}) /\ PartsReleased(done \cup {x}) /\ ListReleased(done \cup {x})
            /\ CopiesAreOwn(done \cup {x}))'
<1>1. \A y \in done \cup {x} : Rank(y) # 8
  BY RankNat DEF Ahead, Before
<1>2. /\ \A p : <<"release", p>> \notin done \cup {x}
      /\ PartsCmd \notin done \cup {x} /\ ListCmd \notin done \cup {x}
      /\ LogoCopy \notin done \cup {x} /\ LogoRelease \notin done \cup {x}
      /\ <<"copy", "misc">> \notin done \cup {x}
  BY <1>1, Ranks DEF LogoCopy, LogoRelease
<1> QED BY <1>2 DEF IsReleased, PartsReleased, ListReleased, CopiesAreOwn, LogoIsOwn, MiscIsOwn

LEMMA NoPack ==
    ASSUME NEW done, NEW x, Ahead(done, x), Rank(x) = 0
    PROVE  (IsPacked(done \cup {x}) /\ LogoMade(done \cup {x}))'
<1>1. \A y \in done \cup {x} : Rank(y) = 0
  BY RankNat DEF Ahead, Before
<1>2. /\ \A p \in Judged' : <<"pack", p>> \notin done \cup {x}
      /\ <<"logo", "unzip">> \notin done \cup {x} /\ <<"logo", "move">> \notin done \cup {x}
      /\ <<"logo", "sign">> \notin done \cup {x}
  BY <1>1, PackStage, RanksOf DEF Judged, Packed
<1> QED BY <1>2 DEF IsPacked, LogoMade

-----------------------------------------------------------------------------
(* One command after the other *)

LEMMA LaidTable ==
    ASSUME TypeOK, NEW done, NEW x, x = TableCmd, Ahead(done, x), Left(done), LayTable
    PROVE  Left(done \cup {x})'
<1>1. names' = Listed /\ UNCHANGED table
  BY DEF LayTable, env, Listed
<1>2. NamesKnown(done \cup {x})'
  BY <1>1 DEF NamesKnown, Listed
<1>3. Rank(x) = 0 /\ Rank(x) < 8
  BY Ranks
<1> QED BY <1>2, <1>3, NoPack, NoRelease DEF Left

LEMMA DidRead ==
    ASSUME TypeOK, NEW done, NEW x, x = MapCmd, Ahead(done, x), Left(done), ReadMapping
    PROVE  Left(done \cup {x})'
<1>1. UNCHANGED <<table, names>>
  BY DEF ReadMapping, env
<1>2. NamesKnown(done \cup {x})'
  BY <1>1, NamesStay, Kind DEF Left
<1>3. Rank(x) = 0 /\ Rank(x) < 8
  BY Ranks
<1> QED BY <1>2, <1>3, NoPack, NoRelease DEF Left

(* A subimage is packed from the inputs of now, before the TAs are loaded. *)
LEMMA DidPack ==
    ASSUME TypeOK, config \in Configs, NEW done, NEW p \in Payloads, NEW x, x = <<"pack", p>>,
           Ahead(done, x), Left(done), Pack(p), outcome' = "running"
    PROVE  Left(done \cup {x})'
<1>1. UNCHANGED <<config, table, input, names, logo, appdir>>
  BY DEF Pack, env
<1>2. x[1] = "pack" /\ x[1] # "table" /\ x[1] # "logo"
  OBVIOUS
<1>3. NamesKnown(done \cup {x})' /\ LogoMade(done \cup {x})'
  BY <1>1, <1>2, NamesStay, LogoStays DEF Left
<1>4. Rank(x) < 8
  <2>1. Rank(x) \in 1 .. 7
    BY PackStage
  <2> QED BY <2>1
<1>5. /\ UNCHANGED sub \/ sub' = [sub EXCEPT ![p] = Parts(p)]
      /\ p # "tee_recovery" => Ready(p) /\ sub' = [sub EXCEPT ![p] = Parts(p)]
  BY DEF Pack, Abort
<1>6. \A q \in Judged : q # p => sub'[q] = sub[q]
  BY <1>5 DEF TypeOK, Judged, Packed
<1>7. UNCHANGED <<Judged, Boot>>
  BY <1>1, SameConfig
<1>8. ASSUME NEW q \in Judged, q # p, <<"pack", q>> \in done \cup {x},
             q = "fastlogo" => input["fastlogo"] # Absent
      PROVE  sub'[q] = Content(done \cup {x}, q)'
  <2>1. <<"pack", q>> \in done
    BY <1>8
  <2>2. sub[q] = Content(done, q)
    BY <1>8, <2>1 DEF Left, IsPacked
  <2>3. <<"pack", "ta">> # x
    BY DEF Payloads
  <2>4. Fresh(q)' = Fresh(q)
    BY <1>1, FreshStays
  <2> QED BY <1>1, <1>6, <1>7, <1>8, <2>2, <2>3, <2>4 DEF Content, Own
<1>9. ASSUME p \in Judged, p = "fastlogo" => input["fastlogo"] # Absent
      PROVE  sub'[p] = Content(done \cup {x}, p)'
  <2>1. sub'[p] = Parts(p)
    <3>1. p # "tee_recovery"
      BY <1>9 DEF Judged
    <3> QED BY <1>5, <3>1 DEF TypeOK
  <2>2. p = "fastlogo" => logo["en"] = input["fastlogo"]
    <3>1. ASSUME p = "fastlogo" PROVE <<"logo", "sign">> \in done
      <4>1. <<"logo", "sign">> \in ToSet(Full)
        BY <3>1, Script DEF Ahead
      <4>2. Rank(<<"logo", "sign">>) = 5 /\ Rank(x) = 6
        BY <3>1, RanksOf
      <4> QED BY <4>1, <4>2 DEF Ahead
    <3> QED BY <1>9, <3>1 DEF Left, LogoMade
  <2>4. Parts(p) = Fresh(p)
    BY <2>2 DEF Parts, Fresh, Own
  <2>6. Fresh(p)' = Fresh(p)
    BY <1>1, FreshStays
  <2>5. p = "bootloader" => <<"pack", "ta">> \notin done \cup {x}
    <3>1. ASSUME p = "bootloader", <<"pack", "ta">> \in done PROVE FALSE
      <4>1. Rank(<<"pack", "ta">>) = 2 /\ Rank(x) = 1
        BY <3>1, RanksOf, Ranks DEF Early
      <4>2. Before(<<"pack", "ta">>, x)
        BY <3>1 DEF Ahead
      <4> QED BY <4>1, <4>2, NotBefore
    <3> QED BY <3>1 DEF Payloads
  <2> QED BY <1>1, <2>1, <2>4, <2>5, <2>6 DEF Content
<1>10. IsPacked(done \cup {x})'
  BY <1>1, <1>7, <1>8, <1>9 DEF IsPacked
<1> QED BY <1>3, <1>4, <1>10, NoRelease DEF Left

LEMMA Appended == ASSUME NEW a, NEW b PROVE Append(<<a>>, b) = <<a, b>>
<1>1. <<a>> \in Seq({a, b}) /\ Len(<<a>>) = 1 /\ <<a>>[1] = a
  OBVIOUS
<1>2. /\ Append(<<a>>, b) \in Seq({a, b}) /\ Len(Append(<<a>>, b)) = 2
      /\ Append(<<a>>, b)[1] = a /\ Append(<<a>>, b)[2] = b
  <2> DEFINE f == <<a>>
  <2>1. f \in Seq({a, b}) /\ Len(f) = 1 /\ f[1] = a
    BY <1>1
  <2> HIDE DEF f
  <2>2. /\ Append(f, b) \in Seq({a, b}) /\ Len(Append(f, b)) = 2
        /\ Append(f, b)[1] = a /\ Append(f, b)[2] = b
    <3>1. a \in {a, b} /\ b \in {a, b}
      OBVIOUS
    <3>2. /\ Append(f, b) \in Seq({a, b}) /\ Len(Append(f, b)) = Len(f) + 1
          /\ \A i \in 1 .. Len(f) : Append(f, b)[i] = f[i]
          /\ Append(f, b)[Len(f) + 1] = b
      BY <2>1, <3>1, AppendProperties
    <3> QED BY <2>1, <3>2
  <2> QED BY <2>2 DEF f
<1>3. <<a, b>> \in Seq({a, b}) /\ Len(<<a, b>>) = 2 /\ <<a, b>>[1] = a /\ <<a, b>>[2] = b
  OBVIOUS
<1> QED
  <2> DEFINE f == Append(<<a>>, b)
             g == <<a, b>>
  <2>1. f \in Seq({a, b}) /\ Len(f) = 2 /\ f[1] = a /\ f[2] = b
    BY <1>2
  <2>2. g \in Seq({a, b}) /\ Len(g) = 2 /\ g[1] = a /\ g[2] = b
    BY <1>3
  <2> HIDE DEF f, g
  <2>3. f = g
    <3>1. DOMAIN f = 1 .. 2 /\ DOMAIN g = 1 .. 2
      BY <2>1, <2>2
    <3>2. \A i \in 1 .. 2 : f[i] = g[i]
      <4>1. \A i \in 1 .. 2 : i = 1 \/ i = 2
        OBVIOUS
      <4> QED BY <2>1, <2>2, <4>1
    <3> QED BY <2>1, <2>2, <3>1, <3>2
  <2> QED BY <2>3 DEF f, g

(* The TAs are appended to the bootloader that was packed by this run. *)
LEMMA DidPreload ==
    ASSUME TypeOK, config \in Configs, NEW done, NEW x, x = <<"pack", "ta">>,
           Ahead(done, x), Left(done), PreloadTa, outcome' = "running"
    PROVE  Left(done \cup {x})'
<1>1. UNCHANGED <<config, table, input, names, logo, appdir>>
  BY DEF PreloadTa, env
<1>2. x[1] = "pack" /\ x[1] # "table" /\ x[1] # "logo"
  OBVIOUS
<1>3. NamesKnown(done \cup {x})' /\ LogoMade(done \cup {x})'
  BY <1>1, <1>2, NamesStay, LogoStays DEF Left
<1>4. Rank(x) = 2 /\ Rank(x) < 8
  BY RanksOf
<1>5. sub' = [sub EXCEPT !["bootloader"] = Append(@, Own("ta"))]
  BY DEF PreloadTa, Abort, Own
<1>6. UNCHANGED <<Judged, Boot>>
  BY <1>1, SameConfig
<1>7. x \notin done
  <2>1. x \in done => Before(x, x)
    BY DEF Ahead
  <2> QED BY <1>4, <2>1 DEF Before, Flat
<1>8. <<"pack", "bootloader">> \in done
  <2>1. Rank(<<"pack", "bootloader">>) = 1
    BY Ranks DEF Early
  <2> QED BY <1>4, <2>1, Script DEF Ahead
<1>9. ASSUME NEW q \in Judged, <<"pack", q>> \in done \cup {x},
             q = "fastlogo" => input["fastlogo"] # Absent
      PROVE  sub'[q] = Content(done \cup {x}, q)'
  <2>1. q \in Payloads /\ q # "ta"
    BY DEF Judged, Packed, Payloads
  <2>2. <<"pack", q>> \in done
    BY <1>9, <2>1
  <2>3. sub[q] = Content(done, q)
    BY <1>9, <2>2 DEF Left, IsPacked
  <2>4. Content(done, q) = Fresh(q)
    BY <1>7 DEF Content
  <2>5. CASE q # "bootloader"
    <3>1. Fresh(q)' = Fresh(q)
      BY <1>1, FreshStays
    <3> QED BY <1>5, <2>3, <2>4, <2>5, <3>1 DEF Content
  <2>6. CASE q = "bootloader"
    <3>1. sub'[q] = Append(sub[q], Own("ta"))
      BY <1>5, <2>1, <2>6 DEF TypeOK
    <3>2. sub[q] = <<Own(q)>>
      BY <2>3, <2>4, <2>6 DEF Fresh, Parts, Own
    <3>3. sub'[q] = <<Own(q), Own("ta")>>
      BY <3>1, <3>2, Appended
    <3> QED BY <1>1, <2>6, <3>3 DEF Content, Own
  <2> QED BY <2>5, <2>6
<1>10. IsPacked(done \cup {x})'
  BY <1>1, <1>6, <1>9 DEF IsPacked
<1> QED BY <1>3, <1>4, <1>10, NoRelease DEF Left

(* The fastlogo is unpacked, moved and signed from the product's one. *)
LEMMA DidLogo ==
    ASSUME TypeOK, config \in Configs, NEW done, NEW x, Ahead(done, x), Left(done), outcome' = "running",
           \/ x = <<"logo", "unzip">> /\ UnzipLogo
           \/ x = <<"logo", "move">> /\ MoveLogo
           \/ x = <<"logo", "sign">> /\ SignLogo
    PROVE  Left(done \cup {x})'
<1> DEFINE u == <<"logo", "unzip">>
           m == <<"logo", "move">>
           g == <<"logo", "sign">>
<1>1. UNCHANGED <<config, table, input, names, sub, appdir>>
  BY DEF UnzipLogo, MoveLogo, SignLogo, env
<1>2. x[1] = "logo" /\ x[1] # "table" /\ x[1] # "pack"
  <2>1. x \in {u, m, g}
    OBVIOUS
  <2> QED BY <2>1
<1>3. NamesKnown(done \cup {x})' /\ IsPacked(done \cup {x})'
  BY <1>1, <1>2, NamesStay, PacksStay DEF Left
<1>4. Rank(u) = 3 /\ Rank(m) = 4 /\ Rank(g) = 5
  BY RanksOf
<1>5. Rank(x) < 8
  BY <1>4
<1>6. u # m /\ u # g /\ m # g
  BY <1>4
<1>7. LogoMade(done) /\ logo \in [{"plain", "payload", "en"} -> (0 .. MaxVersion) \cup {Absent}]
  BY DEF Left, TypeOK
<1>8. ASSUME input["fastlogo"] # Absent
      PROVE  /\ u \in done \cup {x} /\ m \notin done \cup {x} => logo'["plain"] = input["fastlogo"]
             /\ m \in done \cup {x} => logo'["payload"] = input["fastlogo"]
             /\ g \in done \cup {x} => logo'["en"] = input["fastlogo"]
  <2>1. CASE x = u /\ UnzipLogo
    <3>1. logo' = [logo EXCEPT !["plain"] = input["fastlogo"]]
      BY <1>8, <2>1 DEF UnzipLogo, Abort
    <3>2. m \notin done /\ g \notin done
      <4>1. ASSUME NEW y \in done, y = m \/ y = g PROVE FALSE
        <5>1. Before(y, u)
          BY <2>1 DEF Ahead
        <5> QED BY <1>4, <4>1, <5>1, NotBefore
      <4> QED BY <4>1
    <3> QED BY <1>6, <1>7, <2>1, <3>1, <3>2
  <2>2. CASE x = m /\ MoveLogo
    <3>1. logo' = [logo EXCEPT !["payload"] = logo["plain"], !["plain"] = Absent]
      BY <1>8, <2>2 DEF MoveLogo
    <3>2. g \notin done /\ m \notin done
      <4>1. g \in done => Before(g, m)
        BY <2>2 DEF Ahead
      <4>2. m \in done => Before(m, m)
        BY <2>2 DEF Ahead
      <4> QED BY <1>4, <4>1, <4>2 DEF Before, Flat
    <3>3. u \in done
      BY <1>4, <2>2, Script DEF Ahead
    <3>4. logo["plain"] = input["fastlogo"]
      BY <1>7, <1>8, <3>2, <3>3 DEF LogoMade
    <3> QED BY <1>6, <1>7, <2>2, <3>1, <3>2, <3>4
  <2>3. CASE x = g /\ SignLogo
    <3>1. m \in done
      BY <1>4, <2>3, Script DEF Ahead
    <3>2. logo["payload"] = input["fastlogo"]
      BY <1>7, <1>8, <3>1 DEF LogoMade
    <3>3. logo' = [logo EXCEPT !["en"] = logo["payload"]]
      BY <1>8, <2>3, <3>2 DEF SignLogo
    <3> QED BY <1>6, <1>7, <2>3, <3>1, <3>2, <3>3
  <2> QED BY <2>1, <2>2, <2>3
<1>9. LogoMade(done \cup {x})'
  BY <1>1, <1>8 DEF LogoMade
<1> QED BY <1>3, <1>5, <1>9, NoRelease DEF Left

(* app is packed from out/app, which no later command touches. *)
LEMMA DidApp ==
    ASSUME TypeOK, NEW done, NEW x, Ahead(done, x), Left(done), outcome' = "running",
           \/ x = <<"app", "remove">> /\ RemoveApp
           \/ x = <<"app", "move">> /\ MoveGalois
           \/ x = <<"app", "mkdir">> /\ MakeGalois
    PROVE  Left(done \cup {x})'
<1>1. UNCHANGED <<config, table, input, names, sub, logo>>
  BY DEF RemoveApp, MoveGalois, MakeGalois, env
<1>2. PICK p : x = <<"app", p>>
  OBVIOUS
<1>3. x[1] = "app" /\ x[1] # "table" /\ x[1] # "pack" /\ x[1] # "logo"
  BY <1>2
<1>4. NamesKnown(done \cup {x})' /\ IsPacked(done \cup {x})' /\ LogoMade(done \cup {x})'
  BY <1>1, <1>3, NamesStay, PacksStay, LogoStays DEF Left, Ahead
<1>5. Rank(x) < 8
  BY <1>2, Ranks
<1> QED BY <1>4, <1>5, NoRelease DEF Left

(* When the list is released the partitions of the table are known. *)
LEMMA DidList ==
    ASSUME TypeOK, NEW done, NEW x, x = ListCmd, Ahead(done, x), Left(done), ReleaseList
    PROVE  Left(done \cup {x})'
<1>1. UNCHANGED <<config, table, input, names, recovery, sub, logo, appdir, release>> /\ listed' = names
  BY DEF ReleaseList, env
<1>2. x[1] \notin {"table", "pack", "logo", "release", "parts", "copy"}
  BY Kind
<1>3. ListReleased(done \cup {x})'
  BY <1>1 DEF ListReleased
<1> QED
  BY <1>1, <1>2, <1>3, NamesStay, PacksStay, LogoStays, ReleasesStay, PartsStay, CopiesStay
     DEF Left

LEMMA DidUnify ==
    ASSUME TypeOK, NEW done, NEW x, x = UnifyCmd, Ahead(done, x), Left(done), Unify
    PROVE  Left(done \cup {x})'
<1>1. UNCHANGED <<config, table, input, names, recovery, sub, logo, appdir, release, listed>>
  BY DEF Unify, env, disk
<1>2. x[1] \notin {"table", "pack", "logo", "release", "parts", "list", "copy"}
  BY Kind
<1> QED
  BY <1>1, <1>2, NamesStay, PacksStay, LogoStays, ReleasesStay, PartsStay, ListStays, CopiesStay
     DEF Left

(* The partition the product's own files are copied to *)
LEMMA CopiedNames ==
    ASSUME TypeOK, Boot = "emmc", NEW q \in Payloads, NEW n \in NamesOf(q)
    PROVE  n \in Bases /\ n # "misc" /\ (n = "fastlogo" => q = "fastlogo")
<1>1. n \in Bases /\ EmmcModule(n) = q /\ q # Absent
  BY KnownNames, ConfigAssumption DEF NamesOf, ModuleOf, TypeOK
<1>2. EmmcModule("misc") = Absent /\ EmmcModule("fastlogo") = "fastlogo"
  BY DEF EmmcModule
<1> QED BY <1>1, <1>2

(* A release copies the subimage under every name of its module, *)
LEMMA DidRelease ==
    ASSUME TypeOK, config \in Configs, NEW done, NEW p \in Payloads, NEW x, x = <<"release", p>>,
           Ahead(done, x), Left(done), Release(p), outcome' = "running"
    PROVE  Left(done \cup {x})'
<1>1. /\ UNCHANGED <<config, table, input, names, recovery, sub, logo, appdir, listed>>
      /\ release' = [n \in Bases |-> IF n \in NamesOf(p) THEN sub[p] ELSE release[n]]
  BY DEF Release, env, Abort
<1>2. x[1] = "release"
  OBVIOUS
<1>3. x[1] \notin {"table", "pack", "logo", "parts", "list"}
  BY <1>2
<1>4. /\ NamesKnown(done \cup {x})' /\ IsPacked(done \cup {x})' /\ LogoMade(done \cup {x})'
      /\ ListReleased(done \cup {x})'
  BY <1>1, <1>3, NamesStay, PacksStay, LogoStays, ListStays DEF Left
<1>5. UNCHANGED <<Judged, Boot>> /\ Boot = "emmc"
  BY <1>1, SameConfig, Script DEF Ahead
<1>6. PartsReleased(done \cup {x})'
  <2>1. PartsCmd \notin done \cup {x}
    BY <1>2, <1>5, Kind, Script DEF Ahead
  <2> QED BY <2>1 DEF PartsReleased
<1>7. \A q : NamesOf(q)' = NamesOf(q)
  BY <1>1, <1>5 DEF NamesOf, ModuleOf, EmmcModule, NandModule
<1>8. ASSUME NEW q \in Judged, <<"release", q>> \in done \cup {x}, NEW n \in NamesOf(q)
      PROVE  release'[n] = sub[q]
  <2>1. n \in Bases
    BY KnownNames DEF NamesOf, TypeOK
  <2>2. CASE n \in NamesOf(p)
    <3>1. q = p
      BY <1>8, <2>2 DEF NamesOf
    <3> QED BY <1>1, <2>1, <2>2, <3>1
  <2>3. CASE n \notin NamesOf(p)
    <3>1. q # p
      BY <1>8, <2>3
    <3>2. <<"release", q>> \in done
      BY <1>8, <3>1
    <3>3. release[n] = sub[q]
      BY <1>8, <3>2 DEF Left, IsReleased
    <3> QED BY <1>1, <2>1, <2>3, <3>3
  <2> QED BY <2>2, <2>3
<1>9. IsReleased(done \cup {x})'
  BY <1>1, <1>5, <1>7, <1>8 DEF IsReleased
<1>10. LogoCopy # x /\ <<"copy", "misc">> # x /\ (LogoRelease = x <=> p = "fastlogo")
  BY DEF LogoCopy, LogoRelease
<1>11. UNCHANGED Options /\ LogoIsOwn(done) /\ MiscIsOwn(done)
  BY <1>1, SameConfig DEF Left, CopiesAreOwn
<1>12. LogoIsOwn(done \cup {x})'
  <2> SUFFICES ASSUME "genx" \notin Options, input["fastlogo"] # Absent,
                      LogoRelease \in done \cup {x}, NEW n \in NamesOf("fastlogo")
               PROVE  release'[n] = <<Own("fastlogo")>>
    BY <1>1, <1>7, <1>10, <1>11 DEF LogoIsOwn, Own
  <2>1. n \in Bases
    BY KnownNames DEF NamesOf, TypeOK
  <2>2. CASE p = "fastlogo"
    <3>1. sub["fastlogo"] = <<Own("fastlogo")>>
      BY <1>10, <1>11, <2>2 DEF Ahead, LogoIsOwn
    <3> QED BY <1>1, <2>1, <2>2, <3>1
  <2>3. CASE p # "fastlogo"
    <3>1. release[n] = <<Own("fastlogo")>>
      BY <1>10, <1>11, <2>3 DEF LogoIsOwn
    <3>2. n \notin NamesOf(p)
      BY <2>3 DEF NamesOf
    <3> QED BY <1>1, <2>1, <3>1, <3>2
  <2> QED BY <2>2, <2>3
<1>13. MiscIsOwn(done \cup {x})'
  <2>1. "misc" \in Bases /\ "misc" \notin NamesOf(p)
    BY <1>5, CopiedNames DEF Bases
  <2> QED BY <1>1, <1>10, <1>11, <2>1 DEF MiscIsOwn, Own
<1> QED BY <1>4, <1>6, <1>9, <1>12, <1>13 DEF Left, CopiesAreOwn

LEMMA JudgedIs ==
    ASSUME NEW p \in Judged
    PROVE  p \in Payloads /\ <<"pack", p>> \in ToSet(Full) /\ p # "tee_recovery"
<1>1. PICK i \in DOMAIN Full : Full[i] = <<"pack", p>>
  BY DEF Judged, Packed
<1> HIDE DEF Full
<1> QED BY <1>1, InSet DEF Judged, Packed

(* the fastlogo of a product without a signed one is its own, *)
LEMMA DidCopyFastlogo ==
    ASSUME TypeOK, config \in Configs, NEW done, NEW x, x = <<"copy", "fastlogo">>,
           Ahead(done, x), Left(done), CopyFastlogo
    PROVE  Left(done \cup {x})'
<1>1. /\ UNCHANGED <<config, table, input, names, recovery, logo, appdir, listed>>
      /\ DOMAIN sub = Payloads /\ DOMAIN release = Bases
  BY DEF CopyFastlogo, env, TypeOK
<1>2. x[1] = "copy"
  OBVIOUS
<1>3. x[1] \notin {"table", "pack", "logo", "release", "parts", "list"}
  BY <1>2
<1>4. NamesKnown(done \cup {x})' /\ LogoMade(done \cup {x})' /\ ListReleased(done \cup {x})'
  BY <1>1, <1>3, NamesStay, LogoStays, ListStays DEF Left
<1>5. UNCHANGED <<Judged, Boot>> /\ Boot = "emmc"
  BY <1>1, SameConfig, Script DEF Ahead
<1>6. PartsReleased(done \cup {x})'
  <2>1. PartsCmd \notin done \cup {x}
    BY <1>3, <1>5, Kind, Script DEF Ahead
  <2> QED BY <2>1 DEF PartsReleased
<1>7. \A q : NamesOf(q)' = NamesOf(q)
  BY <1>1, <1>5 DEF NamesOf, ModuleOf, EmmcModule, NandModule
<1>8. ASSUME NEW q \in Judged
      PROVE  sub'[q] = sub[q] /\ \A n \in NamesOf(q) : release[n] = sub[q] => release'[n] = sub[q]
  <2>1. q \in Payloads /\ (q = "fastlogo" => "genx" \in Options)
    BY JudgedIs, Script
  <2>2. sub'[q] = sub[q]
    BY <1>1, <2>1 DEF CopyFastlogo
  <2>3. ASSUME NEW n \in NamesOf(q), release[n] = sub[q] PROVE release'[n] = sub[q]
    <3>1. n \in Bases /\ (n = "fastlogo" => q = "fastlogo")
      BY <1>5, <2>1, CopiedNames
    <3> QED BY <1>1, <2>1, <2>3, <3>1 DEF CopyFastlogo
  <2> QED BY <2>2, <2>3
<1>9. \A p : <<"pack", p>> # x /\ <<"release", p>> # x
  OBVIOUS
<1>12. \A p : Fresh(p)' = Fresh(p)
  BY <1>1, FreshStays
<1>10. IsPacked(done \cup {x})'
  BY <1>1, <1>5, <1>8, <1>9, <1>12 DEF Left, IsPacked, Content, Own
<1>11. IsReleased(done \cup {x})'
  BY <1>1, <1>5, <1>7, <1>8, <1>9 DEF Left, IsReleased
<1>13. UNCHANGED Options /\ LogoIsOwn(done) /\ MiscIsOwn(done)
       /\ LogoRelease # x /\ <<"copy", "misc">> # x
  BY <1>1, SameConfig DEF Left, CopiesAreOwn, LogoRelease
<1>14. LogoIsOwn(done \cup {x})'
  <2> SUFFICES ASSUME "genx" \notin Options, input["fastlogo"] # Absent
               PROVE  /\ sub'["fastlogo"] = <<Own("fastlogo")>>
                      /\ LogoRelease \in done => \A n \in NamesOf("fastlogo") :
                            release'[n] = <<Own("fastlogo")>>
    BY <1>1, <1>7, <1>13 DEF LogoIsOwn, Own
  <2>1. /\ sub' = [sub EXCEPT !["fastlogo"] = <<Own("fastlogo")>>]
        /\ release' = [release EXCEPT !["fastlogo"] = <<Own("fastlogo")>>]
    BY DEF CopyFastlogo, Own
  <2>2. "fastlogo" \in Payloads /\ NamesOf("fastlogo") \subseteq Bases
    BY KnownNames DEF NamesOf, TypeOK, Payloads
  <2> QED BY <1>1, <1>13, <2>1, <2>2 DEF LogoIsOwn
<1>15. MiscIsOwn(done \cup {x})'
  <2>1. release'["misc"] = release["misc"]
    BY <1>1 DEF CopyFastlogo, Bases
  <2> QED BY <1>1, <1>13, <2>1 DEF MiscIsOwn, Own
<1> QED BY <1>4, <1>6, <1>10, <1>11, <1>14, <1>15 DEF Left, CopiesAreOwn

(* and misc is no module's. *)
LEMMA DidCopyMisc ==
    ASSUME TypeOK, config \in Configs, NEW done, NEW x, x = <<"copy", "misc">>,
           Ahead(done, x), Left(done), CopyMisc
    PROVE  Left(done \cup {x})'
<1>1. /\ UNCHANGED <<config, table, input, names, recovery, sub, logo, appdir, listed>>
      /\ DOMAIN release = Bases
  BY DEF CopyMisc, env, TypeOK
<1>2. x[1] = "copy"
  OBVIOUS
<1>3. x[1] \notin {"table", "pack", "logo", "release", "parts", "list"}
  BY <1>2
<1>4. /\ NamesKnown(done \cup {x})' /\ IsPacked(done \cup {x})' /\ LogoMade(done \cup {x})'
      /\ ListReleased(done \cup {x})'
  BY <1>1, <1>3, NamesStay, PacksStay, LogoStays, ListStays DEF Left
<1>5. UNCHANGED <<Judged, Boot>> /\ Boot = "emmc"
  BY <1>1, SameConfig, Script DEF Ahead
<1>6. PartsReleased(done \cup {x})'
  <2>1. PartsCmd \notin done \cup {x}
    BY <1>3, <1>5, Kind, Script DEF Ahead
  <2> QED BY <2>1 DEF PartsReleased
<1>7. \A q : NamesOf(q)' = NamesOf(q)
  BY <1>1, <1>5 DEF NamesOf, ModuleOf, EmmcModule, NandModule
<1>8. ASSUME NEW q \in Judged, NEW n \in NamesOf(q) PROVE release'[n] = release[n]
  <2>1. n # "misc"
    BY <1>5, CopiedNames, JudgedIs
  <2> QED BY <1>1, <2>1 DEF CopyMisc
<1>9. \A p : <<"release", p>> # x
  OBVIOUS
<1>10. IsReleased(done \cup {x})'
  BY <1>1, <1>5, <1>7, <1>8, <1>9 DEF Left, IsReleased
<1>11. UNCHANGED Options /\ LogoIsOwn(done) /\ LogoRelease # x /\ LogoCopy # x
  BY <1>1, SameConfig DEF Left, CopiesAreOwn, LogoRelease, LogoCopy
<1>12. LogoIsOwn(done \cup {x})'
  <2>1. \A n \in NamesOf("fastlogo") : release'[n] = release[n]
    <3>1. \A n \in NamesOf("fastlogo") : n # "misc"
      BY <1>5, CopiedNames DEF Payloads
    <3> QED BY <1>1, <3>1 DEF CopyMisc
  <2> QED BY <1>1, <1>7, <1>11, <2>1 DEF LogoIsOwn, Own
<1>13. MiscIsOwn(done \cup {x})'
  BY <1>1 DEF MiscIsOwn, Own, CopyMisc, Bases
<1> QED BY <1>4, <1>6, <1>10, <1>12, <1>13 DEF Left, CopiesAreOwn

LEMMA TableIsList ==
    ASSUME config \in Configs, table \in Tables
    PROVE  Listed \in Seq(Bases)
<1>1. table \in Seq(Partitions)
  BY ConfigAssumption DEF Tables
<1>2. \A i \in 1 .. Len(table) : table[i] \in Partitions
  BY <1>1
<1>3. \A i \in 1 .. Len(table) : table[i].base \in Bases
  BY <1>2 DEF Partitions
<1> QED BY <1>1, <1>3 DEF Listed

(* NAND: every part of the table has its module's subimage. *)
LEMMA DidParts ==
    ASSUME TypeOK, config \in Configs, NEW done, NEW x, x = PartsCmd,
           Ahead(done, x), Left(done), ReleaseParts, outcome = "running", outcome' = "running"
    PROVE  Left(done \cup {x})'
<1>1. UNCHANGED <<config, table, input, names, recovery, sub, logo, appdir, listed>>
  BY DEF ReleaseParts, env
<1>2. x[1] \notin {"table", "pack", "logo", "release", "list", "copy"} /\ x[1] = "parts"
  BY Kind
<1>3. /\ NamesKnown(done \cup {x})' /\ IsPacked(done \cup {x})' /\ LogoMade(done \cup {x})'
      /\ ListReleased(done \cup {x})'
  BY <1>1, <1>2, NamesStay, PacksStay, LogoStays, ListStays DEF Left
<1>4. UNCHANGED <<Judged, Boot>> /\ Boot # "emmc"
  BY <1>1, SameConfig, Script DEF Ahead
<1>5. IsReleased(done \cup {x})'
  <2>1. \A p : <<"release", p>>[1] = "release"
    OBVIOUS
  <2>2. \A p : <<"release", p>> \notin done \cup {x}
    BY <1>2, <1>4, <2>1, Script DEF Ahead
  <2> QED BY <2>2 DEF IsReleased
<1>6. names \in Seq(Bases)
  <2>1. Rank(TableCmd) < Rank(x)
    BY Ranks
  <2>2. TableCmd \in done
    BY <2>1, Script DEF Ahead
  <2> QED BY <2>2, TableIsList DEF Left, NamesKnown, TypeOK
<1>7. \A n \in ToSet(names) : release'[n] = sub[ModuleOf(n)]
  <2>1. PICK k \in 0 .. Len(names) :
            /\ IF k = Len(names) THEN Go ELSE Abort /\ ~ Held(names[k + 1])
            /\ release' = [n \in Bases |-> IF n \in ToSet(SubSeq(names, 1, k))
                                           THEN sub[ModuleOf(n)] ELSE release[n]]
    BY DEF ReleaseParts
  <2>2. k = Len(names)
    BY <2>1 DEF Abort
  <2>3. SubSeq(names, 1, k) = names
    BY <1>6, <2>2
  <2>4. ToSet(names) \subseteq Bases
    BY KnownNames DEF TypeOK
  <2> QED BY <2>1, <2>3, <2>4
<1>8. \A n : ModuleOf(n)' = ModuleOf(n)
  BY <1>1, <1>4 DEF ModuleOf, EmmcModule, NandModule
<1>9. ToSet(names)' = ToSet(names)
  BY <1>1 DEF ToSet
<1>10. PartsReleased(done \cup {x})'
  BY <1>1, <1>7, <1>8, <1>9 DEF PartsReleased
<1>11. CopiesAreOwn(done \cup {x})'
  <2>1. LogoCopy[1] = "copy" /\ LogoRelease[1] = "release" /\ <<"copy", "misc">>[1] = "copy"
    BY DEF LogoCopy, LogoRelease
  <2>2. /\ LogoCopy \notin done \cup {x} /\ LogoRelease \notin done \cup {x}
        /\ <<"copy", "misc">> \notin done \cup {x}
    BY <1>2, <1>4, <2>1, Script DEF Ahead, LogoCopy, LogoRelease
  <2> QED BY <2>2 DEF CopiesAreOwn, LogoIsOwn, MiscIsOwn
<1> QED BY <1>3, <1>5, <1>10, <1>11 DEF Left

-----------------------------------------------------------------------------
(* The invariant *)

Run(k) ==
    /\ todo = SubSeq(Full, k + 1, Len(Full))
    /\ Left({Full[j] : j \in 1 .. k})

ReleaseInv ==
    /\ Idle => todo = <<>>
    /\ outcome = "running" => \E k \in 0 .. Len(Full) : Run(k)
    /\ outcome = "ok" => Left(ToSet(Full))

LEMMA AtHand ==
    /\ LayTable => Head(todo) = TableCmd
    /\ ReadMapping => Head(todo) = MapCmd
    /\ PreloadTa => Head(todo) = <<"pack", "ta">>
    /\ \A p \in Payloads : (Pack(p) => Head(todo) = <<"pack", p>>)
                         /\ (Release(p) => Head(todo) = <<"release", p>>)
    /\ UnzipLogo => Head(todo) = <<"logo", "unzip">>
    /\ MoveLogo => Head(todo) = <<"logo", "move">>
    /\ SignLogo => Head(todo) = <<"logo", "sign">>
    /\ RemoveApp => Head(todo) = <<"app", "remove">>
    /\ MoveGalois => Head(todo) = <<"app", "move">>
    /\ MakeGalois => Head(todo) = <<"app", "mkdir">>
    /\ ReleaseList => Head(todo) = ListCmd
    /\ CopyFastlogo => Head(todo) = <<"copy", "fastlogo">>
    /\ CopyMisc => Head(todo) = <<"copy", "misc">>
    /\ ReleaseParts => Head(todo) = PartsCmd
    /\ Unify => Head(todo) = UnifyCmd
<1>1. /\ LayTable => Head(todo) = TableCmd
      /\ ReadMapping => Head(todo) = MapCmd
      /\ ReleaseList => Head(todo) = ListCmd
      /\ ReleaseParts => Head(todo) = PartsCmd
      /\ Unify => Head(todo) = UnifyCmd
  BY Zenon DEF LayTable, ReadMapping, ReleaseList, ReleaseParts, Unify, Command,
     TableCmd, MapCmd, ListCmd, PartsCmd, UnifyCmd
<1>2. /\ PreloadTa => Head(todo) = <<"pack", "ta">>
      /\ \A p \in Payloads : (Pack(p) => Head(todo) = <<"pack", p>>)
                           /\ (Release(p) => Head(todo) = <<"release", p>>)
  BY DEF PreloadTa, Pack, Release, Command
<1>3. /\ UnzipLogo => Head(todo) = <<"logo", "unzip">>
      /\ MoveLogo => Head(todo) = <<"logo", "move">>
      /\ SignLogo => Head(todo) = <<"logo", "sign">>
  BY DEF UnzipLogo, MoveLogo, SignLogo, Command
<1>4. /\ RemoveApp => Head(todo) = <<"app", "remove">>
      /\ MoveGalois => Head(todo) = <<"app", "move">>
      /\ MakeGalois => Head(todo) = <<"app", "mkdir">>
  BY DEF RemoveApp, MoveGalois, MakeGalois, Command
<1>5. /\ CopyFastlogo => Head(todo) = <<"copy", "fastlogo">>
      /\ CopyMisc => Head(todo) = <<"copy", "misc">>
  BY DEF CopyFastlogo, CopyMisc, Command
<1> QED BY <1>1, <1>2, <1>3, <1>4, <1>5

LEMMA LeftRuns ==
    ASSUME TypeOK, Runs, outcome = "running", outcome' = "running",
           NEW done, NEW x, x = Head(todo), Ahead(done, x), Left(done)
    PROVE  Left(done \cup {x})'
<1>0. config \in Configs
  BY DEF TypeOK
<1>1. CASE LayTable
  BY <1>1, AtHand, LaidTable
<1>2. CASE ReadMapping
  BY <1>2, AtHand, DidRead
<1>3. CASE PreloadTa
  BY <1>0, <1>3, AtHand, DidPreload
<1>4. ASSUME NEW p \in Payloads, Pack(p) PROVE Left(done \cup {x})'
  BY <1>0, <1>4, AtHand, DidPack
<1>5. ASSUME NEW p \in Payloads, Release(p) PROVE Left(done \cup {x})'
  BY <1>0, <1>5, AtHand, DidRelease
<1>6. CASE UnzipLogo \/ MoveLogo \/ SignLogo
  BY <1>0, <1>6, AtHand, DidLogo
<1>7. CASE RemoveApp \/ MoveGalois \/ MakeGalois
  BY <1>7, AtHand, DidApp
<1>8. CASE ReleaseList
  BY <1>8, AtHand, DidList
<1>9. CASE CopyFastlogo
  BY <1>0, <1>9, AtHand, DidCopyFastlogo
<1>10. CASE CopyMisc
  BY <1>0, <1>10, AtHand, DidCopyMisc
<1>11. CASE ReleaseParts
  BY <1>0, <1>11, AtHand, DidParts
<1>12. CASE Unify
  BY <1>12, AtHand, DidUnify
<1> QED
  BY <1>1, <1>2, <1>3, <1>4, <1>5, <1>6, <1>7, <1>8, <1>9, <1>10, <1>11, <1>12 DEF Runs

LEMMA LeftSame ==
    ASSUME NEW done, Left(done),
           UNCHANGED <<config, table, input, sub, logo, appdir, names, recovery, release, listed>>
    PROVE  Left(done)'
<1>1. UNCHANGED <<Judged, Boot, Options, Listed>>
  BY SameConfig DEF Listed
<1>2. \A n : ModuleOf(n)' = ModuleOf(n)
  BY <1>1 DEF ModuleOf, EmmcModule, NandModule
<1>3. ToSet(names)' = ToSet(names) /\ \A q : NamesOf(q)' = NamesOf(q)
  BY <1>2 DEF ToSet, NamesOf
<1>4. (NamesKnown(done) /\ LogoMade(done) /\ ListReleased(done))'
  BY <1>1 DEF Left, NamesKnown, LogoMade, ListReleased
<1>7. \A p : Fresh(p)' = Fresh(p)
  BY FreshStays
<1>5. IsPacked(done)'
  BY <1>1, <1>7 DEF Left, IsPacked, Content, Own
<1>8. CopiesAreOwn(done)'
  BY <1>1, <1>3 DEF Left, CopiesAreOwn, LogoIsOwn, MiscIsOwn, Own
<1>6. IsReleased(done)' /\ PartsReleased(done)'
  BY <1>1, <1>2, <1>3 DEF Left, IsReleased, PartsReleased
<1> QED BY <1>4, <1>5, <1>6, <1>8 DEF Left

LEMMA ReleaseInit == Init => ReleaseInv
BY DEF Init, ReleaseInv, Idle

LEMMA ReleaseRuns == TypeOK /\ ReleaseInv /\ Runs => ReleaseInv'
<1> SUFFICES ASSUME TypeOK, ReleaseInv, Runs PROVE ReleaseInv'
  OBVIOUS
<1>1. ~ Idle /\ UNCHANGED config /\ todo # <<>> /\ config \in Configs
  BY RunsOutcome DEF ReleaseInv, env, TypeOK
<1>2. UNCHANGED Full
  BY <1>1, SameConfig
<1>3. CASE todo' = <<>> /\ outcome' = "failed"
  BY <1>3 DEF ReleaseInv, Idle
<1>4. CASE todo' = Tail(todo) /\ UNCHANGED outcome /\ outcome # "running"
  BY <1>1, <1>4 DEF ReleaseInv, Idle
<1>5. CASE todo' = Tail(todo) /\ UNCHANGED outcome /\ outcome = "running"
  <2>1. PICK k \in 0 .. Len(Full) : Run(k)
    BY <1>5 DEF ReleaseInv
  <2>2. PICK done : done = {Full[j] : j \in 1 .. k}
    OBVIOUS
  <2>3. PICK x : x = Head(todo)
    OBVIOUS
  <2>4. todo = SubSeq(Full, k + 1, Len(Full)) /\ Left(done)
    BY <2>1, <2>2 DEF Run
  <2> HIDE DEF Full
  <2>5. /\ Ahead(done, x) /\ k + 1 \in 0 .. Len(Full)
        /\ todo' = SubSeq(Full, (k + 1) + 1, Len(Full))
        /\ done \cup {x} = {Full[j] : j \in 1 .. k + 1}
    BY <1>1, <1>5, <2>2, <2>3, <2>4, NextCommand
  <2>6. Left(done \cup {x})'
    BY <1>5, <2>3, <2>4, <2>5, LeftRuns
  <2>7. Run(k + 1)'
    <3>1. done \cup {x} = {Full'[j] : j \in 1 .. k + 1}
      BY <1>2, <2>5
    <3> QED BY <1>2, <2>5, <2>6, <3>1 DEF Run
  <2> QED BY <1>2, <1>5, <2>5, <2>7 DEF ReleaseInv, Idle
<1> QED BY <1>3, <1>4, <1>5, RunsOutcome

LEMMA ReleaseStep == TypeOK /\ ReleaseInv /\ [Next]_vars => ReleaseInv'
<1> SUFFICES ASSUME TypeOK, ReleaseInv, [Next]_vars PROVE ReleaseInv'
  OBVIOUS
<1>1. UNCHANGED config
  BY RunsOutcome DEF Next, Runs, Deliver, EditTable, Install, CleanModule, StartFull, StartPack,
     Finish, Kill, env, vars
<1>2. UNCHANGED Full /\ ToSet(Full)' = ToSet(Full)
  BY <1>1, SameConfig DEF ToSet
<1>3. Full \in Seq(Cmds)
  BY Whole
<1> HIDE DEF Full
<1>4. CASE Runs
  BY <1>4, ReleaseRuns
<1>5. CASE \/ \E i \in Changing : Deliver(i)
           \/ EditTable
           \/ \E m \in Appliances : Install(m)
  <2>1. outcome' = "none" /\ UNCHANGED todo /\ Idle
    BY <1>5 DEF Deliver, EditTable, Install
  <2> QED BY <2>1 DEF ReleaseInv, Idle
<1>6. ASSUME NEW m \in Appliances, CleanModule(m) PROVE ReleaseInv'
  <2>1. /\ Idle /\ UNCHANGED <<outcome, todo, config, table, input, sub, logo, names, recovery>>
        /\ UNCHANGED <<appdir, release, listed>>
    BY <1>6 DEF CleanModule, shell, disk
  <2>2. outcome = "ok" => Left(ToSet(Full))'
    <3>1. PICK done : done = ToSet(Full)
      OBVIOUS
    <3>2. outcome = "ok" => Left(done)'
      BY <2>1, <3>1, LeftSame DEF ReleaseInv
    <3> QED BY <1>2, <3>1, <3>2
  <2> QED BY <2>1, <2>2 DEF ReleaseInv, Idle
<1>7. CASE StartFull
  <2>1. todo' = Full /\ outcome' = "running"
    BY <1>7 DEF StartFull
  <2>2. SubSeq(Full, 0 + 1, Len(Full)) = Full /\ 0 \in 0 .. Len(Full)
    BY <1>3
  <2>3. Left({})'
    BY DEF Left, NamesKnown, IsPacked, LogoMade, IsReleased, PartsReleased, ListReleased,
       CopiesAreOwn, LogoIsOwn, MiscIsOwn
  <2>4. {Full'[j] : j \in 1 .. 0} = {}
    OBVIOUS
  <2>5. Run(0)'
    BY <1>2, <2>1, <2>2, <2>3, <2>4 DEF Run
  <2> QED BY <1>2, <2>1, <2>2, <2>5 DEF ReleaseInv, Idle
<1>8. ASSUME NEW y \in Packs, StartPack(y) PROVE ReleaseInv'
  BY <1>8 DEF StartPack, ReleaseInv, Idle
<1>9. CASE Finish
  <2>1. /\ UNCHANGED <<todo, config, table, input, sub, logo, appdir, names, recovery>>
        /\ UNCHANGED <<release, listed>>
        /\ todo = <<>> /\ outcome' = IF outcome = "running" THEN "ok" ELSE "packed"
    BY <1>9 DEF Finish, disk, env
  <2>2. ASSUME outcome = "running" PROVE Left(ToSet(Full))'
    <3>1. PICK k \in 0 .. Len(Full) : Run(k)
      BY <2>2 DEF ReleaseInv
    <3>2. k = Len(Full)
      BY <1>3, <2>1, <3>1, Rest DEF Run
    <3>3. ToSet(Full) = {Full[j] : j \in 1 .. k}
      BY <1>3, <3>2 DEF ToSet
    <3>4. PICK done : done = ToSet(Full)
      OBVIOUS
    <3>5. Left(done)
      BY <3>1, <3>3, <3>4 DEF Run
    <3>6. Left(done)'
      BY <2>1, <3>5, LeftSame
    <3> QED BY <1>2, <3>4, <3>6
  <2> QED BY <2>1, <2>2 DEF ReleaseInv, Idle
<1>10. CASE Kill
  <2>1. outcome' = "failed" /\ todo' = <<>>
    BY <1>10 DEF Kill
  <2> QED BY <2>1 DEF ReleaseInv, Idle
<1>11. CASE UNCHANGED vars
  <2>1. /\ UNCHANGED <<outcome, todo, config, table, input, sub, logo, names, recovery>>
        /\ UNCHANGED <<appdir, release, listed>>
    BY <1>11 DEF vars, shell, disk
  <2>2. \A done : Left(done) => Left(done)'
    BY <2>1, LeftSame
  <2>3. outcome = "ok" => Left(ToSet(Full))'
    <3>1. PICK done : done = ToSet(Full)
      OBVIOUS
    <3> QED BY <1>2, <2>1, <2>2, <3>1 DEF ReleaseInv
  <2>4. \A k : Run(k) => Run(k)'
    <3>1. ASSUME NEW k, Run(k) PROVE Run(k)'
      <4>1. PICK done : done = {Full[j] : j \in 1 .. k}
        OBVIOUS
      <4>2. done = {Full'[j] : j \in 1 .. k}
        BY <1>2, <4>1
      <4> QED BY <1>2, <2>1, <2>2, <3>1, <4>1, <4>2 DEF Run
    <3> QED BY <3>1
  <2> QED BY <1>2, <2>1, <2>3, <2>4 DEF ReleaseInv, Idle
<1> QED
  BY <1>4, <1>5, <1>6, <1>7, <1>8, <1>9, <1>10, <1>11 DEF Next, Runs

LEMMA OneAndNone == \A a : <<a>> \o <<>> = <<a>>
<1> SUFFICES ASSUME NEW a PROVE <<a>> \o <<>> = <<a>>
  OBVIOUS
<1>1. <<a>> \in Seq({a})
  OBVIOUS
<1> QED BY <1>1

(* What the whole script leaves of a payload is what the payload is made of. *)
LEMMA ContentIsCurrent ==
    ASSUME TypeOK, names = listed, NEW p \in Judged
    PROVE  Content(ToSet(Full), p) = Current(p)
<1> DEFINE F == ToSet(Full)
<1>1. config \in Configs /\ p \in Payloads /\ p # "tee_recovery"
  BY JudgedIs DEF TypeOK
<1>2. <<"pack", "ta">> \in F <=> "preload_ta" \in Options
  BY <1>1, Script
<1> HIDE DEF F
<1>3. CASE p = "bootloader"
  <2>1. Current(p) = <<Own(p)>> \o (IF "preload_ta" \in Options THEN <<Own("ta")>> ELSE <<>>)
    BY <1>3 DEF Current, Own, On
  <2>2. CASE "preload_ta" \in Options
    <3>1. Content(F, p) = <<Own(p), Own("ta")>>
      BY <1>2, <1>3, <2>2 DEF Content
    <3> QED BY <2>1, <2>2, <3>1, Pieces DEF F
  <2>3. CASE "preload_ta" \notin Options
    <3>1. Content(F, p) = <<Own(p)>>
      BY <1>2, <1>3, <2>3 DEF Content, Fresh, Parts, Own
    <3> QED BY <2>1, <2>3, <3>1, OneAndNone DEF F
  <2> QED BY <2>2, <2>3
<1>4. CASE p = "preboot"
  <2> DEFINE v == <<"version_table", listed>>
  <2>1. Current(p) = <<Own(p)>> \o (IF Boot = "nand" THEN <<v>> ELSE <<>>)
    BY <1>4 DEF Current, Own
  <2>2. Content(F, p) = IF Boot = "nand" THEN <<Own(p), v>> ELSE <<Own(p)>>
    BY <1>4 DEF Content, Fresh, Parts, Own
  <2> HIDE DEF v
  <2>3. CASE Boot = "nand"
    <3>1. <<Own(p), v>> = <<Own(p)>> \o <<v>>
      BY Pieces
    <3> QED BY <2>1, <2>2, <2>3, <3>1 DEF F
  <2>4. CASE Boot # "nand"
    <3>1. <<Own(p)>> = <<Own(p)>> \o <<>>
      BY OneAndNone
    <3> QED BY <2>1, <2>2, <2>4, <3>1 DEF F
  <2> QED BY <2>3, <2>4
<1>5. CASE p = "key"
  <2> DEFINE z == <<"zeros", 0>>
             o == <<"oem", input["key"]>>
             v == On("android", <<<<"avb", input["key"]>>>>)
  <2>1. Content(F, p) = (IF "genx" \in Options THEN <<z>> ELSE <<o>>) \o v
    BY <1>5 DEF Content, Fresh, Parts
  <2>2. Current(p) = <<IF "genx" \in Options THEN z ELSE o>> \o v
    BY <1>5 DEF Current
  <2> HIDE DEF z, o, v
  <2>3. CASE "genx" \in Options
    <3>1. Content(F, p) = <<z>> \o v /\ Current(p) = <<z>> \o v
      BY <2>1, <2>2, <2>3
    <3> QED BY <3>1 DEF F
  <2>4. CASE "genx" \notin Options
    <3>1. Content(F, p) = <<o>> \o v /\ Current(p) = <<o>> \o v
      BY <2>1, <2>2, <2>4
    <3> QED BY <3>1 DEF F
  <2> QED BY <2>3, <2>4
<1>6. CASE p \notin {"bootloader", "preboot", "key"}
  <2>1. Content(F, p) = Fresh(p)
    BY <1>6 DEF Content
  <2>2. Fresh(p) = Current(p)
    BY <1>6 DEF Fresh, Parts, Current, Own
  <2> QED BY <2>1, <2>2 DEF F
<1> QED BY <1>3, <1>4, <1>5, <1>6

(* A fastlogo is listed only where it is copied and released. *)
LEMMA LogoListed ==
    ASSUME LogoReleased, TypeOK, Boot = "emmc", names = Listed,
           NEW n \in ToSet(names), ModuleOf(n) = "fastlogo", "genx" \in Options
    PROVE  "fastlogo" \in Options
<1> SUFFICES ASSUME "fastlogo" \notin Options PROVE FALSE
  OBVIOUS
<1>1. config \in Configs /\ table \in Tables
  BY DEF TypeOK
<1>2. n \in {"fastlogo", "fastlogoB"}
  <2>1. EmmcModule(n) = "fastlogo" /\ recovery # "fastlogo"
    BY DEF ModuleOf, TypeOK
  <2>2. Absent # "fastlogo"
    BY ConfigAssumption DEF Payloads
  <2> QED BY <2>1, <2>2 DEF EmmcModule
<1>3. PICK i \in DOMAIN Listed : Listed[i] = n
  BY DEF ToSet
<1>4. i \in DOMAIN table /\ table[i].base = n
  BY <1>3 DEF Listed
<1> QED BY <1>1, <1>2, <1>4 DEF LogoReleased, Boot, Options, Tables

(* Of the whole script the release is left. *)
LEMMA LeftIsCurrent ==
    ASSUME LogoReleased, TypeOK, Left(ToSet(Full)),
           NEW n \in ToSet(listed), NEW p, p = ModuleOf(n), p \in Delivered \ {"tee_recovery"},
           p = "fastlogo" => input["fastlogo"] # Absent
    PROVE  release[n] = Current(p)
<1> DEFINE F == ToSet(Full)
<1>1. config \in Configs /\ table \in Tables
  BY DEF TypeOK
<1>2. names = Listed /\ listed = names
  BY <1>1, Script DEF Left, NamesKnown, ListReleased
<1>3. n \in ToSet(names) /\ n \in NamesOf(p)
  BY <1>2 DEF NamesOf
<1>4. CASE p \in Judged
  <2>1. p \in Payloads /\ <<"pack", p>> \in F
    BY <1>4, JudgedIs
  <2>2. sub[p] = Current(p)
    <3>1. IsPacked(F)
      BY DEF Left
    <3>2. sub[p] = Content(F, p)
      <4> HIDE DEF F
      <4> QED BY <1>4, <2>1, <3>1 DEF IsPacked
    <3> QED BY <1>2, <1>4, <3>2, ContentIsCurrent
  <2>3. CASE Boot = "emmc"
    <3>1. <<"release", p>> \in F
      <4>1. CASE p = "fastlogo"
        <5>1. "genx" \in Options
          BY <1>1, <2>1, <4>1, Script
        <5>2. "fastlogo" \in Options
          BY <1>2, <1>3, <2>3, <4>1, <5>1, LogoListed
        <5> QED BY <1>1, <2>3, <4>1, <5>2, Script DEF LogoRelease
      <4>2. CASE p # "fastlogo"
        BY <1>1, <2>1, <2>3, <4>2, Script
      <4> QED BY <4>1, <4>2
    <3>2. IsReleased(F)
      BY DEF Left
    <3>3. release[n] = sub[p]
      <4> HIDE DEF F
      <4> QED BY <1>3, <1>4, <3>1, <3>2 DEF IsReleased
    <3> QED BY <2>2, <3>3
  <2>4. CASE Boot # "emmc"
    <3>1. PartsCmd \in F /\ PartsReleased(F)
      BY <1>1, <2>4, Script DEF Left
    <3>2. release[n] = sub[p]
      BY <1>3, <3>1 DEF PartsReleased
    <3> QED BY <2>2, <3>2
  <2> QED BY <2>3, <2>4
<1>5. CASE p \notin Judged
  <2>1. p = "fastlogo" /\ Boot = "emmc" /\ "fastlogo" \in Options
    BY <1>5 DEF Delivered, Judged
  <2>2. "genx" \notin Options
    <3>1. ASSUME "genx" \in Options PROVE FALSE
      <4>1. <<"pack", "fastlogo">> \in F
        BY <1>1, <2>1, <3>1, Script
      <4>2. \E i \in DOMAIN Full : Full[i] = <<"pack", "fastlogo">>
        <5> HIDE DEF Full
        <5> QED BY <4>1 DEF ToSet
      <4>3. "fastlogo" \in Packed
        <5> HIDE DEF Full
        <5> QED BY <4>2 DEF Packed, Payloads
      <4> QED BY <1>5, <2>1, <4>3 DEF Judged
    <3> QED BY <3>1
  <2>3. LogoRelease \in F /\ LogoIsOwn(F)
    BY <1>1, <2>1, Script DEF Left, CopiesAreOwn
  <2>4. release[n] = <<Own("fastlogo")>>
    <3> HIDE DEF F
    <3> QED BY <1>3, <2>1, <2>2, <2>3 DEF LogoIsOwn
  <2> QED BY <2>1, <2>4 DEF Current, Own
<1> QED BY <1>4, <1>5

LEMMA InvIsCurrent ==
    ASSUME LogoReleased
    PROVE  TypeOK /\ ReleaseInv => ReleaseIsCurrent
<1> SUFFICES ASSUME TypeOK, ReleaseInv, outcome = "ok" PROVE ReleaseIsCurrent
  BY DEF ReleaseIsCurrent
<1>1. Left(ToSet(Full)) /\ config \in Configs
  BY DEF ReleaseInv, TypeOK
<1>2. listed = Listed
  BY <1>1, Script DEF Left, NamesKnown, ListReleased
<1>3. ASSUME NEW n \in ToSet(listed), NEW p, p = ModuleOf(n),
             p \in Delivered \ {"tee_recovery"}, p = "fastlogo" => input["fastlogo"] # Absent
      PROVE  release[n] = Current(p)
  BY <1>1, <1>3, LeftIsCurrent
<1>4. Boot = "emmc" /\ "ab" \in Options /\ input["misc"] # Absent =>
        release["misc"] = <<<<"misc", input["misc"]>>>>
  BY <1>1, Script DEF Left, CopiesAreOwn, MiscIsOwn, Own
<1> QED BY <1>2, <1>3, <1>4 DEF ReleaseIsCurrent, Listed

(* After a full run the list is the present table's, and every partition on it
   whose payload the configuration delivers, key, rootfs and app among them,
   holds what that payload is made of now: whole, from the present inputs and
   options, the bootloader with the TAs behind it once.  The same goes for misc,
   which is copied without a look at the table (emmc/packaging.bashrc,
   nand/packaging.bashrc).  That is so whatever earlier full and single runs
   left in the two directories, those that failed or were killed included.
   Not told: the recovery TEE, a fastlogo or a misc that the product withdrew,
   names that stand for no delivered payload, and what lies in out/app, from
   which app is packed.  The product lists no fastlogo that it has not released. *)
THEOREM ReleaseIsFresh ==
    ASSUME LogoReleased
    PROVE  Spec => []ReleaseIsCurrent
<1>1. TypeOK /\ ReleaseInv => ReleaseIsCurrent
  BY InvIsCurrent
<1> QED BY <1>1, ReleaseInit, ReleaseStep, TypeInit, TypeStep, PTL DEF Spec

-----------------------------------------------------------------------------
(* Why a full run fails.  Beside what its commands have left, a run that is
   not killed keeps the commands together that leave something half done.   *)

LEMMA ChainAlone ==
    ASSUME NEW x \in Payloads \cup {"ta"}
    PROVE  Single(x) \in Seq(Cmds) /\ Chain(Single(x))
<1>1. ASSUME NEW ps \in Seq(Payloads \cup {"ta"})
      PROVE  Steps("pack", ps) \in Seq(Cmds) /\ Chain(Steps("pack", ps))
  <2>1. "pack" \in Words /\ ps \in Seq(Words)
    BY InWords
  <2>2. Steps("pack", ps) \in Seq(Cmds) /\ ToSet(Steps("pack", ps)) = {"pack"} \X ToSet(ps)
    BY <2>1, ToSetOfSteps
  <2>3. \A y \in ToSet(Steps("pack", ps)) : y[1] = "pack"
    BY <2>2
  <2>4. LogoUnzip[1] = "logo" /\ AppMove[1] = "app"
    BY DEF LogoUnzip, AppMove
  <2>5. \A i \in DOMAIN Steps("pack", ps) : Steps("pack", ps)[i][1] = "pack"
    BY <2>3, InSet
  <2> QED BY <2>2, <2>3, <2>4, <2>5 DEF Chain, Follows
<1> DEFINE T == IF Boot = "nand" THEN <<TableCmd>> ELSE <<>>
           R == CASE x = "tee" -> Steps("pack", <<"tee", "tee_recovery">>)
                  [] x = "fastlogo" -> IF "genx" \in Options THEN LogoSteps
                                       ELSE Steps("pack", <<"fastlogo">>)
                  [] x = "system" -> FsSteps
                  [] OTHER -> Steps("pack", <<x>>)
<1>2. Single(x) = T \o R
  BY Zenon DEF Single, TableCmd
<1>3. T \in Seq(Cmds) /\ Chain(T)
  BY NeatBare, NeatEmpty DEF Neat
<1>4. R \in Seq(Cmds) /\ Chain(R)
  <2>1. /\ <<"tee", "tee_recovery">> \in Seq(Payloads \cup {"ta"})
        /\ <<x>> \in Seq(Payloads \cup {"ta"}) /\ <<"fastlogo">> \in Seq(Payloads \cup {"ta"})
    BY DEF Payloads
  <2>2. FsSteps \in Seq(Cmds) /\ Chain(FsSteps)
    BY NeatFs DEF Neat
  <2>3. "genx" \in Options => LogoSteps \in Seq(Cmds) /\ Chain(LogoSteps)
    BY NeatLogo DEF Neat
  <2>4. /\ Steps("pack", <<"tee", "tee_recovery">>) \in Seq(Cmds)
        /\ Chain(Steps("pack", <<"tee", "tee_recovery">>))
        /\ Steps("pack", <<x>>) \in Seq(Cmds) /\ Chain(Steps("pack", <<x>>))
        /\ Steps("pack", <<"fastlogo">>) \in Seq(Cmds) /\ Chain(Steps("pack", <<"fastlogo">>))
    BY <1>1, <2>1
  <2> QED BY <2>2, <2>3, <2>4
<1> HIDE DEF T, R
<1> QED BY <1>2, <1>3, <1>4, ChainJoined

-----------------------------------------------------------------------------
(* The rest of a script *)

LEMMA TailOf ==
    ASSUME NEW f \in Seq(Cmds), f # <<>>
    PROVE  /\ Tail(f) \in Seq(Cmds) /\ Head(f) = f[1] /\ Len(f) \in Nat /\ Len(f) >= 1
           /\ DOMAIN f = 1 .. Len(f) /\ DOMAIN Tail(f) = 1 .. Len(f) - 1
           /\ \A i \in 1 .. Len(f) - 1 : Tail(f)[i] = f[i + 1]
           /\ ToSet(f) = {Head(f)} \cup ToSet(Tail(f))
<1>1. /\ Tail(f) \in Seq(Cmds) /\ Head(f) = f[1] /\ Len(f) \in Nat /\ Len(f) >= 1
      /\ DOMAIN f = 1 .. Len(f) /\ DOMAIN Tail(f) = 1 .. Len(f) - 1
      /\ \A i \in 1 .. Len(f) - 1 : Tail(f)[i] = f[i + 1]
  OBVIOUS
<1> DEFINE t == Tail(f)
           n == Len(f)
<1> HIDE DEF t, n
<1>2. ASSUME NEW x \in ToSet(f) PROVE x = f[1] \/ x \in ToSet(t)
  <2>1. PICK i \in 1 .. n : f[i] = x
    BY <1>1 DEF ToSet, n
  <2>2. CASE i # 1
    <3>1. i - 1 \in 1 .. n - 1 /\ (i - 1) + 1 = i
      BY <1>1, <2>1, <2>2 DEF n
    <3>2. t[i - 1] = x /\ i - 1 \in DOMAIN t
      BY <1>1, <2>1, <3>1 DEF t, n
    <3> QED BY <3>2 DEF ToSet
  <2> QED BY <2>1, <2>2
<1>3. ASSUME NEW x \in ToSet(t) PROVE x \in ToSet(f)
  <2>1. PICK i \in 1 .. n - 1 : t[i] = x
    BY <1>1 DEF ToSet, t, n
  <2>2. i + 1 \in 1 .. n /\ f[i + 1] = x
    BY <1>1, <2>1 DEF t, n
  <2> QED BY <1>1, <2>2 DEF ToSet, n
<1>4. f[1] \in ToSet(f)
  BY <1>1 DEF ToSet
<1> QED BY <1>1, <1>2, <1>3, <1>4 DEF t

LEMMA FollowsTail ==
    ASSUME NEW f \in Seq(Cmds), f # <<>>
    PROVE  \A a, b : Follows(f, a, b) => /\ Follows(Tail(f), a, b)
                                         /\ Head(f) = a => Tail(f) # <<>> /\ Head(Tail(f)) = b
<1> SUFFICES ASSUME NEW a, NEW b, Follows(f, a, b)
             PROVE  /\ Follows(Tail(f), a, b)
                    /\ Head(f) = a => Tail(f) # <<>> /\ Head(Tail(f)) = b
  OBVIOUS
<1> DEFINE t == Tail(f)
           n == Len(f)
<1>1. /\ t \in Seq(Cmds) /\ Head(f) = f[1] /\ n \in Nat /\ n >= 1
      /\ DOMAIN f = 1 .. n /\ DOMAIN t = 1 .. n - 1
      /\ \A i \in 1 .. n - 1 : t[i] = f[i + 1]
  BY TailOf
<1> HIDE DEF t, n
<1>2. ASSUME NEW i \in DOMAIN t, t[i] = a PROVE i + 1 \in DOMAIN t /\ t[i + 1] = b
  <2>1. i \in 1 .. n - 1 /\ i + 1 \in 1 .. n /\ f[i + 1] = a
    BY <1>1, <1>2
  <2>2. (i + 1) + 1 \in 1 .. n /\ f[(i + 1) + 1] = b
    BY <1>1, <2>1 DEF Follows
  <2>3. i + 1 \in 1 .. n - 1
    BY <1>1, <2>1, <2>2
  <2> QED BY <1>1, <2>2, <2>3
<1>3. ASSUME Head(f) = a PROVE t # <<>> /\ Head(t) = b
  <2>1. 1 \in 1 .. n /\ f[1] = a
    BY <1>1, <1>3
  <2>2. 1 + 1 \in 1 .. n /\ f[1 + 1] = b
    BY <1>1, <2>1 DEF Follows
  <2>3. 1 \in 1 .. n - 1
    BY <1>1, <2>2
  <2>4. t # <<>> /\ t[1] = b
    <3>1. 1 \in DOMAIN t /\ t[1] = f[1 + 1]
      BY <1>1, <2>3
    <3> QED BY <2>2, <3>1
  <2> QED BY <1>1, <2>4
<1> QED BY <1>2, <1>3 DEF Follows, t

LEMMA BehindTail ==
    ASSUME NEW f \in Seq(Cmds), f # <<>>
    PROVE  \A a, b : Behind(f, a, b) => /\ Behind(Tail(f), a, b)
                                        /\ Tail(f) # <<>> /\ Head(Tail(f)) = b => Head(f) = a
<1> SUFFICES ASSUME NEW a, NEW b, Behind(f, a, b)
             PROVE  /\ Behind(Tail(f), a, b)
                    /\ Tail(f) # <<>> /\ Head(Tail(f)) = b => Head(f) = a
  OBVIOUS
<1> DEFINE t == Tail(f)
           n == Len(f)
<1>1. /\ t \in Seq(Cmds) /\ Head(f) = f[1] /\ n \in Nat /\ n >= 1
      /\ DOMAIN f = 1 .. n /\ DOMAIN t = 1 .. n - 1
      /\ \A i \in 1 .. n - 1 : t[i] = f[i + 1]
  BY TailOf
<1> HIDE DEF t, n
<1>2. ASSUME NEW i \in DOMAIN t, t[i] = b, i > 1 PROVE t[i - 1] = a
  <2>1. /\ i \in 1 .. n - 1 /\ i + 1 \in 1 .. n /\ f[i + 1] = b /\ i + 1 > 1
        /\ (i + 1) - 1 = i /\ i - 1 \in 1 .. n - 1 /\ (i - 1) + 1 = i
    BY <1>1, <1>2
  <2>2. f[(i + 1) - 1] = a
    BY <1>1, <2>1 DEF Behind
  <2> QED BY <1>1, <2>1, <2>2
<1>3. ASSUME t # <<>>, Head(t) = b PROVE Head(f) = a
  <2>1. t[1] = b /\ 1 \in 1 .. n - 1
    BY <1>1, <1>3
  <2>2. 1 + 1 \in 1 .. n /\ f[1 + 1] = b /\ 1 + 1 > 1 /\ (1 + 1) - 1 = 1
    BY <1>1, <2>1
  <2>3. f[(1 + 1) - 1] = a
    BY <1>1, <2>2 DEF Behind
  <2> QED BY <1>1, <2>2, <2>3
<1> QED BY <1>2, <1>3 DEF Behind, t

LEMMA ChainTail ==
    ASSUME NEW f \in Seq(Cmds), f # <<>>, Chain(f)
    PROVE  Chain(Tail(f)) /\ (Head(f)[1] = "logo" => "genx" \in Options)
<1>1. ToSet(f) = {Head(f)} \cup ToSet(Tail(f))
  BY TailOf
<1> QED BY <1>1, FollowsTail DEF Chain

LEMMA OrderTail ==
    ASSUME NEW f \in Seq(Cmds), f # <<>>, Order(f)
    PROVE  Order(Tail(f))
BY BehindTail DEF Order

-----------------------------------------------------------------------------
(* What a run may count on that nobody killed before *)

Comes(x) == todo # <<>> /\ Head(todo) = x

(* Only between unzip and move there is an unpacked logo, and only between
   mv and mkdir no home/galois.                                            *)
LogoMoved == logo["plain"] = Absent \/ (Comes(LogoMove) /\ input["fastlogo"] # Absent)
GaloisThere == galois # Absent \/ Comes(AppMkdir)

(* In a full run: app is packed after it was made, a fastlogo released after
   it was copied, and what is no more to be packed lies there.               *)
AppThere == Comes(AppMkdir) \/ Comes(PackRootfs) \/ Comes(PackApp) => appdir # Absent
LogoCopied == Comes(LogoRelease) /\ "genx" \notin Options /\ input["fastlogo"] # Absent =>
                 sub["fastlogo"] # Absent
PacksThere == \A p \in Payloads \ {"tee_recovery"} : <<"pack", p>> \in ToSet(Full) =>
                 <<"pack", p>> \in ToSet(todo) \/ sub[p] # Absent

FailureInv ==
    /\ todo \in Seq(Cmds) /\ Chain(todo)
    /\ "genx" \notin Options => logo["en"] = Absent
    /\ kills = 0 => LogoMoved /\ GaloisThere
    /\ recovery = "tee_recovery" => sub["tee_recovery"] # Absent
    /\ outcome = "running" => Order(todo) /\ AppThere /\ LogoCopied /\ PacksThere

LEMMA EmptyScript == <<>> \in Seq(Cmds) /\ Chain(<<>>)
BY NeatEmpty DEF Neat

LEMMA FailureInit == Init => FailureInv
<1> SUFFICES ASSUME Init PROVE FailureInv
  OBVIOUS
<1>1. /\ todo = <<>> /\ outcome = "none" /\ recovery = "tee" /\ galois = {}
      /\ logo["en"] = Absent /\ logo["plain"] = Absent
  BY DEF Init
<1>2. galois # Absent
  <2>1. PICK c \in Configs : c = config
    BY DEF Init
  <2> QED BY <1>1, ConfigAssumption
<1> QED BY <1>1, <1>2, EmptyScript DEF FailureInv, LogoMoved, GaloisThere

(* What the commands leave alone *)
LEMMA LogoKept ==
    ASSUME Runs
    PROVE  UnzipLogo \/ MoveLogo \/ SignLogo \/ UNCHANGED logo
BY DEF Runs, LayTable, ReadMapping, PreloadTa, Pack, Release, UnzipLogo, MoveLogo, SignLogo,
   RemoveApp, MoveGalois, MakeGalois, ReleaseList, CopyFastlogo, CopyMisc, ReleaseParts, Unify, disk

LEMMA AppKept ==
    ASSUME Runs
    PROVE  RemoveApp \/ MoveGalois \/ MakeGalois \/ UNCHANGED <<galois, appdir>>
BY DEF Runs, LayTable, ReadMapping, PreloadTa, Pack, Release, UnzipLogo, MoveLogo, SignLogo,
   RemoveApp, MoveGalois, MakeGalois, ReleaseList, CopyFastlogo, CopyMisc, ReleaseParts, Unify, disk

(* The command at hand is the one that runs. *)
LEMMA LogoAtHand ==
    ASSUME Runs
    PROVE  /\ (Head(todo) = LogoUnzip => UnzipLogo) /\ (UnzipLogo => Head(todo) = LogoUnzip)
           /\ (Head(todo) = LogoMove => MoveLogo) /\ (MoveLogo => Head(todo) = LogoMove)
           /\ (SignLogo => Head(todo)[1] = "logo" /\ Head(todo) # LogoMove)
           /\ (Head(todo) = AppMove => MoveGalois) /\ (MoveGalois => Head(todo) = AppMove)
           /\ (Head(todo) = AppMkdir => MakeGalois) /\ (MakeGalois => Head(todo) = AppMkdir)
           /\ (RemoveApp => Head(todo) = <<"app", "remove">>)
           /\ (Head(todo) = LogoCopy => CopyFastlogo)
           /\ \A p \in Payloads : Head(todo) = <<"pack", p>> => Pack(p)
<1> DEFINE h == Head(todo)
<1>1. \/ LayTable \/ ReadMapping \/ PreloadTa
      \/ \E p \in Payloads : Pack(p) \/ Release(p)
      \/ UnzipLogo \/ MoveLogo \/ SignLogo
      \/ RemoveApp \/ MoveGalois \/ MakeGalois
      \/ ReleaseList \/ CopyFastlogo \/ CopyMisc \/ ReleaseParts \/ Unify
  BY DEF Runs
<1>2. /\ (LayTable => h[1] = "table") /\ (ReadMapping => h[1] = "map")
      /\ (ReleaseList => h[1] = "list") /\ (ReleaseParts => h[1] = "parts")
      /\ (Unify => h[1] = "unify")
  BY AtHand, Kind
<1>3. /\ PreloadTa => h = <<"pack", "ta">>
      /\ \A p \in Payloads : (Pack(p) => h = <<"pack", p>>) /\ (Release(p) => h = <<"release", p>>)
      /\ UnzipLogo => h = LogoUnzip
      /\ MoveLogo => h = LogoMove
      /\ SignLogo => h = <<"logo", "sign">>
      /\ RemoveApp => h = <<"app", "remove">>
      /\ MoveGalois => h = AppMove
      /\ MakeGalois => h = AppMkdir
      /\ CopyFastlogo => h = LogoCopy
      /\ CopyMisc => h = <<"copy", "misc">>
  BY AtHand DEF LogoUnzip, LogoMove, AppMove, AppMkdir, LogoCopy
<1> HIDE DEF h
<1>4. /\ SignLogo => h[1] = "logo" /\ h # LogoMove
      /\ UnzipLogo => h = LogoUnzip
      /\ MoveLogo => h = LogoMove
      /\ RemoveApp => h = <<"app", "remove">>
      /\ MoveGalois => h = AppMove
      /\ MakeGalois => h = AppMkdir
  BY <1>3 DEF LogoMove
<1>5. h = LogoUnzip => UnzipLogo
  BY <1>1, <1>2, <1>3 DEF LogoUnzip, LogoMove, AppMove, AppMkdir, LogoCopy
<1>6. h = LogoMove => MoveLogo
  BY <1>1, <1>2, <1>3 DEF LogoUnzip, LogoMove, AppMove, AppMkdir, LogoCopy
<1>7. h = AppMove => MoveGalois
  BY <1>1, <1>2, <1>3 DEF LogoUnzip, LogoMove, AppMove, AppMkdir, LogoCopy
<1>8. h = AppMkdir => MakeGalois
  BY <1>1, <1>2, <1>3 DEF LogoUnzip, LogoMove, AppMove, AppMkdir, LogoCopy
<1>9. h = LogoCopy => CopyFastlogo
  BY <1>1, <1>2, <1>3 DEF LogoUnzip, LogoMove, AppMove, AppMkdir, LogoCopy
<1>10. ASSUME NEW p \in Payloads, h = <<"pack", p>> PROVE Pack(p)
  <2>1. p # "ta"
    BY DEF Payloads
  <2> QED BY <1>1, <1>2, <1>3, <1>10, <2>1 DEF LogoUnzip, LogoMove, AppMove, AppMkdir, LogoCopy
<1> QED BY <1>4, <1>5, <1>6, <1>7, <1>8, <1>9, <1>10 DEF h

(* Of a command that ran to its end *)
LEMMA LogoGoes ==
    ASSUME TypeOK, FailureInv, Runs, todo # <<>>, todo' = Tail(todo)
    PROVE  /\ "genx" \notin Options => logo'["en"] = Absent
           /\ LogoMoved => LogoMoved'
<1>1. Chain(Tail(todo)) /\ (Head(todo)[1] = "logo" => "genx" \in Options)
  BY ChainTail DEF FailureInv
<1>2. logo \in [{"plain", "payload", "en"} -> (0 .. MaxVersion) \cup {Absent}]
      /\ UNCHANGED input
  BY RunsOutcome DEF TypeOK, env
<1>3. LogoUnzip[1] = "logo" /\ LogoMove[1] = "logo"
  BY DEF LogoUnzip, LogoMove
<1>4. CASE UnzipLogo
  <2>1. Head(todo) = LogoUnzip /\ LogoUnzip # LogoMove
    BY <1>4, LogoAtHand DEF LogoUnzip, LogoMove
  <2>2. todo' # <<>> /\ Head(todo') = LogoMove
    BY <2>1, FollowsTail DEF FailureInv, Chain
  <2>3. LogoMoved => LogoMoved'
    BY <1>2, <1>4, <2>1, <2>2 DEF UnzipLogo, LogoMoved, Comes
  <2> QED BY <1>1, <1>3, <2>1, <2>3
<1>5. CASE MoveLogo
  <2>1. Head(todo) = LogoMove
    BY <1>5, LogoAtHand
  <2>2. LogoMoved => LogoMoved'
    BY <1>2, <1>5, <2>1 DEF MoveLogo, LogoMoved, Comes
  <2> QED BY <1>1, <1>3, <2>1, <2>2
<1>6. CASE SignLogo
  <2>1. Head(todo)[1] = "logo" /\ Head(todo) # LogoMove
    BY <1>6, LogoAtHand
  <2>2. LogoMoved => LogoMoved'
    BY <1>2, <1>6, <2>1 DEF SignLogo, LogoMoved, Comes
  <2> QED BY <1>1, <2>1, <2>2
<1>7. CASE UNCHANGED logo /\ ~ MoveLogo
  <2>1. Head(todo) # LogoMove
    BY <1>7, LogoAtHand
  <2> QED BY <1>2, <1>7, <2>1 DEF LogoMoved, Comes, FailureInv
<1> QED BY <1>4, <1>5, <1>6, <1>7, LogoKept

LEMMA AppGoes ==
    ASSUME TypeOK, FailureInv, Runs, todo # <<>>, todo' = Tail(todo)
    PROVE  /\ GaloisThere => GaloisThere'
           /\ Order(todo) /\ AppThere => AppThere'
<1>0. Absent # {} /\ todo \in Seq(Cmds)
  BY ConfigAssumption DEF TypeOK, FailureInv
<1>1. GaloisThere => GaloisThere'
  <2>1. CASE MoveGalois
    <3>1. Head(todo) = AppMove
      BY <2>1, LogoAtHand
    <3>2. todo' # <<>> /\ Head(todo') = AppMkdir
      BY <3>1, FollowsTail DEF FailureInv, Chain
    <3> QED BY <3>2 DEF GaloisThere, Comes
  <2>2. CASE MakeGalois
    BY <1>0, <2>2 DEF MakeGalois, GaloisThere
  <2>3. CASE UNCHANGED galois /\ ~ MakeGalois
    <3>1. Head(todo) # AppMkdir
      BY <2>3, LogoAtHand
    <3> QED BY <2>3, <3>1 DEF GaloisThere, Comes
  <2>4. RemoveApp => UNCHANGED galois
    BY DEF RemoveApp
  <2> QED BY <2>1, <2>2, <2>3, <2>4, AppKept
<1>2. ASSUME Order(todo), AppThere PROVE AppThere'
  <2>1. /\ Comes(AppMkdir)' => Head(todo) = AppMove
        /\ Comes(PackRootfs)' => Head(todo) = AppMkdir
        /\ Comes(PackApp)' => Head(todo) = PackRootfs
    BY <1>0, <1>2, BehindTail DEF Order, Comes
  <2>2. Head(todo) = AppMove => appdir' # Absent
    <3>1. ASSUME MoveGalois PROVE appdir' # Absent
      <4>1. CASE galois = Absent
        <5>1. todo' = <<>>
          BY <3>1, <4>1 DEF MoveGalois, Abort
        <5>2. todo' # <<>>
          <6>1. Head(todo) = AppMove
            BY <3>1, LogoAtHand
          <6> QED BY <6>1, FollowsTail DEF FailureInv, Chain
        <5> QED BY <5>1, <5>2
      <4>2. CASE galois # Absent
        BY <3>1, <4>2 DEF MoveGalois
      <4> QED BY <4>1, <4>2
    <3> QED BY <3>1, LogoAtHand
  <2>3. Head(todo) = AppMkdir \/ Head(todo) = PackRootfs => appdir # Absent /\ UNCHANGED appdir
    <3>1. Head(todo) = AppMkdir => UNCHANGED appdir
      BY LogoAtHand DEF MakeGalois
    <3>2. Head(todo) = PackRootfs => UNCHANGED appdir
      <4>1. Head(todo) = PackRootfs => Pack("rootfs")
        BY LogoAtHand DEF Payloads, PackRootfs
      <4> QED BY <4>1 DEF Pack
    <3> QED BY <1>2, <3>1, <3>2 DEF AppThere, Comes
  <2> QED BY <2>1, <2>2, <2>3 DEF AppThere
<1> QED BY <1>1, <1>2

LEMMA PackGoes ==
    ASSUME TypeOK, FailureInv, Runs, todo # <<>>
    PROVE  /\ (recovery = "tee_recovery" => sub["tee_recovery"] # Absent)'
           /\ todo' = Tail(todo) /\ Order(todo) => LogoCopied'
           /\ todo' = Tail(todo) /\ outcome' = "running" /\ PacksThere => PacksThere'
<1>1. /\ todo \in Seq(Cmds) /\ UNCHANGED <<config, input>>
      /\ recovery = "tee_recovery" => sub["tee_recovery"] # Absent
  BY RunsOutcome DEF FailureInv, env
<1>2. /\ sub \in [Payloads -> Seq(Made) \cup {Absent}]
      /\ \A p \in Payloads : sub[p] # Absent => sub'[p] # Absent
  BY SubRuns DEF TypeOK
<1>3. (recovery = "tee_recovery" => sub["tee_recovery"] # Absent)'
  <2>1. UNCHANGED recovery \/ (ReadMapping /\ UNCHANGED sub)
    BY DEF Runs, LayTable, ReadMapping, PreloadTa, Pack, Release, UnzipLogo, MoveLogo, SignLogo,
       RemoveApp, MoveGalois, MakeGalois, ReleaseList, CopyFastlogo, CopyMisc, ReleaseParts, Unify,
       disk
  <2>2. "tee_recovery" \in Payloads
    BY DEF Payloads
  <2>3. ReadMapping => recovery' = IF sub["tee_recovery"] # Absent THEN "tee_recovery" ELSE "tee"
    BY DEF ReadMapping
  <2> QED BY <1>1, <1>2, <2>1, <2>2, <2>3
<1>4. UNCHANGED <<Full, Options>>
  BY <1>1, SameConfig
<1>5. ASSUME todo' = Tail(todo), Order(todo) PROVE LogoCopied'
  <2>1. Comes(LogoRelease)' => Head(todo) = LogoCopy
    BY <1>1, <1>5, BehindTail DEF Order, Comes
  <2>2. Head(todo) = LogoCopy => CopyFastlogo
    BY LogoAtHand
  <2>3. CopyFastlogo /\ "genx" \notin Options /\ input["fastlogo"] # Absent => sub'["fastlogo"] # Absent
    <3>1. ASSUME CopyFastlogo, "genx" \notin Options, input["fastlogo"] # Absent
          PROVE  sub'["fastlogo"] # Absent
      <4> DEFINE a == <<"fastlogo", input["fastlogo"]>>
      <4>1. sub' = [sub EXCEPT !["fastlogo"] = <<a>>]
        BY <3>1 DEF CopyFastlogo
      <4>2. a \in Made
        BY <3>1, VersionMade DEF TypeOK, Inputs, Payloads
      <4> HIDE DEF a
      <4>3. <<a>> \in Seq(Made) /\ "fastlogo" \in Payloads
        BY <4>2, OneMade DEF Payloads
      <4> QED BY <1>2, <4>1, <4>3, ConfigAssumption
    <3> QED BY <3>1
  <2> QED BY <1>1, <1>4, <2>1, <2>2, <2>3 DEF LogoCopied
<1>6. ASSUME todo' = Tail(todo), outcome' = "running", PacksThere PROVE PacksThere'
  <2>1. ToSet(Full)' = ToSet(Full) /\ ToSet(todo)' = ToSet(Tail(todo))
    <3> HIDE DEF Full
    <3> QED BY <1>4, <1>6 DEF ToSet
  <2>2. ToSet(todo) = {Head(todo)} \cup ToSet(Tail(todo))
    BY <1>1, TailOf
  <2>3. ASSUME NEW p \in Payloads \ {"tee_recovery"}, Head(todo) = <<"pack", p>>
        PROVE  <<"pack", p>> \in ToSet(Tail(todo)) \/ sub'[p] # Absent
    <3>1. Pack(p)
      BY <2>3, LogoAtHand
    <3>2. CASE Ready(p)
      <4>1. sub' = [sub EXCEPT ![p] = Parts(p)]
        BY <3>1, <3>2 DEF Pack
      <4>2. Parts(p) \in Seq(Made)
        BY <3>2, PartsMade
      <4> QED BY <1>2, <4>1, <4>2, ConfigAssumption
    <3>3. CASE ~ Ready(p)
      <4>1. outcome' = "failed"
        BY <2>3, <3>1, <3>3 DEF Pack, Abort
      <4> QED BY <1>6, <4>1
    <3> QED BY <3>2, <3>3
  <2>4. ASSUME NEW p \in Payloads \ {"tee_recovery"}, <<"pack", p>> \in ToSet(Full)
        PROVE  <<"pack", p>> \in ToSet(Tail(todo)) \/ sub'[p] # Absent
    <3>1. <<"pack", p>> \in ToSet(todo) \/ sub[p] # Absent
      BY <1>6, <2>4 DEF PacksThere
    <3>2. CASE sub[p] # Absent
      BY <1>2, <3>2
    <3>3. CASE <<"pack", p>> = Head(todo)
      BY <2>3, <3>3
    <3> QED BY <2>2, <3>1, <3>2, <3>3
  <2> QED BY <2>1, <2>4 DEF PacksThere
<1> QED BY <1>3, <1>5, <1>6

LEMMA FailureRuns == TypeOK /\ ReleaseInv /\ FailureInv /\ Runs => FailureInv'
<1> SUFFICES ASSUME TypeOK, ReleaseInv, FailureInv, Runs PROVE FailureInv'
  OBVIOUS
<1>1. /\ todo # <<>> /\ UNCHANGED <<config, input, kills>> /\ UNCHANGED Options
      /\ todo \in Seq(Cmds) /\ Chain(todo)
  BY RunsOutcome, SameConfig DEF env, FailureInv
<1>2. CASE todo' = Tail(todo) /\ UNCHANGED outcome
  <2>1. todo' \in Seq(Cmds) /\ Chain(Tail(todo))
    BY <1>1, <1>2, ChainTail, TailOf
  <2>2. Chain(todo)'
    <3>1. ToSet(todo)' = ToSet(Tail(todo))
      BY <1>2 DEF ToSet
    <3> QED BY <1>1, <1>2, <2>1, <3>1 DEF Chain, Follows
  <2>3. ("genx" \notin Options => logo["en"] = Absent)' /\ (LogoMoved => LogoMoved')
    BY <1>1, <1>2, LogoGoes
  <2>4. (GaloisThere => GaloisThere') /\ (Order(todo) /\ AppThere => AppThere')
    BY <1>1, <1>2, AppGoes
  <2>5. /\ (recovery = "tee_recovery" => sub["tee_recovery"] # Absent)'
        /\ Order(todo) => LogoCopied'
        /\ outcome' = "running" /\ PacksThere => PacksThere'
    BY <1>1, <1>2, PackGoes
  <2>6. Order(todo) => Order(todo)'
    <3>1. Order(todo) => Order(Tail(todo))
      BY <1>1, OrderTail
    <3> QED BY <1>2, <3>1 DEF Order, Behind
  <2> QED BY <1>1, <1>2, <2>1, <2>2, <2>3, <2>4, <2>5, <2>6 DEF FailureInv
<1>3. CASE todo' = <<>> /\ outcome' = "failed"
  <2>1. /\ UnzipLogo => UNCHANGED logo \/ (todo' = Tail(todo) /\ UNCHANGED outcome)
        /\ MoveGalois => UNCHANGED galois \/ (todo' = Tail(todo) /\ UNCHANGED outcome)
        /\ MoveLogo \/ SignLogo \/ MakeGalois \/ RemoveApp => todo' = Tail(todo) /\ UNCHANGED outcome
    <3>1. UnzipLogo => UNCHANGED logo \/ (todo' = Tail(todo) /\ UNCHANGED outcome)
      BY DEF UnzipLogo, Go
    <3>2. MoveGalois => UNCHANGED galois \/ (todo' = Tail(todo) /\ UNCHANGED outcome)
      BY DEF MoveGalois, Go
    <3>3. MoveLogo \/ SignLogo \/ MakeGalois \/ RemoveApp => todo' = Tail(todo) /\ UNCHANGED outcome
      BY DEF MoveLogo, SignLogo, MakeGalois, RemoveApp, Go
    <3> QED BY <3>1, <3>2, <3>3
  <2>2. CASE todo' = Tail(todo) /\ UNCHANGED outcome
    BY <1>2, <2>2
  <2>3. CASE ~ (todo' = Tail(todo) /\ UNCHANGED outcome)
    <3>1. UNCHANGED logo /\ UNCHANGED galois
      BY <2>1, <2>3, LogoKept, AppKept
    <3>2. Head(todo) # LogoMove /\ Head(todo) # AppMkdir
      BY <2>1, <2>3, LogoAtHand
    <3>3. (LogoMoved => LogoMoved') /\ (GaloisThere => GaloisThere')
      BY <3>1, <3>2 DEF LogoMoved, GaloisThere, Comes
    <3>4. (recovery = "tee_recovery" => sub["tee_recovery"] # Absent)'
      BY <1>1, PackGoes
    <3>5. todo' \in Seq(Cmds) /\ Chain(todo)'
      <4>1. ToSet(todo)' = {} /\ DOMAIN todo' = {}
        BY <1>3 DEF ToSet
      <4> QED BY <1>3, <4>1, EmptyScript DEF Chain, Follows
    <3> QED BY <1>1, <1>3, <3>1, <3>3, <3>4, <3>5 DEF FailureInv
  <2> QED BY <2>2, <2>3
<1> QED BY <1>2, <1>3, RunsOutcome

LEMMA FailureStep == TypeOK /\ ReleaseInv /\ FailureInv /\ [Next]_vars => FailureInv'
<1> SUFFICES ASSUME TypeOK, ReleaseInv, FailureInv, [Next]_vars PROVE FailureInv'
  OBVIOUS
<1>1. UNCHANGED config
  BY RunsOutcome DEF Next, Runs, Deliver, EditTable, Install, CleanModule, StartFull, StartPack,
     Finish, Kill, env, vars
<1>2. UNCHANGED <<Full, Options, Boot>> /\ ToSet(Full)' = ToSet(Full)
  BY <1>1, SameConfig DEF ToSet
<1>3. Idle => todo = <<>>
  BY DEF ReleaseInv
<1>4. ASSUME NEW f, f \in Seq(Cmds), Chain(f), todo' = f
      PROVE  todo' \in Seq(Cmds) /\ Chain(todo)'
  <2>1. ToSet(todo)' = ToSet(f)
    BY <1>4 DEF ToSet
  <2> QED BY <1>2, <1>4, <2>1 DEF Chain, Follows
<1> HIDE DEF Full
<1>5. CASE Runs
  BY <1>5, FailureRuns
<1>6. ASSUME Idle, todo' \in Seq(Cmds) /\ Chain(todo)', kills' = kills,
             UNCHANGED <<logo, sub, recovery>>, galois' # Absent \/ UNCHANGED galois
      PROVE  /\ todo' \in Seq(Cmds) /\ Chain(todo)'
             /\ ("genx" \notin Options => logo["en"] = Absent)'
             /\ (kills = 0 => LogoMoved /\ GaloisThere)'
             /\ (recovery = "tee_recovery" => sub["tee_recovery"] # Absent)'
  <2>1. LogoMoved => LogoMoved'
    BY <1>3, <1>6 DEF LogoMoved, Comes
  <2>2. GaloisThere => GaloisThere'
    BY <1>3, <1>6 DEF GaloisThere, Comes
  <2> QED BY <1>2, <1>6, <2>1, <2>2 DEF FailureInv
<1>7. CASE \/ \E i \in Changing : Deliver(i)
           \/ EditTable
           \/ \E m \in Appliances : Install(m) \/ CleanModule(m)
  <2>1. /\ Idle /\ UNCHANGED todo /\ kills' = kills /\ UNCHANGED <<logo, sub, recovery>>
        /\ outcome' # "running"
    BY <1>7 DEF Deliver, EditTable, Install, CleanModule, Idle, disk, shell
  <2>2. galois' # Absent \/ UNCHANGED galois
    <3>1. CASE \/ \E i \in Changing : Deliver(i)
               \/ EditTable
               \/ \E m \in Appliances : CleanModule(m)
      BY <3>1 DEF Deliver, EditTable, CleanModule, disk
    <3>2. ASSUME NEW m \in Appliances, Install(m) PROVE galois' # Absent
      <4>1. galois' \subseteq Appliances
        BY <3>2 DEF Install, TypeOK
      <4> QED BY <4>1, ConfigAssumption DEF TypeOK, Appliances
    <3> QED BY <1>7, <3>1, <3>2
  <2>3. todo' \in Seq(Cmds) /\ Chain(todo)'
    BY <1>4, <2>1 DEF FailureInv
  <2> QED BY <1>6, <2>1, <2>2, <2>3 DEF FailureInv
<1>8. CASE StartFull
  <2>1. /\ Idle /\ todo' = Full /\ kills' = kills /\ UNCHANGED <<logo, sub, recovery, galois>>
    BY <1>8 DEF StartFull, disk
  <2>2. Neat(Full)
    BY NeatWhole
  <2>3. todo' \in Seq(Cmds) /\ Chain(todo)'
    BY <1>4, <2>1, <2>2 DEF Neat
  <2>4. Order(todo)'
    BY <2>1, <2>2 DEF Neat, Order, Behind
  <2>5. /\ ~ Comes(AppMkdir)' /\ ~ Comes(PackRootfs)' /\ ~ Comes(PackApp)'
        /\ ~ Comes(LogoRelease)'
    <3>1. todo' # <<>> => Head(todo') \notin Seconds
      BY <2>1, <2>2 DEF Neat
    <3> QED BY <3>1 DEF Comes, Seconds
  <2>6. PacksThere'
    <3>1. ToSet(todo)' = ToSet(Full)'
      BY <1>2, <2>1 DEF ToSet
    <3> QED BY <3>1 DEF PacksThere
  <2>7. AppThere' /\ LogoCopied'
    BY <2>5 DEF AppThere, LogoCopied
  <2> QED BY <1>6, <2>1, <2>3, <2>4, <2>6, <2>7 DEF FailureInv
<1>9. ASSUME NEW x \in Packs, StartPack(x) PROVE FailureInv'
  <2>1. /\ Idle /\ todo' = Single(x) /\ kills' = kills /\ UNCHANGED <<logo, sub, recovery, galois>>
        /\ outcome' = "packing"
    BY <1>9 DEF StartPack, disk
  <2>2. x \in Payloads \cup {"ta"}
    BY ConfigAssumption DEF TypeOK, Packs
  <2>3. todo' \in Seq(Cmds) /\ Chain(todo)'
    BY <1>4, <2>1, <2>2, ChainAlone
  <2> QED BY <1>6, <2>1, <2>3 DEF FailureInv
<1>10. CASE Finish
  <2>1. /\ todo = <<>> /\ UNCHANGED <<todo, input, logo, sub, recovery, galois, kills>>
        /\ outcome' # "running"
    BY <1>10 DEF Finish, env, disk
  <2>2. todo' \in Seq(Cmds) /\ Chain(todo)'
    BY <1>4, <2>1 DEF FailureInv
  <2>3. (LogoMoved => LogoMoved') /\ (GaloisThere => GaloisThere')
    BY <2>1 DEF LogoMoved, GaloisThere, Comes
  <2> QED BY <1>2, <2>1, <2>2, <2>3 DEF FailureInv
<1>11. CASE Kill
  <2>1. /\ todo' = <<>> /\ kills' = kills + 1 /\ UNCHANGED <<logo, recovery>>
        /\ outcome' = "failed"
    BY <1>11 DEF Kill
  <2>2. kills' # 0
    BY <2>1, ConfigAssumption DEF TypeOK
  <2>3. todo' \in Seq(Cmds) /\ Chain(todo)'
    BY <1>4, <2>1, EmptyScript
  <2>4. sub["tee_recovery"] # Absent => sub'["tee_recovery"] # Absent
    <3>1. UNCHANGED sub \/ \E t : sub' = [sub EXCEPT ![t] = <<>>]
      BY <1>11 DEF Kill
    <3>2. <<>> # Absent /\ "tee_recovery" \in DOMAIN sub
      <4>1. <<>> \in Seq(Made)
        OBVIOUS
      <4>2. <<>> # Absent
        BY <4>1, ConfigAssumption
      <4> QED BY <4>2 DEF TypeOK, Payloads
    <3> QED BY <3>1, <3>2
  <2> QED BY <1>2, <2>1, <2>2, <2>3, <2>4 DEF FailureInv
<1>12. CASE UNCHANGED vars
  <2>1. /\ UNCHANGED <<config, outcome, todo, input, logo, sub, recovery, galois, appdir, kills>>
    BY <1>12 DEF vars, shell, disk
  <2>2. todo' \in Seq(Cmds) /\ Chain(todo)'
    BY <1>4, <2>1 DEF FailureInv
  <2>3. (LogoMoved => LogoMoved') /\ (GaloisThere => GaloisThere') /\ (AppThere => AppThere')
    BY <2>1 DEF LogoMoved, GaloisThere, AppThere, Comes
  <2>4. LogoCopied => LogoCopied'
    BY <1>2, <2>1 DEF LogoCopied, Comes
  <2>5. PacksThere => PacksThere'
    <3>1. ToSet(todo)' = ToSet(todo)
      BY <2>1 DEF ToSet
    <3> QED BY <1>2, <2>1, <3>1 DEF PacksThere
  <2>6. Order(todo) => Order(todo)'
    BY <2>1 DEF Order, Behind
  <2> QED BY <1>2, <2>1, <2>2, <2>3, <2>4, <2>5, <2>6 DEF FailureInv
<1> QED
  BY <1>5, <1>7, <1>8, <1>9, <1>10, <1>11, <1>12 DEF Next, Runs

(* What is still to be run does not come before the command at hand. *)
LEMMA NotToCome ==
    ASSUME NEW k \in 0 .. Len(Full), todo = SubSeq(Full, k + 1, Len(Full)), todo # <<>>
    PROVE  \A y \in ToSet(todo) : ~ (Rank(y) < Rank(Head(todo)))
<1> DEFINE f == Full
           n == Len(f)
<1>1. f \in Seq(Cmds) /\ Orderly(f) /\ n \in Nat /\ DOMAIN f = 1 .. n /\ k \in 0 .. n
  BY Whole
<1>2. k + 1 \in 1 .. n /\ Head(todo) = f[k + 1]
  <2> HIDE DEF f
  <2> QED BY <1>1, Rest DEF f
<1>3. /\ DOMAIN todo = 1 .. n - k
      /\ \A i \in 1 .. n - k : todo[i] = f[k + i]
  <2> HIDE DEF f
  <2>1. todo = SubSeq(f, k + 1, n)
    BY DEF f
  <2> QED BY <1>1, <1>2, <2>1
<1> HIDE DEF f, n
<1> SUFFICES ASSUME NEW y \in ToSet(todo), Rank(y) < Rank(Head(todo)) PROVE FALSE
  OBVIOUS
<1>4. PICK i \in 1 .. n - k : y = todo[i]
  BY <1>3 DEF ToSet
<1>5. y = f[k + i] /\ k + i \in 1 .. n
  BY <1>1, <1>3, <1>4
<1>6. CASE i = 1
  <2>1. Rank(y) = Rank(Head(todo))
    BY <1>2, <1>5, <1>6
  <2> QED BY <2>1, RankNat
<1>7. CASE i # 1
  <2>1. k + 1 < k + i
    BY <1>1, <1>4, <1>7
  <2>2. Before(f[k + 1], f[k + i])
    BY <1>1, <1>2, <1>5, <2>1 DEF Orderly
  <2> QED BY <1>2, <1>5, <2>2, NotBefore
<1> QED BY <1>6, <1>7

(* What a full run has at its command x, when it comes to it *)
LEMMA AtCommand ==
    ASSUME TypeOK, ReleaseInv, FailureInv, outcome = "running", todo # <<>>
    PROVE  /\ Head(todo) \in ToSet(Full)
           /\ Rank(Head(todo)) = 8 => names = Listed
           /\ Rank(Head(todo)) = 6 /\ <<"logo", "sign">> \in ToSet(Full)
                  /\ input["fastlogo"] # Absent => logo["en"] # Absent
           /\ \A p \in Payloads \ {"tee_recovery"} :
                  <<"pack", p>> \in ToSet(Full) /\ Rank(<<"pack", p>>) < Rank(Head(todo))
                     => sub[p] # Absent
<1>1. PICK k \in 0 .. Len(Full) : Run(k)
  BY DEF ReleaseInv
<1>2. PICK done : done = {Full[j] : j \in 1 .. k}
  OBVIOUS
<1>3. todo = SubSeq(Full, k + 1, Len(Full)) /\ Left(done)
  BY <1>1, <1>2 DEF Run
<1> HIDE DEF Full
<1>4. Ahead(done, Head(todo))
  BY <1>2, <1>3, NextCommand DEF TypeOK
<1>5. \A y \in ToSet(todo) : ~ (Rank(y) < Rank(Head(todo)))
  BY <1>3, NotToCome
<1>6. Head(todo) \in ToSet(Full)
  BY <1>4 DEF Ahead
<1>7. ASSUME Rank(Head(todo)) = 8 PROVE names = Listed
  <2>1. TableCmd \in ToSet(Full) /\ Rank(TableCmd) = 0
    BY Script, Ranks DEF TypeOK
  <2>2. TableCmd \in done
    BY <1>4, <1>7, <2>1 DEF Ahead
  <2> QED BY <1>3, <2>2 DEF Left, NamesKnown
<1>8. ASSUME Rank(Head(todo)) = 6, <<"logo", "sign">> \in ToSet(Full), input["fastlogo"] # Absent
      PROVE  logo["en"] # Absent
  <2>1. <<"logo", "sign">> \in done
    BY <1>4, <1>8, RanksOf DEF Ahead
  <2> QED BY <1>3, <1>8, <2>1 DEF Left, LogoMade
<1>9. ASSUME NEW p \in Payloads \ {"tee_recovery"}, <<"pack", p>> \in ToSet(Full),
             Rank(<<"pack", p>>) < Rank(Head(todo))
      PROVE  sub[p] # Absent
  BY <1>5, <1>9 DEF FailureInv, PacksThere
<1> QED BY <1>6, <1>7, <1>8, <1>9

(* For want of what a run ends before its last command *)
Excused ==
    \/ \E i \in Wanted : input[i] = Absent
    \/ logo["en"] = Absent /\ input["fastlogo"] = Absent
    \/ kills > 0 /\ (logo["plain"] # Absent \/ galois = Absent)

LEMMA PackFails ==
    ASSUME TypeOK, ReleaseInv, FailureInv, outcome = "running", NEW p \in Payloads, Pack(p),
           outcome' = "failed"
    PROVE  Excused
<1>1. todo # <<>> /\ Head(todo) = <<"pack", p>> /\ ~ Ready(p) /\ p # "tee_recovery"
  BY DEF Pack, Command, Go
<1>2. <<"pack", p>> \in ToSet(Full)
  BY <1>1, AtCommand
<1>3. p \in Packed
  <2>1. \E i \in DOMAIN Full : Full[i] = <<"pack", p>>
    BY <1>2 DEF ToSet
  <2> HIDE DEF Full
  <2> QED BY <2>1 DEF Packed
<1> HIDE DEF Full
<1>4. CASE p = "fastlogo"
  <2>1. logo["en"] = Absent
    BY <1>1, <1>4 DEF Ready
  <2>2. Rank(Head(todo)) = 6 /\ <<"logo", "sign">> \in ToSet(Full)
    BY <1>1, <1>2, <1>4, Script, RanksOf DEF TypeOK
  <2>3. input["fastlogo"] = Absent
    BY <1>1, <2>1, <2>2, AtCommand
  <2> QED BY <2>1, <2>3 DEF Excused
<1>5. CASE p = "rootfs"
  <2>1. input["system"] = Absent /\ "system" \in Wanted
    BY <1>1, <1>3, <1>5 DEF Ready, Wanted
  <2> QED BY <2>1 DEF Excused
<1>6. CASE p = "app"
  <2>1. Comes(PackApp) /\ AppThere
    BY <1>1, <1>6 DEF Comes, PackApp, FailureInv
  <2> QED BY <1>1, <1>6, <2>1 DEF AppThere, Ready
<1>8. CASE p = "block0"
  BY <1>1, <1>8 DEF Ready
<1>7. CASE p \notin {"block0", "fastlogo", "rootfs", "app"}
  <2>1. input[p] = Absent
    BY <1>1, <1>7 DEF Ready
  <2>2. p \in Wanted
    BY <1>1, <1>3, <1>7 DEF Wanted, Inputs
  <2> QED BY <2>1, <2>2 DEF Excused
<1> QED BY <1>4, <1>5, <1>6, <1>7, <1>8

LEMMA PreloadFails ==
    ASSUME TypeOK, ReleaseInv, FailureInv, outcome = "running", PreloadTa, outcome' = "failed"
    PROVE  Excused
<1>1. /\ todo # <<>> /\ Head(todo) = <<"pack", "ta">>
      /\ input["ta"] = Absent \/ sub["bootloader"] = Absent
  BY DEF PreloadTa, Command, Go
<1>2. <<"pack", "ta">> \in ToSet(Full)
  BY <1>1, AtCommand
<1>3. "preload_ta" \in Options /\ <<"pack", "bootloader">> \in ToSet(Full)
  BY <1>2, Script DEF TypeOK
<1>4. Rank(<<"pack", "bootloader">>) = 1 /\ Rank(<<"pack", "ta">>) = 2
  BY Ranks, RanksOf DEF Early
<1>5. sub["bootloader"] # Absent
  <2>1. "bootloader" \in Payloads \ {"tee_recovery"}
    BY DEF Payloads
  <2> QED BY <1>1, <1>3, <1>4, <2>1, AtCommand
<1>6. "ta" \in Wanted
  BY <1>3 DEF Wanted
<1> QED BY <1>1, <1>5, <1>6 DEF Excused

LEMMA LeftoverFails ==
    ASSUME TypeOK, FailureInv, UnzipLogo \/ MoveGalois, outcome = "running", outcome' = "failed"
    PROVE  Excused
<1>1. kills \in Nat
  BY ConfigAssumption DEF TypeOK
<1>2. CASE UnzipLogo
  <2>1. logo["plain"] # Absent /\ Head(todo) = LogoUnzip
    BY <1>2 DEF UnzipLogo, Command, Go, LogoUnzip
  <2>2. LogoUnzip # LogoMove
    BY DEF LogoUnzip, LogoMove
  <2>3. kills # 0
    BY <2>1, <2>2 DEF FailureInv, LogoMoved, Comes
  <2> QED BY <1>1, <2>1, <2>3 DEF Excused
<1>3. CASE MoveGalois
  <2>1. galois = Absent /\ Head(todo) = AppMove
    BY <1>3 DEF MoveGalois, Command, Go, AppMove
  <2>2. AppMove # AppMkdir
    BY DEF AppMove, AppMkdir
  <2>3. kills # 0
    BY <2>1, <2>2 DEF FailureInv, GaloisThere, Comes
  <2> QED BY <1>1, <2>1, <2>3 DEF Excused
<1> QED BY <1>2, <1>3

(* A name that the run releases is one of the table. *)
LEMMA NameListed ==
    ASSUME names = Listed, NEW n \in ToSet(names)
    PROVE  \E i \in DOMAIN table : table[i].base = n
BY DEF ToSet, Listed

LEMMA ReleaseFails ==
    ASSUME ListsPacked, TypeOK, ReleaseInv, FailureInv, outcome = "running",
           NEW p \in Payloads, Release(p), outcome' = "failed"
    PROVE  Excused
<1>1. todo # <<>> /\ Head(todo) = <<"release", p>> /\ sub[p] = Absent /\ NamesOf(p) # {}
  BY DEF Release, Command, Go
<1>2. Rank(<<"release", p>>) = 8
  BY Ranks
<1>3. <<"release", p>> \in ToSet(Full) /\ names = Listed
  BY <1>1, <1>2, AtCommand
<1>4. config \in Configs /\ table \in Tables /\ Boot = "emmc"
  BY <1>3, Script DEF TypeOK
<1>5. PICK n \in ToSet(names) : EmmcModule(n) = p
  BY <1>1, <1>4 DEF NamesOf, ModuleOf
<1>6. <<"pack", p>> \in ToSet(Full) /\ p # "tee_recovery" => FALSE
  <2>1. Rank(<<"pack", p>>) \in 1 .. 7
    BY PackStage
  <2> QED BY <1>1, <1>2, <2>1, AtCommand
<1> DEFINE F == ToSet(Full)
<1>7. F = EmmcPacked \cup EmmcReleased
  BY <1>4, Whole
<1> HIDE DEF F
<1>8. p # Absent
  BY ConfigAssumption
<1>9. CASE p = "tee_recovery"
  <2>1. recovery = "tee_recovery"
    BY <1>5, <1>8, <1>9 DEF EmmcModule
  <2> QED BY <1>1, <1>9, <2>1 DEF FailureInv
<1>10. CASE p = "fastlogo"
  <2>1. "genx" \notin Options
    <3>1. "genx" \in Options => <<"pack", "fastlogo">> \in F
      BY <1>7 DEF EmmcPacked
    <3> QED BY <1>6, <1>10, <3>1 DEF F
  <2>2. logo["en"] = Absent /\ LogoCopied
    BY <2>1 DEF FailureInv
  <2>3. Comes(LogoRelease)
    BY <1>1, <1>10 DEF Comes, LogoRelease
  <2> QED BY <1>1, <1>10, <2>1, <2>2, <2>3 DEF LogoCopied, Excused
<1>11. CASE p = "fastboot"
  <2>1. "fastboot" \notin Options
    <3>1. "fastboot" \in Options => <<"pack", "fastboot">> \in F
      BY <1>7 DEF EmmcPacked
    <3> QED BY <1>6, <1>11, <3>1 DEF F
  <2>2. ToSet(FsSteps) = {<<"pack", "system">>}
    BY <1>4, FsScript, ConfigAssumption DEF Boot, Options
  <2>3. "android" \in Options
    <3>1. <<"release", "fastboot">> \in F
      BY <1>3, <1>11 DEF F
    <3> QED BY <1>7, <2>1, <2>2, <3>1, Kind DEF EmmcPacked, EmmcReleased
  <2>4. n \in {"fastboot_1st", "fastboot_2nd", "fastboot"}
    <3>1. recovery # "fastboot"
      BY DEF TypeOK
    <3> QED BY <1>5, <1>8, <1>11, <3>1 DEF EmmcModule
  <2>5. PICK i \in DOMAIN table : table[i].base = n
    BY <1>3, NameListed
  <2> QED BY <1>4, <2>1, <2>3, <2>4, <2>5 DEF ListsPacked, Boot, Options, Tables
<1>12. CASE p \notin {"tee_recovery", "fastlogo", "fastboot"}
  <2>1. ToSet(FsSteps) = {<<"pack", "system">>}
    BY <1>4, FsScript, ConfigAssumption DEF Boot, Options
  <2>2. <<"release", p>> \in F
    BY <1>3 DEF F
  <2>3. <<"pack", p>> \in F
    <3>1. <<"release", p>> \in EmmcReleased
      <4>1. <<"release", p>> \notin EmmcPacked
        BY <2>1, Kind DEF EmmcPacked
      <4> QED BY <1>7, <2>2, <4>1
    <3>2. \/ p \in {"preboot", "tee", "bootloader", "key"}
          \/ p = "firmware" /\ "genx" \in Options
          \/ p \in {"linux_bootimgs", "system"} /\ "runtime" \in Options
      BY <1>12, <3>1, Kind DEF EmmcReleased
    <3> QED BY <1>7, <2>1, <3>2 DEF EmmcPacked
  <2> QED BY <1>6, <1>12, <2>3 DEF F
<1> QED BY <1>9, <1>10, <1>11, <1>12

LEMMA PartsFail ==
    ASSUME ListsPacked, TypeOK, ReleaseInv, FailureInv, outcome = "running",
           ReleaseParts, outcome' = "failed"
    PROVE  FALSE
<1>1. todo # <<>> /\ Head(todo) = PartsCmd
  BY AtHand DEF ReleaseParts, Command
<1>2. Rank(PartsCmd) = 8
  BY Ranks
<1>3. PartsCmd \in ToSet(Full) /\ names = Listed
  BY <1>1, <1>2, AtCommand
<1>4. config \in Configs /\ table \in Tables /\ Boot = "nand"
  <2>1. Boot # "emmc"
    BY <1>3, Script DEF TypeOK
  <2> QED BY <2>1, ConfigAssumption DEF TypeOK, Boot
<1>5. \A p \in Payloads \ {"tee_recovery"} : <<"pack", p>> \in ToSet(Full) => sub[p] # Absent
  <2>1. \A p \in Payloads : Rank(<<"pack", p>>) < 8
    <3>1. ASSUME NEW p \in Payloads PROVE Rank(<<"pack", p>>) < 8
      <4>1. Rank(<<"pack", p>>) \in 1 .. 7
        BY PackStage
      <4> QED BY <4>1
    <3> QED BY <3>1
  <2> QED BY <1>1, <1>2, <2>1, AtCommand
<1>6. PICK k \in 0 .. Len(names) : k # Len(names) /\ ~ Held(names[k + 1])
  BY DEF ReleaseParts, Go
<1> DEFINE n == names[k + 1]
<1>7. n \in ToSet(names)
  <2>1. names \in Seq(Bases)
    BY DEF TypeOK
  <2>2. k + 1 \in DOMAIN names
    BY <1>6, <2>1
  <2> QED BY <2>2, InSet
<1> HIDE DEF n
<1>8. PICK i \in DOMAIN table : table[i].base = n
  BY <1>3, <1>7, NameListed
<1>9. n \in {"block0", "pre-bootloader", "preboot", "tzk_normal", "tzk_normalB", "bl_normal", "bl_normalB",
             "bootloader", "boot", "recovery", "key_1st", "key_2nd", "key"}
            \cup (IF "app" \in Options THEN {"rootfs", "app"} ELSE {"system"})
  BY <1>4, <1>8 DEF ListsPacked, Boot, Options, Tables
<1> DEFINE F == ToSet(Full)
           p == NandModule(n)
<1>10. F = NandPacked \cup {ListCmd, PartsCmd, UnifyCmd}
  BY <1>4, Whole
<1> HIDE DEF F, p
<1>11. \/ p \in {"block0", "preboot", "tee", "bootloader", "linux_bootimgs", "key"}
       \/ "app" \in Options /\ p \in {"rootfs", "app"}
       \/ "app" \notin Options /\ p = "system"
  BY <1>9 DEF NandModule, p
<1>12. <<"pack", p>> \in F /\ p \in Payloads \ {"tee_recovery"}
  BY <1>10, <1>11, FsScript DEF NandPacked, Payloads
<1>13. Held(n)
  <2>1. ModuleOf(n) = p
    BY <1>4 DEF ModuleOf, p
  <2> QED BY <1>5, <1>12, <2>1 DEF Held, F
<1> QED BY <1>6, <1>13 DEF n

LEMMA RunFails ==
    ASSUME ListsPacked, TypeOK, ReleaseInv, FailureInv, Runs, outcome = "running",
           outcome' = "failed"
    PROVE  Excused
<1>1. \/ UnzipLogo \/ MoveGalois \/ PreloadTa \/ ReleaseParts
      \/ \E p \in Payloads : Pack(p) \/ Release(p)
  BY DEF Runs, LayTable, ReadMapping, MoveLogo, SignLogo, RemoveApp, MakeGalois, ReleaseList,
     CopyFastlogo, CopyMisc, Unify, Go
<1>2. CASE UnzipLogo \/ MoveGalois
  BY <1>2, LeftoverFails
<1>3. CASE PreloadTa
  BY <1>3, PreloadFails
<1>4. CASE ReleaseParts
  BY <1>4, PartsFail
<1>5. ASSUME NEW p \in Payloads, Pack(p) PROVE Excused
  BY <1>5, PackFails
<1>6. ASSUME NEW p \in Payloads, Release(p) PROVE Excused
  BY <1>6, ReleaseFails
<1> QED BY <1>1, <1>2, <1>3, <1>4, <1>5, <1>6

LEMMA StepFails ==
    ASSUME ListsPacked, TypeOK, ReleaseInv, FailureInv, [Next]_vars, outcome = "running",
           outcome' = "failed", kills' = kills
    PROVE  Excused
<1>1. kills \in Nat /\ ~ Idle
  BY ConfigAssumption DEF TypeOK, Idle
<1>2. ~ Kill
  BY <1>1 DEF Kill
<1>3. Runs
  BY <1>1, <1>2 DEF Next, Runs, Deliver, EditTable, Install, CleanModule, StartFull, StartPack,
     Finish, vars, shell
<1> QED BY <1>3, RunFails

(* A run that nobody kills fails only for want of an input, or for one of the
   two things a killed run leaves behind: in particular never because an
   earlier failed or single run left something, and never in the release (of
   emmc/packaging.bashrc or nand_gen_images.bashrc) for a subimage that was
   not packed.  The product lists only what its configuration has packed.    *)
THEOREM FailsForWant ==
    ASSUME ListsPacked
    PROVE  Spec => FailsOnlyForWant
<1>1. TypeOK /\ ReleaseInv /\ FailureInv /\ [Next]_vars =>
        [outcome = "running" /\ outcome' = "failed" /\ kills' = kills =>
          \/ \E i \in Wanted : input[i] = Absent
          \/ logo["en"] = Absent /\ input["fastlogo"] = Absent
          \/ kills > 0 /\ (logo["plain"] # Absent \/ galois = Absent)]_vars
  BY StepFails DEF Excused
<1> QED
  BY <1>1, ReleaseInit, ReleaseStep, FailureInit, FailureStep, TypeInit, TypeStep, PTL
     DEF Spec, FailsOnlyForWant
=============================================================================
