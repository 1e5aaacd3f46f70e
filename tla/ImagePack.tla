------------------------------ MODULE ImagePack ------------------------------
(***************************************************************************)
(* Packing of the partition images: module/image.  A full run (make image) *)
(* lays the partition table out, packs one subimage per payload into       *)
(* subimg_intermediate, and copies them under the partition names of the   *)
(* table into the release directory.  "make image-pack subimg=x" packs one *)
(* subimage and releases nothing.  Neither directory is ever emptied: a    *)
(* run finds what earlier runs, also killed or failed ones, left there.    *)
(*                                                                         *)
(* A subimage is abstracted to the sequence of what it was put together    *)
(* from, a pair <<source, version>> each.  The empty sequence is a file    *)
(* that was begun and not finished.                                        *)
(***************************************************************************)
EXTENDS Naturals, Sequences, SequencesExt, FiniteSets

CONSTANTS
    Configs,    \* the configurations and products considered, see ConfigAssumption
    Absent,     \* no such file
    MaxVersion, \* bound: versions of an input
    MaxRuns,    \* bound: invocations of a packing script
    MaxKills    \* bound: killed invocations

Payloads == {"block0", "preboot", "tee", "tee_recovery", "bootloader", "firmware",
             "fastlogo", "key", "fastboot", "linux_bootimgs", "system", "rootfs",
             "app"}

(* What the modules and the product deliver; "ta" stands for the trusted
   applications that are preloaded, "system" for the rootfs directory.   *)
Inputs == (Payloads \ {"block0", "rootfs", "app"}) \cup {"ta", "misc"}

(* The names a table may list, without the _a and _b of a slot *)
Bases == {"block0", "preboot", "key_1st", "key_2nd", "key", "tzk_normal", "tzk_normalB",
          "tz_en", "tz_enB", "tzk_recovery", "tzk", "bl_normal", "bl_normalB",
          "bl_recovery", "bl", "bootloader", "post_bootloader",
          "postbootloaderB", "boot", "bootimgs", "kernel", "system", "rootfs",
          "fastboot_1st", "fastboot_2nd", "fastboot", "firmware", "fastlogo",
          "fastlogoB", "pre-bootloader", "recovery", "app", "misc"}
Partitions == [base : Bases, slot : {"", "_a", "_b"}]

(* The names among these that begin like another one: <<shorter, longer>> *)
Beginnings == {<<"tzk_normal", "tzk_normalB">>, <<"tz_en", "tz_enB">>,
               <<"bl_normal", "bl_normalB">>, <<"bl", "bl_normal">>,
               <<"bl", "bl_normalB">>, <<"bl", "bl_recovery">>,
               <<"tzk", "tzk_normal">>, <<"tzk", "tzk_normalB">>,
               <<"tzk", "tzk_recovery">>, <<"key", "key_1st">>,
               <<"key", "key_2nd">>, <<"boot", "bootloader">>,
               <<"boot", "bootimgs">>, <<"fastboot", "fastboot_1st">>,
               <<"fastboot", "fastboot_2nd">>, <<"fastlogo", "fastlogoB">>}

(* What a subimage may be put together from, as pairs <<source, version>>;
   app is packed from what the modules installed into home/galois.        *)
Made == (Inputs \cup {"block0", "zeros", "oem", "avb"}) \X (0 .. MaxVersion)
        \cup {"version_table"} \X Seq(Bases)
        \cup {"app"} \X SUBSET UNION {c.appliances : c \in Configs}

ASSUME ConfigAssumption ==
    /\ \A c \in Configs :
        /\ c.boot \in {"emmc", "nand"}
        /\ c.options \subseteq {"genx", "preload_ta", "fastlogo", "fastboot",
                                "android", "runtime", "app", "ab"}
        /\ "preload_ta" \in c.options => c.boot = "emmc"
        /\ "app" \in c.options => c.boot = "nand"
        /\ c.tables # {} /\ c.tables \subseteq Seq(Partitions)
        /\ c.changing \subseteq Inputs
        /\ c.packs \subseteq Payloads \cup {"ta"}
        /\ "ta" \in c.packs => c.boot = "emmc"
        /\ "block0" \in c.packs => c.boot = "nand"
    /\ {MaxVersion, MaxRuns, MaxKills} \subseteq Nat
    /\ Absent \notin Payloads /\ Absent \notin Seq(Made)
    /\ \A c \in Configs : \A S \in SUBSET c.appliances : S # Absent

VARIABLES
    config,    \* the configuration, fixed while out/ is there
    table,     \* the product's partition table
    input,     \* the version of each input, or Absent
    sub,       \* subimg_intermediate: the content of each x.subimg, or Absent
    logo,      \* out/fastlogo: the files on the way to fastlogo_en.subimg
    galois,    \* home/galois of the rootfs: who installed into it
    appdir,    \* out/app, what squashfs or yaffs2 packs as app
    built,     \* the modules of Appliances whose stamp is there
    todo,      \* the commands the running script has still to run
    names,     \* subimg_list: the names it releases, in the table's order
    recovery,  \* the script's tzk_recovery: the module behind that name
    release,   \* the release directory: the content under each name
    listed,    \* the image list or layout that was released
    info,      \* NAND: the line of the layout x.subimg.info was made from
    outcome,   \* "none", "running", "packing", "ok", "packed", "failed"
    runs, kills

disk == <<sub, logo, galois, appdir, release, listed, info>>
shell == <<todo, names, recovery, outcome>>
vars == <<config, table, input, built, disk, shell, runs, kills>>

Boot == config.boot             \* CONFIG_IMAGE_EMMC or CONFIG_IMAGE_NAND
Options == config.options       \* the options that are y
Tables == config.tables         \* what emmc.pt or nand.pt may list
Changing == config.changing     \* the inputs that come, go or change
Packs == config.packs           \* what is packed alone with image-pack
Appliances == config.appliances \* the modules that install into home/galois

On(option, steps) == IF option \in Options THEN steps ELSE <<>>
Steps(kind, payloads) == [i \in DOMAIN payloads |-> <<kind, payloads[i]>>]

-----------------------------------------------------------------------------
(* The scripts, as sequences of commands *)

LogoSteps == <<<<"logo", "unzip">>, <<"logo", "move">>, <<"logo", "sign">>,
               <<"pack", "fastlogo">>>>

(* handle_fs_subdir and create_filesystem_image *)
FsSteps ==
    IF "app" \in Options
    THEN <<<<"app", "remove">>, <<"app", "move">>, <<"app", "mkdir">>,
           <<"pack", "rootfs">>, <<"pack", "app">>>>
    ELSE <<<<"pack", "system">>>>

EmmcPack ==
    <<<<"table", "">>, <<"map", "">>>>
    \o Steps("pack", <<"preboot", "tee", "tee_recovery", "bootloader">>)
    \o On("genx", Steps("pack", <<"firmware">>))
    \o On("preload_ta", Steps("pack", <<"ta">>))
    \o On("genx", LogoSteps)
    \o Steps("pack", <<"key">>)
    \o On("fastboot", Steps("pack", <<"fastboot">>))
    \o On("runtime", Steps("pack", <<"linux_bootimgs">>) \o FsSteps)

EmmcRelease ==
    <<<<"list", "">>>>
    \o Steps("release", <<"preboot", "tee", "tee_recovery">>)
    \o On("android", Steps("release", <<"fastboot">>))
    \o Steps("release", <<"bootloader">>)
    \o On("genx", Steps("release", <<"firmware">>))
    \o Steps("release", <<"key">>)
    \o On("runtime", Steps("release", <<"linux_bootimgs", "system">>))
    \o On("fastboot", Steps("release", <<"fastboot">>))
    \o On("fastlogo", <<<<"copy", "fastlogo">>, <<"release", "fastlogo">>>>)
    \o On("ab", <<<<"copy", "misc">>>>)

NandPack ==
    <<<<"table", "">>>>
    \o Steps("pack", <<"block0">>)
    \o Steps("pack", <<"preboot", "tee", "tee_recovery", "bootloader",
                       "linux_bootimgs">>)
    \o FsSteps \o Steps("pack", <<"key">>)

NandRelease == <<<<"list", "">>, <<"parts", "">>, <<"unify", "">>>>

Full == IF Boot = "emmc" THEN EmmcPack \o EmmcRelease
        ELSE NandPack \o NandRelease

(* packaging.bashrc single x: only NAND lays the table out first *)
Single(x) ==
    (IF Boot = "nand" THEN <<<<"table", "">>>> ELSE <<>>)
    \o CASE x = "tee" -> Steps("pack", <<"tee", "tee_recovery">>)
         [] x = "fastlogo" -> IF "genx" \in Options THEN LogoSteps
                              ELSE Steps("pack", <<"fastlogo">>)
         [] x = "system" -> FsSteps
         [] OTHER -> Steps("pack", <<x>>)

(* image_mapping.bashrc, and the case of nand/packaging.bashrc: the module
   whose subimage a partition of this name holds                           *)
EmmcModule(n) ==
    CASE n = "preboot" -> "preboot"
      [] n \in {"key_1st", "key_2nd", "key"} -> "key"
      [] n \in {"tzk_normal", "tzk_normalB", "tz_en", "tz_enB", "tzk"} -> "tee"
      [] n = "tzk_recovery" -> recovery
      [] n \in {"bl_normal", "bl_normalB", "bl_recovery", "bl", "bootloader",
                "post_bootloader", "postbootloaderB"} -> "bootloader"
      [] n \in {"boot", "bootimgs", "kernel"} -> "linux_bootimgs"
      [] n \in {"system", "rootfs"} -> "system"
      [] n \in {"fastboot_1st", "fastboot_2nd", "fastboot"} -> "fastboot"
      [] n = "firmware" -> "firmware"
      [] n \in {"fastlogo", "fastlogoB"} -> "fastlogo"
      [] OTHER -> Absent

NandModule(n) ==
    CASE n = "pre-bootloader" -> "preboot"
      [] n \in {"tzk_normal", "tzk_normalB"} -> "tee"
      [] n \in {"bl_normal", "bl_normalB"} -> "bootloader"
      [] n \in {"key_1st", "key_2nd"} -> "key"
      [] n \in {"boot", "recovery"} -> "linux_bootimgs"
      [] OTHER -> n

ModuleOf(n) == IF Boot = "emmc" THEN EmmcModule(n) ELSE NandModule(n)

-----------------------------------------------------------------------------
Init ==
    /\ config \in Configs
    /\ table \in Tables
    /\ input \in [Inputs -> {0, Absent}]
    /\ \A i \in Inputs \ Changing :
            input[i] = IF i = "tee_recovery" THEN Absent ELSE 0
    /\ sub = [p \in Payloads |-> Absent]
    /\ logo = [f \in {"plain", "payload", "en"} |-> Absent]
    /\ galois = {} /\ appdir = Absent /\ built = {}
    /\ todo = <<>> /\ names = <<>> /\ recovery = "tee" /\ outcome = "none"
    /\ release = [n \in Bases |-> Absent] /\ listed = <<>>
    /\ info = [n \in Bases |-> 0]
    /\ runs = 0 /\ kills = 0

-----------------------------------------------------------------------------
(* Between the runs: the modules and the product *)

Idle == outcome \notin {"running", "packing"}

(* A module or the product delivers another version, the first, or none.
   What was released is no longer judged.                                  *)
Deliver(i) ==
    /\ Idle /\ i \in Changing
    /\ \E v \in (0 .. MaxVersion) \cup {Absent} :
            v # input[i] /\ input' = [input EXCEPT ![i] = v]
    /\ outcome' = "none"
    /\ UNCHANGED <<config, table, built, disk, todo, names, recovery, runs, kills>>

EditTable ==
    /\ Idle /\ table' \in Tables \ {table} /\ outcome' = "none"
    /\ UNCHANGED <<config, input, built, disk, todo, names, recovery, runs, kills>>

(* A build script of Appliances: mkdir -p home/galois and copies into it. *)
Install(m) ==
    /\ Idle
    /\ galois' = (IF galois = Absent THEN {} ELSE galois) \cup {m}
    /\ built' = built \cup {m}
    /\ outcome' = "none"
    /\ UNCHANGED <<config, table, input, sub, logo, appdir, release, listed, info,
                   todo, names, recovery, runs, kills>>

(* The module's stamp and directory go; what it installed stays. *)
CleanModule(m) ==
    /\ Idle /\ m \in built
    /\ built' = built \ {m}
    /\ UNCHANGED <<config, table, input, disk, shell, runs, kills>>

(* make image, image-rebuild or image-clean image: build.sh clean has
   nothing to remove.  The prerequisites of image are built first.    *)
StartFull ==
    /\ Idle /\ runs < MaxRuns /\ built = Appliances
    /\ todo' = Full /\ outcome' = "running" /\ runs' = runs + 1
    /\ UNCHANGED <<config, table, input, built, disk, names, recovery, kills>>

(* make image-pack subimg=x *)
StartPack(x) ==
    /\ Idle /\ runs < MaxRuns /\ x \in Packs
    /\ todo' = Single(x) /\ outcome' = "packing" /\ runs' = runs + 1
    /\ UNCHANGED <<config, table, input, built, disk, names, recovery, kills>>

-----------------------------------------------------------------------------
(* The commands of the running script *)

env == <<config, table, input, built, runs, kills>>

Command(kind, of) == todo # <<>> /\ Head(todo) = <<kind, of>>
Go == todo' = Tail(todo) /\ UNCHANGED outcome

(* set -e and the ERR trap: the script ends at the first failing command *)
Abort == todo' = <<>> /\ outcome' = "failed"

(* parse_pt and crc; the _a and _b of an eMMC list are dropped *)
LayTable ==
    /\ Command("table", "") /\ Go
    /\ names' = [i \in DOMAIN table |-> table[i].base]
    /\ UNCHANGED <<env, disk, recovery>>

(* image_mapping.bashrc, before the tee is packed *)
ReadMapping ==
    /\ Command("map", "") /\ Go
    /\ recovery' = IF sub["tee_recovery"] # Absent THEN "tee_recovery"
                   ELSE "tee"
    /\ UNCHANGED <<env, disk, names>>

(* What a payload is made from, and whether all of it is there *)
Ready(p) ==
    CASE p = "fastlogo" -> logo["en"] # Absent
      [] p = "key" -> \/ {"genx"} = Options \cap {"genx", "android"}
                      \/ input["key"] # Absent
      [] p = "rootfs" -> input["system"] # Absent
      [] p = "app" -> appdir # Absent
      [] p = "block0" -> TRUE
      [] OTHER -> input[p] # Absent

Parts(p) ==
    CASE p = "fastlogo" -> <<<<"fastlogo", logo["en"]>>>>
      [] p = "key" ->
            (IF "genx" \in Options THEN <<<<"zeros", 0>>>>
             ELSE <<<<"oem", input["key"]>>>>)
            \o On("android", <<<<"avb", input["key"]>>>>)
      [] p = "rootfs" -> <<<<"system", input["system"]>>>>
      [] p = "preboot" /\ Boot = "nand" ->
            <<<<"preboot", input["preboot"]>>, <<"version_table", names>>>>
      [] p = "app" -> <<<<"app", appdir>>>>
      [] p = "block0" -> <<<<"block0", 0>>>>  \* from the NAND's parameters
      [] OTHER -> <<<<p, input[p]>>>>

(* The payloads prepend_image_info.sh writes: the header goes first *)
Prepended == {"tee", "tee_recovery", "bootloader", "firmware", "fastlogo",
              "fastboot", "linux_bootimgs"}

Pack_Kept(p) == \* mutant: a subimage that is there is not packed again
    /\ Command("pack", p)
    /\ IF sub[p] # Absent \/ ~ Ready(p) THEN Go /\ UNCHANGED sub
       ELSE Go /\ sub' = [sub EXCEPT ![p] = Parts(p)]
    /\ UNCHANGED <<env, logo, galois, appdir, release, listed, info, names, recovery>>

Pack(p) ==
    /\ Command("pack", p)
    /\ IF Ready(p)
       THEN Go /\ sub' = [sub EXCEPT ![p] = Parts(p)]
       ELSE IF p = "tee_recovery" THEN Go /\ UNCHANGED sub
       ELSE /\ Abort
            /\ sub' \in {sub} \cup
                  (IF p \in Prepended THEN {[sub EXCEPT ![p] = <<>>]} ELSE {})
    /\ UNCHANGED <<env, logo, galois, appdir, release, listed, info, names, recovery>>

(* preload_ta: genimg packs the TAs, cat appends them to bootloader.subimg *)
PreloadTa ==
    /\ Command("pack", "ta")
    /\ IF input["ta"] # Absent /\ sub["bootloader"] # Absent
       THEN Go /\ sub' = [sub EXCEPT !["bootloader"] =
                                Append(@, <<"ta", input["ta"]>>)]
       ELSE Abort /\ UNCHANGED sub
    /\ UNCHANGED <<env, logo, galois, appdir, release, listed, info, names, recovery>>

(* fastlogo/emmc.bashrc: gunzip does not replace a file that is there *)
UnzipLogo ==
    /\ Command("logo", "unzip")
    /\ IF input["fastlogo"] = Absent THEN Go /\ UNCHANGED logo
       ELSE IF logo["plain"] # Absent THEN Abort /\ UNCHANGED logo
       ELSE Go /\ logo' = [logo EXCEPT !["plain"] = input["fastlogo"]]
    /\ UNCHANGED <<env, sub, galois, appdir, release, listed, info, names, recovery>>

MoveLogo_Copies == \* mutant: cp for mv
    /\ Command("logo", "move") /\ Go
    /\ logo' = IF input["fastlogo"] = Absent THEN logo
               ELSE [logo EXCEPT !["payload"] = logo["plain"]]
    /\ UNCHANGED <<env, sub, galois, appdir, release, listed, info, names, recovery>>

MoveLogo ==
    /\ Command("logo", "move") /\ Go
    /\ logo' = IF input["fastlogo"] = Absent THEN logo
               ELSE [logo EXCEPT !["payload"] = logo["plain"],
                                 !["plain"] = Absent]
    /\ UNCHANGED <<env, sub, galois, appdir, release, listed, info, names, recovery>>

SignLogo ==
    /\ Command("logo", "sign") /\ Go
    /\ logo' = IF logo["payload"] = Absent THEN logo
               ELSE [logo EXCEPT !["en"] = logo["payload"]]
    /\ UNCHANGED <<env, sub, galois, appdir, release, listed, info, names, recovery>>

(* handle_fs_subdir with an app filesystem: three commands *)
RemoveApp ==
    /\ Command("app", "remove") /\ Go /\ appdir' = Absent
    /\ UNCHANGED <<env, sub, logo, galois, release, listed, info, names, recovery>>

MoveGalois ==
    /\ Command("app", "move")
    /\ IF galois = Absent THEN Abort /\ UNCHANGED <<galois, appdir>>
       ELSE Go /\ appdir' = galois /\ galois' = Absent
    /\ UNCHANGED <<env, sub, logo, release, listed, info, names, recovery>>

MakeGalois ==
    /\ Command("app", "mkdir") /\ Go
    /\ galois' = IF galois = Absent THEN {} ELSE galois
    /\ UNCHANGED <<env, sub, logo, appdir, release, listed, info, names, recovery>>

ReleaseList ==
    /\ Command("list", "") /\ Go /\ listed' = names
    /\ UNCHANGED <<env, sub, logo, galois, appdir, release, info, names, recovery>>

(* emmc_release_subimg_imagelist: one name after the other *)
NamesOf(p) == {n \in ToSet(names) : ModuleOf(n) = p}

Release(p) ==
    /\ Command("release", p)
    /\ IF NamesOf(p) # {} /\ sub[p] = Absent THEN Abort /\ UNCHANGED release
       ELSE Go /\ release' = [n \in Bases |-> IF n \in NamesOf(p) THEN sub[p]
                                              ELSE release[n]]
    /\ UNCHANGED <<env, sub, logo, galois, appdir, listed, info, names, recovery>>

(* packaging.bashrc copies these without a look at the table *)
CopyFastlogo ==
    /\ Command("copy", "fastlogo") /\ Go
    /\ IF "genx" \in Options
       THEN /\ release' = IF sub["fastlogo"] = Absent THEN release
                          ELSE [release EXCEPT !["fastlogo"] = sub["fastlogo"]]
            /\ UNCHANGED sub
       ELSE IF input["fastlogo"] = Absent THEN UNCHANGED <<sub, release>>
       ELSE LET gz == <<<<"fastlogo", input["fastlogo"]>>>>
            IN /\ release' = [release EXCEPT !["fastlogo"] = gz]
               /\ sub' = [sub EXCEPT !["fastlogo"] = gz]
    /\ UNCHANGED <<env, logo, galois, appdir, listed, info, names, recovery>>

CopyMisc ==
    /\ Command("copy", "misc") /\ Go
    /\ release' = IF input["misc"] = Absent THEN release
                  ELSE [release EXCEPT !["misc"] = <<<<"misc", input["misc"]>>>>]
    /\ UNCHANGED <<env, sub, logo, galois, appdir, listed, info, names, recovery>>

(* nand_gen_subimg_info for every part; it fails at one without subimage.
   grep "^name" finds the lines that begin with the name, and the fields of
   the first of them are taken.                                             *)
Held(n) == ModuleOf(n) \in Payloads /\ sub[ModuleOf(n)] # Absent
LayoutLine_Last(n) == CHOOSE i \in DOMAIN names : \* mutant: the last such line
    /\ names[i] = n \/ <<n, names[i]>> \in Beginnings
    /\ \A j \in i + 1 .. Len(names) :
            names[j] # n /\ <<n, names[j]>> \notin Beginnings
LayoutLine(n) == CHOOSE i \in DOMAIN names :
    /\ names[i] = n \/ <<n, names[i]>> \in Beginnings
    /\ \A j \in 1 .. i - 1 : names[j] # n /\ <<n, names[j]>> \notin Beginnings

ReleaseParts ==
    /\ Command("parts", "")
    /\ \E k \in 0 .. Len(names) :
          LET done == ToSet(SubSeq(names, 1, k))
          IN /\ \A n \in done : Held(n)
             /\ IF k = Len(names) THEN Go ELSE Abort /\ ~ Held(names[k + 1])
             /\ release' = [n \in Bases |-> IF n \in done THEN sub[ModuleOf(n)]
                                            ELSE release[n]]
             /\ info' = [n \in Bases |-> IF n \in done THEN LayoutLine(n)
                                         ELSE info[n]]
    /\ UNCHANGED <<env, sub, logo, galois, appdir, listed, names, recovery>>

(* gen_uniimg joins what lies in subimgs: the release itself is not read back *)
Unify ==
    /\ Command("unify", "") /\ Go
    /\ UNCHANGED <<env, disk, names, recovery>>

Finish ==
    /\ ~ Idle /\ todo = <<>>
    /\ outcome' = IF outcome = "running" THEN "ok" ELSE "packed"
    /\ UNCHANGED <<env, disk, todo, names, recovery>>

(* Interrupted: the file the command at hand writes is as it was or torn. *)
Kill ==
    /\ todo # <<>> /\ kills < MaxKills
    /\ kills' = kills + 1 /\ todo' = <<>> /\ outcome' = "failed"
    /\ LET kind == Head(todo)[1]
           of == Head(todo)[2]
           target == IF of = "ta" THEN "bootloader" ELSE of
           writes == CASE kind = "release" -> NamesOf(of)
                       [] kind = "parts" -> {n \in ToSet(names) : Held(n)}
                       [] kind = "copy" -> {of}
                       [] OTHER -> {}
       IN /\ sub' \in {sub} \cup
               (IF kind = "pack" THEN {[sub EXCEPT ![target] = <<>>]} ELSE {})
          /\ \E torn \in SUBSET writes :
                /\ Cardinality(torn) <= 1
                /\ release' = [n \in Bases |-> IF n \in torn THEN <<>>
                                               ELSE release[n]]
    /\ UNCHANGED <<config, table, input, built, logo, galois, appdir, listed, info,
                   names, recovery, runs>>

-----------------------------------------------------------------------------
Next ==
    \/ \E i \in Changing : Deliver(i)
    \/ EditTable
    \/ \E m \in Appliances : Install(m) \/ CleanModule(m)
    \/ StartFull
    \/ \E x \in Packs : StartPack(x)
    \/ LayTable \/ ReadMapping \/ PreloadTa
    \/ \E p \in Payloads : Pack(p) \/ Release(p)
    \/ UnzipLogo \/ MoveLogo \/ SignLogo
    \/ RemoveApp \/ MoveGalois \/ MakeGalois
    \/ ReleaseList \/ CopyFastlogo \/ CopyMisc \/ ReleaseParts \/ Unify
    \/ Finish \/ Kill

Spec == Init /\ [][Next]_vars

-----------------------------------------------------------------------------
(* Properties *)

(* What the scripts may find on the disk and in their variables. *)
TypeOK ==
    /\ config \in Configs
    /\ table \in Tables
    /\ input \in [Inputs -> (0 .. MaxVersion) \cup {Absent}]
    /\ sub \in [Payloads -> Seq(Made) \cup {Absent}]
    /\ logo \in [{"plain", "payload", "en"} -> (0 .. MaxVersion) \cup {Absent}]
    /\ galois = Absent \/ galois \subseteq Appliances
    /\ appdir = Absent \/ appdir \subseteq Appliances
    /\ built \subseteq Appliances
    /\ names \in Seq(Bases) /\ listed \in Seq(Bases)
    /\ recovery \in {"tee", "tee_recovery"}
    /\ release \in [Bases -> Seq(Made) \cup {Absent}] /\ DOMAIN info = Bases
    /\ outcome \in {"none", "running", "packing", "ok", "packed", "failed"}
    /\ runs \in 0 .. MaxRuns /\ kills \in 0 .. MaxKills

(* The payloads a full run of this configuration packs *)
Packed == {p \in Payloads : \E i \in DOMAIN Full : Full[i] = <<"pack", p>>}

(* The inputs it cannot do without *)
Wanted == ((Packed \cap Inputs) \ {"tee_recovery", "fastlogo"})
          \cup (IF "preload_ta" \in Options THEN {"ta"} ELSE {})
          \cup (IF "rootfs" \in Packed THEN {"system"} ELSE {})

(* The payloads a full run of this configuration delivers: an eMMC product has
   its own fastlogo copied when there is none to sign.                       *)
Delivered == Packed \cup (IF Boot = "emmc" /\ "fastlogo" \in Options
                         THEN {"fastlogo"} ELSE {})

(* What a payload is made of, told by the present inputs, options and layout *)
Current(p) ==
    CASE p = "key" -> <<IF "genx" \in Options THEN <<"zeros", 0>>
                        ELSE <<"oem", input["key"]>>>>
                      \o On("android", <<<<"avb", input["key"]>>>>)
      [] p = "bootloader" ->
            <<<<"bootloader", input["bootloader"]>>>>
            \o On("preload_ta", <<<<"ta", input["ta"]>>>>)
      [] p = "preboot" ->
            <<<<"preboot", input["preboot"]>>>>
            \o IF Boot = "nand" THEN <<<<"version_table", listed>>>> ELSE <<>>
      [] p = "rootfs" -> <<<<"system", input["system"]>>>>
      [] p = "app" -> <<<<"app", appdir>>>>
      [] p = "block0" -> <<<<"block0", 0>>>>
      [] OTHER -> <<<<p, input[p]>>>>

(* After a full run the list is the present table's, and every partition on it
   was released, whole and made from the present inputs, each of them once, as
   was misc: no subimage of an earlier, failed, killed or single pack shows
   through in the release.  Not told are the partitions whose name stands for
   no payload, or for one this configuration does not deliver; the recovery TEE
   (see RecoveryIsItsOwn); a fastlogo, or a misc, that the product withdrew; and
   whether out/app, from which app is packed, has what the modules installed.  *)
ReleaseIsCurrent ==
    outcome = "ok" =>
        /\ listed = [i \in DOMAIN table |-> table[i].base]
        /\ \A n \in ToSet(listed) :
              LET p == ModuleOf(n)
              IN /\ p \in Delivered \ {"tee_recovery"}
                 /\ p = "fastlogo" => input["fastlogo"] # Absent
                 => release[n] = Current(p)
        /\ Boot = "emmc" /\ "ab" \in Options /\ input["misc"] # Absent =>
              release["misc"] = <<<<"misc", input["misc"]>>>>

(* A run that nobody kills ends before its last command only for want of an
   input, or for one of the two things a killed run leaves behind that no
   later one repairs: the unpacked fastlogo.subimg, which gunzip will not
   replace, and a rootfs without home/galois, which mv does not find.       *)
FailsOnlyForWant ==
    [][outcome = "running" /\ outcome' = "failed" /\ kills' = kills =>
          \/ \E i \in Wanted : input[i] = Absent
          \/ logo["en"] = Absent /\ input["fastlogo"] = Absent
          \/ kills > 0 /\ (logo["plain"] # Absent \/ galois = Absent)]_vars

(* NAND: the info of every part was made from the part's own line of the
   layout, as the comment over the grep says.                              *)
OwnLayout ==
    Boot = "nand" /\ outcome = "ok" => \A n \in ToSet(listed) :
        info[n] \in DOMAIN listed /\ listed[info[n]] = n

(* A layout lists a partition before those whose names begin with its name:
   without that grep takes a line of theirs.                                 *)
LongNamesLast ==
    \A c \in Configs : c.boot = "nand" => \A t \in c.tables :
        \A i, j \in DOMAIN t : <<t[j].base, t[i].base>> \in Beginnings =>
            \E k \in 1 .. i - 1 : t[k].base = t[j].base

(* A product lists a fastlogo only with CONFIG_BL_FASTLOGO: CONFIG_GENX_ENABLE
   alone has one packed, but not released (emmc/packaging.bashrc).           *)
LogoReleased ==
    \A c \in Configs : c.boot = "emmc" /\ "genx" \in c.options /\ "fastlogo" \notin c.options =>
        \A t \in c.tables : \A i \in DOMAIN t : t[i].base \notin {"fastlogo", "fastlogoB"}

(* A product lists a partition only if its configuration has the subimage
   packed.  The NAND release wants one for every name of the table, and the
   eMMC release copies fastboot for CONFIG_ANDROID, which packs none without
   CONFIG_FASTBOOT.                                                          *)
ListsPacked ==
    \A c \in Configs : \A t \in c.tables : \A i \in DOMAIN t :
        /\ c.boot = "nand" =>
                t[i].base \in {"block0", "pre-bootloader", "preboot", "tzk_normal", "tzk_normalB",
                              "bl_normal", "bl_normalB", "bootloader", "boot", "recovery",
                              "key_1st", "key_2nd", "key"}
                             \cup (IF "app" \in c.options THEN {"rootfs", "app"}
                                   ELSE {"system"})
        /\ c.boot = "emmc" /\ "android" \in c.options /\ "fastboot" \notin c.options =>
                t[i].base \notin {"fastboot_1st", "fastboot_2nd", "fastboot"}

(* When the TEE module delivers a recovery TEE, the partition tzk_recovery of
   the release holds it: that is its line in the mapping.                    *)
RecoveryIsItsOwn ==
    outcome = "ok" /\ "tzk_recovery" \in ToSet(listed)
    /\ input["tee_recovery"] # Absent =>
        release["tzk_recovery"] = <<<<"tee_recovery", input["tee_recovery"]>>>>
=============================================================================
