# A verification project for the VSSDK build system

The repository is the build system of an SDK for set-top-box and speaker SoCs.
It is checked out as `build/` at the top of the SDK tree. A user configures a
product (`make x_defconfig`, `make menuconfig`, ...) and builds it (`make`,
`make image`): every module of the SDK is cleaned, built and stamped in the
order of its dependencies, and the module `image` packs the results into the
images that are flashed to the eMMC or NAND of a board.

Paths below are relative to the repository.

## 1. Inventory

### 1.1 The parts, their state and their operations

| part | code | state it keeps | operations |
|---|---|---|---|
| module build rules | `Makefile`, `Makefile.top`, `module/module.mk`, `module/*/*.mk` | `out/BUILD/X/.stamp_target_{cleaned,built,released}`, the directories beside them | `x`, `x-build`, `x-clean`, `x-rebuild`, `x-release`, `x-depends`, `all`, `distclean`, with `-j` |
| module dependencies | `module/*/*.mk` | none (a relation computed from `.config`) | `X_DEPENDENCIES` |
| module scripts | `module/*/build.sh`, `clean.sh`, `release.sh` | the build directories, `out/target`, `out/release` | build, clean, release |
| toplevel, tools, environment | `build.sh`, `header.rc`, `tool.rc`, `chip.rc`, `security.rc`, ... | `out/host`, shell variables | build of the host tools |
| partition table generators | `tools/src/executables/parse_pt_emmc`, `parse_pt` | a table in memory; `emmc_part_table`, `emmc_part_list`, `linux_params_mtdparts`, `subimglayout`, `emmc_image_list`, `version_table` | one pass over a partition list |
| image packing | `module/image/` | `subimg_intermediate/`, `out/fastlogo`, `out/app`, `home/galois` of the rootfs, the release directory | `make image`, `make image-pack subimg=x` |
| image containers | `genimg`, `gen_uniimg`, `gen_subimg_info`, `crc`, `prepend_image_info.sh` | files | concatenate, pad, describe |
| signing helpers | `tools/bin/gen_*secure_image`, `in_extras.py`, `tools/lib/sec_tools` | scratch files in the current directory | sign, encrypt |
| preboot, external preboot | `module/preboot`, `module/external_preboot` | intermediate directories | stages 1 to 4 |
| TEE, TA and firmware encryption | `module/tee`, `module/ta_enc`, `module/fw_enc` | files | headers, encryption |
| kconfiglib: values and caches | `tools/src/kconfiglib/kconfiglib.py` (`Symbol`, `Choice`, `expr_value`, `_visibility`) | user values and selections; cached values, visibilities, assignable values, selections; `_was_set` | `set_value`, `unset_value`, `load_config`, the properties |
| kconfiglib: writing configurations | the same file (`write_config`, `write_min_config`, `write_autoconf`, `_save_old`) | `.config`, `.config.old`, `defconfig`, `autoconf.h` | write, compare, keep the old file |
| kconfiglib: parser | the same file (tokenizer, preprocessor, `_parse_*`, `_finalize_node`, `_check_dep_loop_*`) | the file that is read and those that source it, the menu tree | parse, finalize, search for loops |
| Kconfig front ends | `menuconfig.py`, `oldconfig.py`, `olddefconfig.py`, `defconfig.py`, `alldefconfig.py`, `allnoconfig.py` | what is shown, the cursor, dialogs, unsaved changes, the pass over the tree | configure |
| merging configurations | `utils.rc` (`do_override`), `scripts/override_config`, `merge_config.sh` | `out/.config` | replace options, run `oldconfig` |
| third-party programs | `mkyaffs2img`, `mkbootimg`, `tools/src/kbuild` | | |
| IP verification | `ip_verify/` | lists of files | compare |

### 1.2 How they interact

* The front ends write `.config`. `Makefile.top` includes it, so it decides which
  modules exist (`PACKAGES`), what each depends on, and through
  `CONFIG_IMAGE_EMMC`/`CONFIG_IMAGE_NAND`, `CONFIG_GPT`, `CONFIG_GENX_ENABLE` and
  others which scripts run.
* `module.mk` runs the scripts as recipes. Their only common memory is the file
  system: what a module leaves in its directory, in `out/target` and in
  `out/release` is read by modules that depend on it, in this invocation of make or
  a later one. Stamps decide what is skipped.
* `image` runs last. Its scripts call `parse_pt`/`parse_pt_emmc` for the layout, take
  payloads from the release directories of `preboot`, `tee`, `bootloader`, `linux`, ...,
  sign them and put them in containers.
* In kconfiglib a front end calls `set_value` and reads properties. Reads fill caches,
  and `set_value` must empty those that depend on what was set, over `_dependents`
  that `_build_dep` computed from the tree once.

### 1.3 What is hard

* *Interleaving*: under `-j` recipes of many modules run at once. Order-only
  prerequisites are all that separates them.
* *Crashes and partial failures*: nothing in `out/` is written atomically. An
  invocation that is killed or fails leaves stamps, subimages and moved directories
  for the next one. `.config` is renamed before the new one is written.
* *Stale state*: intermediate directories are never emptied. Order-only dependencies
  do not rebuild. The caches of kconfiglib are invalidated by a rule that stops early. The list on
  the screen of `menuconfig` is a copy of the tree that every value, file or mode can outdate.
* *A structure changed while it is walked*: `_finalize_node` moves nodes into implicit menus,
  flattens ifs and cuts lists as it goes. The search for dependency loops marks symbols on the way.
* *Order of steps*: the packing script decides what a partition is made from before
  the step that makes it. `parse_pt_emmc` writes its table before it checks it.
* *Arithmetic*: some partition sizes are computed in `int`, some in 64 bits; some are
  truncated to MB, some to sectors, some to blocks.

`PROJECT.json` lists each hazard at its line under "hazards", with the property
that would catch it, or the reason why there is none yet.

### 1.4 What makes each part correct

| part | it is correct when |
|---|---|
| module rules | a stamp stands for a complete build from the present output of its dependencies; a script's input does not change under it; every invocation ends; a rebuild rebuilds |
| partition tables | partitions do not overlap, fit the flash, leave both GPTs alone, waste nothing; all files describe one table |
| image packing | a release holds the partitions of the present table, whole, from the present inputs; a run fails only for want of an input |
| kconfiglib values | a cached value is the value; a replacing load forgets what was there before |
| writing configurations | what is written loads to the same configuration, also a minimal one; a crash loses at most the new file |
| parser | the tree is the one that the text says: every node once, with its place, its dependencies and its properties; what would not evaluate is refused |
| front ends | no change is lost silently; `oldconfig` asks everything once and ends; what is on the screen is there, and every menu can be left |
| merging | what is requested is what is in `.config` afterwards, or it is reported |
| containers | offsets in headers are where the parts are |

## 2. The modules

```
BuildPromise   <-- refined by --  ModuleBuild       MCModuleBuild    ModuleBuildProofs
                                  PartTable         MCPartTable      PartTableProofs
                                  ImagePack         MCImagePack      ImagePackProofs
KconfigItems   <-- extended by -- KconfigTree       (the tree and the evaluation)
               <-- extended by -- KconfigCache      MCKconfigCache   KconfigCacheProofs
               <-- extended by -- KconfigFiles      MCKconfigFiles   KconfigFilesProofs
               <-- extended by -- MenuScreen        MCMenuScreen     MenuScreenProofs
KconfigNodes   <-- extended by -- KconfigLoops  <-- extended by -- KconfigParse   MCKconfigParse
KconfigRead    <-- extended by -- KconfigParse      (the lines and the nodes)     KconfigReadProofs
LeastNumber    a lemma for ImagePackProofs, KconfigCacheProofs, KconfigFilesProofs and MenuScreenProofs
```

`KconfigCache`, `KconfigFiles` and `MenuScreen` take the evaluation of a Kconfig as a constant. Their MC
modules extend `KconfigTree` too and give it the evaluation of a tree. In the same way `KconfigRead` takes what is made of the nodes that it
reads as constants (`Finalize`, `LoopSeen`), to which `KconfigParse` gives `FinalTree` and `LoopsIn`.

### ModuleBuild

`module.mk` under make, from the goals on the command line to the lines of each
recipe. `stamp` and `tree` are what is on the disk, `st` how far make is with each
target of this invocation (`todo`, at a line of its recipe, `done`, `failed`), `goals`
what is left of the command line, `ver` and `used` tell one output of a module from the next and which one another
module was built from.

| action | code |
|---|---|
| `Start(g, n)` | make is invoked with goals `g` and `-jn`: `make`, `x`, `x-clean`, `x-rebuild`, `x-depends`, `all`. A serial make takes up a goal when the one before is done |
| `Skip`, `Launch` | a target with its stamp is skipped, another is launched when its prerequisites are done and a job is free |
| `RemoveDir`, `CleanScript`, `BuildScript`, `FinishScript`, `Touch` | the lines of the recipes (`module.mk:31-58`): remove the directory, clean script, `build.sh` or `release.sh`, touch |
| `ForceClean`, `RemoveBuilt` | `X_TARGET_FORCE_CLEAN`, `X_TARGET_REBUILD` |
| `FinishToplevel` | the recipe of `toplevel`, which has no stamp |
| `Fail`, `Kill`, `End`, `Distclean` | a line fails; the invocation is killed; it ends; `out/` is removed |

A build script is two steps: it starts on the output of its dependencies and it
ends. That is where another recipe can disturb it. `touched` remembers which modules the
user cleaned or rebuilt *by name*: dependencies are order-only, so the code leaves
their dependents alone on purpose, and the properties except those.

`BuildPromise` is the abstract specification: a module becomes built when all it
needs is built, and what was built can be lost. `KeepsPromise` is the
refinement, `built` being the modules with a final stamp.

### PartTable

Both generators (the flash that is given chooses: one with a GPT is `parse_pt_emmc`'s), from the arguments to the last file.
Each action is one turn of a loop of `main` or a stretch between loops: `ReadLine`
(placing upwards), `PlaceHigh` (downwards from the end), `PlaceRest`,
`PlaceHalfRest`, `RedoHigh` (once the flash has shrunk), `WritePartTable`,
`CheckEntry` (the comparison of neighbours), `EmitEntry` (a row in every other
file), and one `Reject...` or `IoError` for each exit. `int` products wrap at a width
that is a constant; 64-bit values are unbounded, but comparisons that C makes unsigned are.

### ImagePack

The packing scripts as sequences of commands (`EmmcPack`, `EmmcRelease`, `NandPack`,
...), each command an action, over a disk that outlives the runs. A subimage is the
sequence of what it was put together from, with the version of each input, which
is what "made from the present inputs, once" needs. Before and between runs `Deliver`
changes an input, `EditTable` the partition table, `Install` and `CleanModule` what is in
`home/galois`. `Kill` leaves the file that was being written begun and unfinished.

`Delivered` are the payloads that a full run of a configuration puts into the release, and `Current(p)` is what a payload is
made of, told by the present inputs, options and layout only. `ReleaseIsCurrent` compares the release with it, name by name.

### KconfigItems, KconfigTree, KconfigCache

`KconfigTree` is the pure part: from a menu tree (nodes with prompt, dependency,
`visible if`, defaults, ranges, selects and implies) to dependencies, reverse
dependencies and `_dependents` (`_build_dep`, `_add_choice_deps`),
and from user values to what each property is worth *and which cached
properties were read to find that out*. Those reads follow the short circuits of the
code (`and` stops at n, the first default wins, ...), because a cache that was not read
is a cache that is not filled.

`KconfigCache` is the state machine over any such table: `Get` fills the caches
that an evaluation reads; `SetValue`, `SetChoiceValue`, `UnsetValue`, `UnsetChoiceValue`
change user values and invalidate by `Reach`, the least set that `_rec_invalidate` walks
(it stops at items whose visibility is not cached, and `MODULES` invalidates everything);
`LoadConfig`, `LoadLine`, `LoadEnd`, `UnsetRest`, `Return` are `load_config`, line by line, with
`_was_set`.

The table is the CONSTANT operator `Worth`. What the invalidation needs of it is in three
assumptions (`TouchAssumption`: what is read for a node that is read is read for the
node; `DeterminedAssumption`: what is not read makes no difference;
`TrackedAssumption`: `_dependents` leads from what is read to who read it). TLC
evaluates them for the table that `KconfigTree` computes from the instance's
tree, so they check `_build_dep` against `expr_value`, `_visibility`, `str_value`,
`tri_value`, `_assignable` and `_selection`.

### KconfigFiles

What front ends do with `.config` and other files, one program after the other. `disk` and
`old` are the files and their `.old`, a file being the sequence of its assignments. `user`,
`conf_filename`, `changed` and `cursor` are the memory of the program that runs, and are forgotten when
it exits. `View(u)` is what `KconfigTree` makes of user values; there are no caches, since
`Coherent` of KconfigCache says that they cannot be noticed.

| action | code |
|---|---|
| `StartMenu`, `Edit`, `SaveDialog`, `LoadDialog`, `Quit`, `QuitAndSave` | `menuconfig.py`: `_load_config` with `_needs_save`, the keys that change an item, the dialogs of `s`, `d`, `o`, `q` |
| `StartOldconfig`, `AnswerSymbol`, `AnswerChoice`, `Skip`, `EndPass` | `oldconfig.py`: one node of the tree each, and the end of a pass |
| `Rewrite(f)` | `defconfig.py` on `f`, `olddefconfig.py`: load, then write |
| `AllConfig(base, f)` | `alldefconfig.py` (nothing set) and `allnoconfig.py` (n wherever it can be): what `KCONFIG_ALLCONFIG` names is loaded over it, then write |
| `BeginWrite`, `OpenFile`, `WriteData` | `write_config` and `write_min_config`: compare, rename to `.old` (not for a minimal one), open, write |
| `Kill`, `Fail` | the program is killed anywhere; opening or writing raises an `EnvironmentError`. A file that was open keeps part of its lines, the last one perhaps cut short |

`torn` and `kept` are history: what a write that did not end was to write, and what the file
held when it was last whole.

### MenuScreen

What `menuconfig` shows. `main` is the main display: the menu `cur`, the list `shown`, the
index `sel` into it, `scroll`, and `rows`, the row of the cursor in each menu above. `now` is
`View(user)`, what the values make of the tree. The list is computed by the handlers and never by
the drawing, so that a handler that forgets it leaves it stale: that is `ShownIsCurrent`.
`dialogs` is the stack of windows above the display, each of which handles its own keys
and resizes. `lost` is set where the code looks for a node in a list that does not have it and
raises `ValueError`.

| action | code |
|---|---|
| `Resize(t)` | `KEY_RESIZE`, in whatever loop it arrives |
| `MoveCursor`, `EnterSelected`, `LeaveCurrent` | the movement keys, `_enter_menu`, `_leave_menu` |
| `ShowAll`, `ShowHelp` | `_toggle_show_all`, `_toggle_show_help` |
| `ChangeSelected`, `SetSelected`, `ChangeText` | `_change_node` (Space, Enter), `_set_sel_node_tri_val` (n, m, y), the edit box for a value; all with `_set_val` and `_update_menu` |
| `AskForFile`, `LoadFile` | `_load_dialog` |
| `TypeInput`, `EnterText`, `RefuseInput` | the keys of an edit box (`_edit_text`), a value or name that is taken, one that is not |
| `AskToQuit`, `Quit`, `CloseDialog` | `_quit_dialog`, any key that ends a dialog |
| `OpenInfo`, `ScrollInfo`, `OpenJump`, `MoveMatch`, `TypeSearch`, `AcceptMatch`, `CloseFull` | `_info_dialog`, `_jump_to_dialog`, `_jump_to`; each can be opened from the other |

`_shown_nodes` goes through the tree in its order and appends what appears; `Only` is that loop, so that
`ShownNodes` is the order of the tree without the nodes that do not appear or are repeated. `Bearers`
and `Above` say which nodes make an invisible symbol appear and which menus are above a node.
`TreeAssumption` is what the parser makes of any text (a parent comes before its children; menus and
choices are `is_menuconfig`), `ScreenAssumption` what curses and the constants of the code give (sizes
are natural numbers, the scroll offset is not 0).

What the screen relies on beyond that is `ValuesFit` and `PlainChoices`. `ValuesFit` is about the values:
a node that is visible is in menus and choices that are visible, in all locations of a choice (`MenusFollow`);
a node that is given a value still appears (`StaysListed`); the value from which Space goes on is one of
those it chooses from (`ValuesOffered`). `PlainChoices` is about the tree: no choice that has several locations
holds a menu, or a symbol with another node. Section 4 says what `menuconfig` does without each of them.

### KconfigRead, KconfigNodes, KconfigLoops, KconfigParse

From the text of a Kconfig to its tree. `KconfigRead` reads it line by line: `NextLine` is
`_next_line`, `FirstLine` and `MoreLines` are the loops of `_parse_help`; `Blank`, `Define`, `If`, `EndBlock`,
`Source`, `EndOfFile` and `RefuseLine` are the branches of `_parse_block`; `Property`, `EndProps` and
`RefuseProperty` those of `_parse_props`. The Python stack is in the state: `blocks` has a record for
each call of `_parse_block`, `filestack` the files that are read further out, `tokens` the line that
one function leaves to another. A text is chosen as it is read; `Offer` says which lines may come.

`Finish` applies `FinalizeNode` (KconfigNodes) to the whole tree: `PropagateDeps`, `Absorb` (nodes
that depend on a symbol become its implicit menu), `Flatten`, `RemoveIfs`, `FinalizeChoice`, `AddProps`, in
the order of `_finalize_node`, on nodes that are linked by `list`, `next` and `parent` as in the code. Then
`LoopFound` (KconfigLoops) is `_check_dep_loop_sym` and `_check_dep_loop_choice` with the marks they leave,
for any order in which Python gives the sets that they go through.

`FilesNest` and `Located` are about the reader in every state: the files and blocks that are open, and the places of the nodes made so far.
The other properties compare the result with `Said`, a reference definition in KconfigParse: it says of each node from
the lines alone what it is below and what it depends on. `AsWritten` compares the nodes and blocks with the lines in that way, those of help texts left out.

## 3. What is checked

| run | instance | properties |
|---|---|---|
| `build` | `security`, `tee`, `image`, `toplevel`; `-j1` or `-j2`; five command lines; 3 invocations; fair | `TypeOK`, `StampsConsistent`, `StampMeansWhole`, `Undisturbed`, `SerialRebuilds`, `KeepsPromise`, `EveryRunEnds` |
| `rebuild_parallel` | `-j2 x-rebuild` | `RebuildRebuilds`: violated |
| `part_table` | two eMMC flashes with every list of up to 3 of 11 kinds of lines, a NAND flash with every list of up to 4 of 7 | `Disjoint`, `InsideChip`, `ClearOfGpt`, `NoGaps`, `FilesAgree`, `Recorded` |
| `part_half` | enhanced lines behind the `-` too | `ChipSuffices`: violated |
| `image_pack` | 4 products (eMMC with runtime and A/B slots; eMMC with GENX, Android, preloaded TAs, fastlogo; eMMC with OEM keys, its own fastlogo, misc; NAND with block 0, rootfs and app), 2 runs, 1 kill | `ReleaseIsCurrent`, `OwnLayout`, `FailsOnlyForWant` |
| `image_recovery` | an eMMC product with `tzk_recovery` | `RecoveryIsItsOwn`: violated |
| `kconfig_cache` | a tree of 6 symbols and a choice, 3 calls, properties read in between | `Coherent`, `FlagSound`, `LoadReplacesValues` |
| `kconfig_load` | the same, 2 calls | `LoadReplaces`: violated |
| `kconfig_files` | a tree of 5 symbols and a choice; 2 programs, 2 edits or dialogs, 1 kill or failed write; 3 first `.config` files | `SavedIsLoaded`, `MinDerives`, `Unsaved`, `OldKept`, `Respected`, `TornNoticed`, `AllAsked`, `OldconfigEnds` |
| `menu_screen` | three Kconfigs: 12 nodes that come and go, a list longer than the screen, an edit box; 1 value changed or file loaded; 1 or 2 dialogs above one another; 1 or 2 sizes of the terminal | `CursorOnScreen`, `ShownIsCurrent`, `WayBack`, `ValuesFit`, `KeysKeepClear`, `PlaceKept` |
| `kconfig_parse` | all texts of six kinds, of 6 to 13 lines | `DepsComplete`, `ImplicitMenus`, `ChoiceMembers`, `LoopsTold`, `FilesNest`, `Located`, `AsWritten` |
| `kconfig_loops` | three symbols, a choice, up to three dependencies | `ChoiceLoopsFound`: violated |

The type invariants of PartTable, ImagePack, KconfigCache, KconfigFiles, KconfigRead and MenuScreen are theorems (section 5) and in no run.

Why the bounds are enough:

* *Build.* A stamp goes wrong over two invocations: one leaves something behind,
  the next builds on it. Three allow a clean or rebuild by name in between. Three modules
  in a chain with a shortcut have a direct, an indirect and a doubly reached
  dependency. Two jobs are enough for any pair of recipes to meet. The run is without RELEASE; the theorems
  are for both modes.
* *Partition tables.* The code treats a line by where it is relative to `-`, whether it has an
  offset, and whether it is enhanced. Three lines give every combination of one
  before, the `-`, one after, and two neighbours on either side. The sizes make lists that fit, fill the
  flash to the last sector and exceed it, and halves that are not whole blocks. The proofs
  cover any number of lines and any sizes.
* *Images.* A run depends on what the run before left. A second run over the leftovers
  of a full, a single, a failed or a killed one shows each leftover once. Inputs have two
  versions, present or absent.
* *Caches.* Stale caches need a value cached, another set, and a read. The tree has one
  of everything whose cache depends on something that is not in an expression: `MODULES`
  (the types), a tristate choice with a conditional member (mode and selection), an imply (a
  weak reverse dependency), a range with a condition. A third call is needed for the
  order *select, change the mode, select again*.
* *Configuration files.* Two programs: one leaves a file (or a torn one), the next starts from it.
  Two edits or dialogs: an edit and a minimal save, a save that fails and its retry. The
  first `.config` is absent, or names a symbol that is gone, or is out of order with a value out of range. The tree
  is of the types that the repository's Kconfig files use (no tristates) and has two items that later
  ones decide about, so that `oldconfig` needs another pass.
* *Screen.* One change makes the list, the cursor, the remembered rows and the menu itself stale
  at once; the tree has a menu, an implicit menu, a menuconfig and both locations of a choice whose visibility one value
  decides. The terminals are so small that lists, texts and edit boxes exceed them by a row or two, and one of them leaves a
  menu a single row. The height of the help window is 8 as in the code; the other heights and the page are 1 and 2 instead of what they
  are there, so that every limit is met within few rows.
* *Texts.* Each of the six kinds has lines for one part of the parser, and the length at which every such part meets every
  other: four symbols of which one can leave the implicit menu of another for that of a third, two menus and one of
  each other block, a choice at two locations with a symbol at both, three files of which each can source each, three symbols with three
  dependencies, a help text with a blank line and a deeper one.

*Fairness.* `EveryRunEnds` and `OldconfigEnds` use it. `OldconfigEnds` assumes that the user of
`oldconfig` goes on answering (`WF_vars(Oldconfig)`), with any answers; that somebody finishes
`menuconfig` is not assumed. `EveryRunEnds` uses `FairSpec`. `WF_vars(Progress)`: make starts
what it can start and the system schedules its children. `WF_vars(\E t : Fail(t))`
together with it says that a script that runs ends, well or not. A script that hangs is not
covered. `Kill` and new invocations are not fair.

*Deadlock.* Every `.cfg` says `CHECK_DEADLOCK FALSE` where the system may stop:
make has nothing to do after the last invocation of the bound, a generator has
exited, packing has ended its last run, nobody starts another front end, a text is read.

Each property has a mutant in `PROJECT.json`: a definition changed as a bug in the code might
change it, under which TLC finds that property violated.

## 4. What the runs found

* `rebuild_parallel`: `x-rebuild` names the recipe that removes the stamp and `x` as two
  unordered prerequisites (`module/module.mk:85`). With `-j` make may look at the
  stamp before it is removed and build nothing.
* `part_half`: an enhanced partition behind the `-` shrinks the flash after the
  partitions above it were placed. The list is accepted though one ends beyond the chip
  (`parse_pt_emmc/parse_pt.c:742`). No product list in the repository has one.
* `image_recovery`: which TEE `tzk_recovery` holds is decided from a file that a later
  step makes (`image_mapping.bashrc:17`, `packaging.bashrc:72` and `:91`): the first
  image has the normal TEE there, the second the recovery TEE.
* `kconfig_load`: a replacing load keeps a choice's `user_selection` when the file sets the choice's
  mode with a line of `m` (`kconfiglib.py:1299`). It decides the selection where `m` is
  promoted to `y`.
* `kconfig_loops`: a dependency loop by way of a choice is missed when the search comes to the choice from a symbol that is not in the
  loop (`kconfiglib.py:6623`; the comment at `:6582` says that a mark of 2 means "visited, not part of a dependency
  loop"). With `A`, `B` (which depends on `C`) and `C` in one choice the Kconfig is accepted and
  `set_value` ends in a `RecursionError`. `LoopsTold` holds: loops of symbols alone are found, and what is refused has a loop.

`kconfig_files` has no violated property, but two of them except what the code does not promise.
`Unsaved` excepts a file whose writing failed in this session: the save dialog leaves
`_conf_changed` as it was, so that after a failed explicit save of an unchanged configuration
`menuconfig` quits with "No changes to save" over a torn file (`menuconfig.py:896`).
`OldKept` is about one fault: a torn `.config` that a front end loads and saves is itself kept as
`.config.old`, so a second fault loses the last whole one.

Met while modelling and confirmed by running the Python code, but in no run, because the instances leave out what
leads there:

* The keys n, m and y set a value without `_changeable` (`menuconfig.py:1648`). At the location of a symbol whose prompt is hidden
  while another location's is not, the list then loses the node under the cursor: `ValueError`. `StaysListed` excludes it.
* A named choice at two locations, left for the menu above after its other location was entered by a jump,
  looks for a node that this menu does not have (`menuconfig.py:1205`). `MenusFollow` excludes it.
* A tristate whose prompt has `if m` and whose default is `y` has a value that is not among its assignable ones:
  the change by Space looks for it there (`menuconfig.py:1611`). `ValuesOffered` excludes it.
* A symbol at both locations of a named choice, with a prompt `if A` at the first: while `A` is n, entering the first location lists
  the node of the second. When a file that sets `A` is loaded, the node of the first takes its place, and `_update_menu` looks for
  one that is gone (`menuconfig.py:1692`): `ValueError`. When show-all is turned on instead, `_toggle_show_all` finds none of the
  old nodes in the new list, takes this for "show-all was turned off inside an invisible menu" (`:1309`), and returns
  with show-all on and the old list on the screen. This came up in the proof of `StaysOnScreen`; `PlainChoices` excludes it.
* The search for loops does not look into a menu inside a choice, nor at what the prompt of the choice depends on.
* `Makefile.top:106` always sets `KCONFIG_ALLCONFIG`, to nothing if it is not given. `alldefconfig` and `allnoconfig` then
  look for `alldef.config`, `allno.config` or `all.config` and end with an error, as the repository has none; `AllConfig` therefore starts with
  the file being there.

## 5. What is proved

The proofs hold for every value of the constants that satisfies the named
assumptions of the module. TLC evaluates those assumptions in the runs.

**ModuleBuildProofs**: `TypeCorrect`, `StampsAreConsistent`, `StampsMeanWhole`,
`ScriptsUndisturbed`, for any modules, dependencies (also circular ones), command
lines, number of jobs, with or without RELEASE. `StampsConsistent` alone is not inductive: that a script that
ends stamps a module over present output needs that its dependencies
were done when it started (`Ordered`: a recipe that runs has its prerequisites done),
that a done target has its stamp unless the user named it (`DoneStamped`), that nobody
works on a module that is done (`Quiet`), and that what a script read at its start is still there when
it ends (`UsedNow`, `TreeNow`). `IInv` is their conjunction. The proof of its step has one
case per action and under it one step per part.

`StampsKeepPromise` is the refinement of BuildPromise, on command lines that clean or rebuild by name nothing
that something else on the line depends on (`PlainLines`): otherwise `-j` lets a dependency's stamp go
while its dependent is being stamped. The invariant `Unnamed` says that no such recipe is under way beside a build. Every step then maps to a
step of the promise, a loss, or a stutter.

`SerialMakeRebuilds`: with `-j1`, without RELEASE and with lines as `module.mk:85` makes them (`RebuildLines`), a make that
succeeds has run the script of each module it was to rebuild. `Wanted`, `StampGone` and `DoneHere` carry it: the stamp is removed before the
target is wanted, it stays away until the script has run, and a target that is done here ran here or had its stamp.

**PartTableProofs**: `TypeCorrect`, `PartitionsAreDisjoint`, `PartitionsFitTheFlash`,
`GptIsLeftAlone`, `NothingIsLost`, `FilesTellTheSame`, `EveryPartitionRecorded`, for any list, flash and units, both programs. Disjointness of all pairs follows from
that of neighbours only if no size is negative. That is the invariant `Above`: while the
high partitions are placed, `pos2` is not above any of them, and nothing has a negative
extent once the "exceed" checks have passed. `DisjointInv` then carries "everything before entry `i` ends
before it starts" through the loop of comparisons. `InsideInv` says where the
last low partition ends relative to `chip` before and after the flash shrinks. It needs `PlainTail`
(nothing behind the `-` is enhanced or has an offset): `part_half` shows why.
These theorems are about lists whose `int` products fit (`Fits`).

`NothingIsLost` (the property `NoGaps`) rests on `Gapless`: what the loops have placed so far lies end to end, and the rest is what lies between the
last low and the first high partition. `FilesTellTheSame` (`FilesAgree`) needs two facts about division:
that dividing by sectors first and by blocks or megabytes then loses nothing (`DivOfDiv`; it is why `SectorAssumption` asks that
a sector divides both), and that a start printed as 0 is found again by a reader who adds up rounded sizes. `EveryPartitionRecorded` (`Recorded`)
follows what `CheckEntry` makes of the back-ups: `Paired` says that each hidden copy belongs to a visible entry whose name
it begins with, which is nobody's copy itself, and `Rowed` that all entries passed so far that are no copies have their row.

**ImagePackProofs**: `TypeCorrect`, for any products, tables, runs and kills; `LayoutIsOwn`, for products whose NAND tables list
the longer of two names that begin alike last (`LongNamesLast`; the packing script greps for a prefix and takes the first line). `LayoutInv` says which line
the information of a part is made from at each command of the script (`At`), whatever files of earlier, failed, killed
or single runs are there; `OwnLine` that the first line that fits is then its own.

In the same module, `ReleaseIsFresh` (the property `ReleaseIsCurrent`): after a full run that succeeds, the list is the present table's, and each
partition on it whose payload the configuration delivers holds exactly what packing that payload now makes (`Current`): the keys from
the present key files or zeros, rootfs from the present system, the bootloader with its TAs once, the NAND's preboot with the present table.
So does misc, which is copied whatever the table lists. All that is so after any history of full, single, failed and killed runs. Five things the property does not tell: the
recovery TEE (the run `image_recovery`); a fastlogo or a misc that the product withdrew, whose old file stays in the release; names that
stand for no payload, or for one that the configuration does not deliver; and, of app, whether `out/app` has what
the modules installed (app is compared with `out/app`, from which it is packed). A script is taken apart into
its pieces, which come in the order of `Rank`; `Ahead` says that what is done is a prefix of the script in that order, so that a command
knows which others have run and which have not. `Left(done)` is the conjunction of what the commands in `done` left on the disk:
the information lines, the packed subimages, the released ones, the copied ones (`CopiesAreOwn`), the list. What app was packed from is still
what lies in `out/app` because the commands that replace that directory come before (`AppsFirst`). One lemma per command says that it
adds its part and takes nothing of the others away (appending the TAs to a bootloader that was appended to before would, were it not packed anew in between). At the
end of the script `done` is everything, and that is the property. The theorem is about products that list no fastlogo that they do not release (`LogoReleased`):
`CONFIG_GENX_ENABLE` packs it (`emmc/packaging.bashrc:110`), but only `CONFIG_BL_FASTLOGO` releases it (line 192), so that a product
with the first and without the second keeps the fastlogo of an earlier build in its release. It also needs that the value for "no file" is not a payload,
which is part of `ConfigAssumption`.

`FailsForWant` (the action property `FailsOnlyForWant`): a full run that nobody kills ends early only for want of an input, or for the unpacked
fastlogo or the missing `home/galois` that an earlier killed run left. `FailureInv` has, beside `Left`, what keeps a run from tripping over itself:
a fastlogo lies unpacked only between `unzip` and `move`, `home/galois` is away only between `mv` and `mkdir` (`LogoMoved`, `GaloisThere`; a kill is what breaks them, so they
hold while there was none), `out/app` is there from `mv` to the packing of `app` (`AppThere`), and what is packed and not to be packed any more lies in
`subimg_intermediate` (`PacksThere`, with the recovery TEE excepted, which `default.bashrc` skips). The first two need that in every script, full or single, the commands of a
pair follow each other at once (`Chain`), the third that in a full one they come in no other way (`Order`); both are shown for the pieces
of a script and survive joining (`NeatJoined`) and running a command (`FollowsTail`, `BehindTail`). The theorem is about products that list what they pack (`ListsPacked`): the
NAND release looks for a subimage under every name of the table (`nand/packaging.bashrc`), and the eMMC release copies `fastboot` for
`CONFIG_ANDROID_OS` (line 170) although only `CONFIG_UBOOT_FASTBOOT` has it packed (line 126). The types now say what a subimage can be made of (`Made`), and with
it that no file and a torn file are not the same.

**KconfigCacheProofs**: `TypeCorrect`, `CacheCoherent`, `FlagIsSound`, for every Kconfig
whose table satisfies those three assumptions. The invariant is `Holds(user, cached)`: a cached node has its
value, *and all that it read is cached too*. The second half is what makes the
early stop of `_rec_invalidate` sound: if a value that depends on a changed item were cached, then so would be
the visibilities along a path of dependents that leads to it, so the walk cannot
stop before it gets there. The lemma `Stays` is that argument, by `TrackedAssumption`
with the part of the read items that the walk reached as `R`. Each call then preserves `Holds`
because a node outside the reach did not read the item (`DeterminedAssumption`).

`ReplacingForgets`: after a replacing load of a file of any length the user values and modes are those that the file gives a
new Kconfig. The proof runs a new Kconfig beside the program: after each line the two `Agree` where `_was_set` is
and the new one has nothing elsewhere (`LoadInv`). It is `AssignAgrees` that `SetBy` has to be right for. It needs that a choice takes
a `y` that its symbols take (`ModesAssumption`), else a line would mark a choice whose mode it leaves alone. What can differ is a
selection under a mode of `m`, as `kconfig_load` shows.

**KconfigFilesProofs**: `TypeCorrect`: whatever the lines of a file, `load_config`, the keys of `menuconfig` and the answers of
`oldconfig` make user values that `set_value` accepts. `EverythingAsked`: `oldconfig` writes only when nothing is left to ask. `AskedInv` says
that in a pass without a change nothing before the cursor is asked. It needs `AnswersAssumption`: an answer that changes no value
makes nothing new be asked. `LossIsNoticed`: a `.config` that lost lines in any number of faults is not taken for up to date, from
`CutsAssumption` (what is left of a file is no file that `write_config` makes). `OldFileKept`: after one fault the last whole file is in `.old`; with two
it is not (section 4), so the theorem assumes `MaxFaults = 1`. `ContentsAssumption` says that what is written is a sequence of lines.

`NothingUnsaved`: when menuconfig counts no change as unsaved, a new Kconfig that loads the file has the values that menuconfig has, after any number of edits,
loads, saves and faults. It is stated with two properties of the runs as hypotheses, `SavedIsLoaded` and `MinDerives` (what `write_config` and
`write_min_config` write of a reachable state can be loaded again). Neither is about what the program does in time: they are facts about what `View` makes of user values, which
the proofs know as a constant only. `BoolChoices` restricts it to Kconfigs whose choices are no tristates: for those `kconfig_load` shows that it is false.
`UnsavedInv` follows what is in the file, what was loaded last and `changed` through the jobs.

**MenuScreenProofs**: `TypeCorrect` and `KeysClear`, for any Kconfigs, evaluations and terminals; `StaysOnScreen` (`CursorOnScreen`), `ListIsCurrent` (`ShownIsCurrent`),
`AlwaysAWayBack` (`WayBack`) and `PlaceIsKept` (`PlaceKept`) while the values fit (`ValuesFit`, a property of the run `menu_screen`) and for Kconfigs with `PlainChoices`, which
TLC evaluates for the run's trees. They hold for lists, menus, searches and texts of any length and windows of any height, down to the single row that a terminal
of no size leaves. `TypeInv` says that the cursor is in its list unless the code raised an error, that the dialogs lie above one another only as their loops
open one another (`Lies`: a search over a help text, a message over an edit box), and that the selected match is in the window of
the search. `GoodInv` adds that there was no error: the display shows the nodes of its menu (`Fine`), with the cursor in the window (`Seen`). None of the four
properties is inductive alone. The cursor is found again only if the list is current and its node still appears; the menu that is left is found only if all
menus above are listed, which `WayUp` derives from one visible node in the current menu and `MenusFollow`, so that no property of the history is needed. An edit box
has to ask about the node that is selected under it (`Asked`), or the value would be given to another node than the one that stays. The
remembered rows are never more than the menus above (`Depth`), since a jump that does not enter its menu forgets them all.
Every movement of the cursor, also a page, is a member of `Reach`: the cursor stays in the list and, if it was in the window, there.

**KconfigReadProofs**: `TypeCorrect`, `FilesNested` (the property `FilesNest`) and `NodesLocated` (`Located`), for texts of any length that source one another in any way, whatever lines
`Offer` lets come and whatever is made of the nodes. None of them is inductive. `FilesNest` is about two stacks that only the Python stack ties together: the files, and the calls of
`_parse_block`. `Level(at)` names for each file the call that reads it, and says that the calls up to the next one are for blocks that this file opened, with the include
path that it has; `ParsingRight` says it of the node whose properties are parsed, since its block is still to be opened. An `endmenu` then ends a block of the file it stands in, for the call that
reads a file has "eof" for its end token, which is no line (`Words`, `EofIsNoLine`); and when a file ends where its own call is the innermost, nothing that it opened is left (`InnermostReads`).
For `Located` the line number has to be right when a node is made: `HereRight` says how `linenr` and the number of lines that readline gave differ while a help text is read (by the lines of the text but
its first, which was counted), and after it. `StackRight` says that each file further out stands at the line that sources the next one. A place that was
right stays right since no line that was read changes (`Grown`), which is where the model's assumption enters that a file has the same lines whenever it is read.
The constants are free but for `NoneAssumption`: the value for "nothing" is no line and no help text.

Loading a file and finding a line are recursive or searching definitions. The library's induction theorems take operators, which the installed provers
cannot instantiate, but `LeastNumber` gives what is needed from well-founded sets: of the lines at which something fails there is a first.

Only model-checked:

* liveness (`EveryRunEnds`, `OldconfigEnds`): fairness and ENABLED are out of the prover's reach;
* `SavedIsLoaded`, `MinDerives` and `Respected`, which are facts about the evaluation of a tree;
* `ValuesFit`, a fact about the evaluation of a tree as well;
* the properties of KconfigParse: `DepsComplete`, `ImplicitMenus`, `ChoiceMembers` and `LoopsTold` about the tree, and `AsWritten`, which tells from whole texts what `FilesNest` and `Located`
  tell from the state, and the order of the nodes. The parser's tree, the search for loops and the texts with what they source are RECURSIVE operators, as are those of `KconfigTree`. No module with a theorem reaches them: the proofs know the
  evaluation by the assumptions about `Worth` and `View` alone, which TLC checks on the instances' trees.

## 6. What is not modelled

* What a module's script compiles and copies: ModuleBuild knows when it starts,
  what it reads and whether it ends. Which dependencies the `.mk` files declare under which configuration is a constant.
* The tokenizer and the preprocessor of Kconfig, types, option lines, and expressions other than conjunctions of symbols. `Offer` gives the parser lines that
  are made of tokens already.
* `source` of one file under two names, and of a pattern that several files or no file match: a file is its name, and a `source` takes one.
* The two other ways of `_save_old`: a symbolic link is copied rather than renamed, and a renaming that fails is passed over, so that the
  file is overwritten without a `.config.old`. `BeginWrite` always renames.
* The drawing, colours and wording of `menuconfig` and its show-name mode; two front ends running at once on one `.config`.
* `ampconfig` and `write_autoconf`, which write the values that KconfigTree computes in another format; the option `allnoconfig_y`, which no Kconfig file
  of the repository uses.
* Merging configurations (`do_override` in `utils.rc` and its copies in `scripts/`): grep and sed on names, around an `oldconfig`. What
  goes wrong there is in the matching of text. The product and chip configurations that they read are not in the repository, and nothing in it calls them.
* Image containers (`genimg`, `gen_uniimg`, `gen_subimg_info`): one pass over files, no state between runs; the hazards list their sums and unchecked calls.
* Byte formats of signed images, TA and firmware headers; the signing programs come as binaries. `in_extras.py` and `crc_calc.py` prepare input for them.
* Preboot and external preboot: four scripts in a row that compile or copy.
* hex symbols, `option env`, warnings of kconfiglib. hex values behave as int values do.
* The MBR variant of `parse_pt_emmc`, which the Makefiles do not build; the bg4ct boot
  area, `NAND_FACTORY` and `RDK_SYS` variants of packing.
* Third-party programs.

## 7. Plan

Done, in this order: ModuleBuild with BuildPromise and proofs (the core: every other part runs
under it); PartTable with proofs; ImagePack with proofs; KconfigTree and KconfigCache with proofs; KconfigFiles with proofs; MenuScreen with proofs;
KconfigNodes, KconfigLoops and KconfigParse; KconfigRead, the part of the parser without recursion, with proofs.

What would add most from here:

1. **ModuleDeps**: the dependency relation as the `.mk` files give it under a configuration. No
   circle under any reachable configuration (the one of `tee`, `ta_enc` and `ampsdk`
   is a candidate), and every module whose output a script reads is among its
   dependencies. Its relations become the constant `Deps` of ModuleBuild.
2. **ImageContainer**: `genimg`, `gen_uniimg`, `gen_subimg_info` and the readers' view: every
   header points at its part, 32-bit sums included; offsets proved for any number of parts.
3. **Proofs**: `SavedIsLoaded` and `MinDerives` from assumptions about `View` that TLC evaluates for each tree.
4. **MenuScreen over the trees of KconfigParse**: the screen on every tree that a text of a few lines gives, in place of three trees made by hand.
