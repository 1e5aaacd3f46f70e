----------------------------- MODULE ModuleBuild -----------------------------
(***************************************************************************)
(* The module rules of module/module.mk, run by make.                      *)
(*                                                                         *)
(* Every module x of the SDK has a directory BUILD_DIR/X that holds its    *)
(* intermediate files and its stamps: .stamp_target_cleaned and            *)
(* .stamp_target_built (or .stamp_target_released when RELEASE = y).  The  *)
(* stamps are all that survives an invocation of make: they decide what    *)
(* the next one skips.  A module's dependencies are order-only             *)
(* prerequisites of its first stamp.  The model follows make from the      *)
(* goals of an invocation to the lines of each recipe, through -j,         *)
(* failing recipes, an invocation that is killed, and the next invocation  *)
(* over what the last one left behind.                                     *)
(***************************************************************************)
EXTENDS Naturals, Sequences, FiniteSets

CONSTANTS
  Modules,     \* the configured modules (PACKAGES)
  Toplevel,    \* the target "toplevel": a recipe without a stamp
  Deps,        \* Deps[m]: X_DEPENDENCIES of module m
  Release,     \* RELEASE = y: release.sh and the released stamp
  Jobs,        \* the N of make -jN an invocation may be given
  GoalLists,   \* the command lines: sequences of steps (see StepTargets)
  MaxRuns      \* bound: invocations of make

ASSUME ToplevelAssumption == Toplevel \notin Modules
ASSUME DepsAssumption == Deps \in [Modules -> SUBSET (Modules \cup {Toplevel})]
ASSUME ModeAssumption == Release \in BOOLEAN
ASSUME JobsAssumption == Jobs \subseteq Nat \ {0}
ASSUME RunsAssumption == MaxRuns \in Nat

VARIABLES
  stamp,    \* stamp[m]: the stamp files in BUILD_DIR/M; "final" is built or released
  tree,     \* tree[m]: the rest of BUILD_DIR/M
  ver,      \* ver[m]: how often m's script has completed, the identity of its output
  used,     \* used[m][d]: the output of d that m's last script run was given
  want,     \* the targets this invocation has to update; {} between invocations
  goals,    \* the command line of this invocation
  jobs,     \* its -j, 0 between invocations
  st,       \* st[t]: how far make is with target t, or the line its recipe is at
  ran,      \* modules whose script completed in this invocation
  touched,  \* modules the user cleaned or rebuilt by name since "make clean"
  runs      \* invocations so far

disk == <<stamp, tree, ver, used>>
call == <<goals, jobs>>
vars == <<stamp, tree, ver, used, want, call, st, ran, touched, runs>>

Node   == Modules \cup {Toplevel}
Target == (Modules \X {"cleaned", "final", "force", "unbuild"})
            \cup {<<Toplevel, "final">>}

Final(n) == <<n, "final">>

\* What a command line can name, one step each.
Step == ({"make"} \X Node) \cup ({"depends", "clean", "unbuild"} \X Modules)
          \cup {<<"all">>}

ASSUME GoalsAssumption == GoalLists \subseteq Seq(Step)

\* The lines of a recipe a job can be at.
Lines  == {"rm", "script", "finish", "touch"}
Status == {"none", "todo", "done", "failed"} \cup Lines

Running(t) == st[t] \in Lines

-----------------------------------------------------------------------------
(* The dependency graph that the makefiles declare.                        *)

\* In release mode every module depends on toplevel, declared or not.
DepsOf(m) == IF Release THEN Deps[m] \cup {Toplevel} ELSE Deps[m]

\* A change that forgets the order-only prerequisites of the cleaned stamp.
Prereqs_NoDependencies(t) ==
  IF t[2] = "final" /\ t[1] \in Modules /\ ~Release THEN {<<t[1], "cleaned">>} ELSE {}

\* A change that has the cleaned stamp wait on the module's own build.
Prereqs_Circular(t) ==
  IF t[2] = "cleaned" THEN {Final(d) : d \in DepsOf(t[1]) \cup {t[1]}}
  ELSE IF t[2] = "final" /\ t[1] \in Modules THEN {<<t[1], "cleaned">>} ELSE {}

\* The dependencies are order-only: they must be done, their age is nothing.
Prereqs(t) ==
  IF t[2] = "cleaned" \/ (t[2] = "final" /\ Release /\ t[1] \in Modules)
  THEN {Final(d) : d \in DepsOf(t[1])}
  ELSE IF t[2] = "final" /\ t[1] \in Modules
  THEN {<<t[1], "cleaned">>}
  ELSE {}

\* What is reachable from S along the dependencies.
Closure(S) ==
  {n \in Node : \A W \in SUBSET Node :
     (S \subseteq W /\ \A m \in W \cap Modules : DepsOf(m) \subseteq W) => n \in W}

ModuleTargets(S) ==
  {t \in Target : /\ t[1] \in Closure(S)
                  /\ \/ t[2] = "final"
                     \/ t[2] = "cleaned" /\ ~Release}

\* One step of a command line.  "x-rebuild" names two prerequisites, the one
\* that removes the stamp and x itself: it is the two steps Rebuild(x).
StepTargets(s) ==
  {t \in Target :
     \/ s[1] = "make"    /\ t \in ModuleTargets({s[2]})
     \/ s[1] = "depends" /\ t \in ModuleTargets(DepsOf(s[2]))
     \/ s[1] = "all"     /\ t \in ModuleTargets(Node)
     \/ s[1] = "clean"   /\ t = <<s[2], "force">>
     \/ s[1] = "unbuild" /\ t = <<s[2], "unbuild">>}

Make(m)    == <<"make", m>>
Clean(m)   == <<"clean", m>>
Depends(m) == <<"depends", m>>
Rebuild(m) == <<<<"unbuild", m>>, Make(m)>>
All        == <<"all">>

\* Goals are taken in their order.  A serial make finishes one before the
\* next; with -j it goes on as soon as the recipes that can run were launched.
Turn(t) ==
  \A i \in 1..Len(goals) :
    (\A k \in 1..i : t \notin StepTargets(goals[k])) =>
      \A u \in StepTargets(goals[i]) :
        IF jobs = 1 THEN st[u] = "done"
        ELSE st[u] = "todo" => \E p \in Prereqs(u) : st[p] # "done"

UpToDate(t) ==
  /\ t[1] \in Modules
  /\ t[2] \in {"cleaned", "final"}
  /\ t[2] \in stamp[t[1]]

FirstLine(t) ==
  IF t[1] = Toplevel THEN "finish" ELSE IF t[2] = "final" THEN "script" ELSE "rm"

-----------------------------------------------------------------------------
Init ==
  /\ stamp = [m \in Modules |-> {}]
  /\ tree = [m \in Modules |-> "absent"]
  /\ ver = [m \in Modules |-> 0]
  /\ used = [m \in Modules |-> [d \in Modules |-> 0]]
  /\ want = {} /\ goals = <<>> /\ jobs = 0
  /\ st = [t \in Target |-> "none"]
  /\ ran = {} /\ touched = {} /\ runs = 0

\* make is invoked with a list of goals over whatever out/ holds.
Start(g, n) ==
  /\ want = {} /\ runs < MaxRuns
  /\ goals' = g /\ jobs' = n
  /\ want' = UNION {StepTargets(g[i]) : i \in 1..Len(g)}
  /\ st' = [t \in Target |-> IF t \in want' THEN "todo" ELSE "none"]
  /\ ran' = {}
  /\ touched' = touched \cup {m \in Modules : \/ <<m, "force">> \in want'
                                              \/ <<m, "unbuild">> \in want'}
  /\ runs' = runs + 1
  /\ UNCHANGED disk

Stopping == \E t \in want : st[t] = "failed"

\* make reaches a target whose prerequisites are up to date.
Ready(t) ==
  /\ t \in want /\ st[t] = "todo"
  /\ \A p \in Prereqs(t) : st[p] = "done"
  /\ Turn(t) /\ ~Stopping

Skip(t) ==
  /\ Ready(t) /\ UpToDate(t)
  /\ st' = [st EXCEPT ![t] = "done"]
  /\ UNCHANGED <<disk, want, call, ran, touched, runs>>

Launch(t) ==
  /\ Ready(t) /\ ~UpToDate(t)
  /\ Cardinality({u \in Target : Running(u)}) < jobs
  /\ st' = [st EXCEPT ![t] = FirstLine(t)]
  /\ UNCHANGED <<disk, want, call, ran, touched, runs>>

-----------------------------------------------------------------------------
(* The recipes, a line at a time.                                          *)

\* rm -rf of the module's directory (then mkdir -p, when it is cleaned).
RemoveDir(m) ==
  /\ st[<<m, "cleaned">>] = "rm"
  /\ stamp' = [stamp EXCEPT ![m] = {}]
  /\ tree' = [tree EXCEPT ![m] = "empty"]
  /\ st' = [st EXCEPT ![<<m, "cleaned">>] = "script"]
  /\ UNCHANGED <<ver, used, want, call, ran, touched, runs>>

ForceClean(m) ==
  /\ st[<<m, "force">>] = "rm"
  /\ stamp' = [stamp EXCEPT ![m] = {}]
  /\ tree' = [tree EXCEPT ![m] = "absent"]
  /\ st' = [st EXCEPT ![<<m, "force">>] = "done"]
  /\ UNCHANGED <<ver, used, want, call, ran, touched, runs>>

\* A change that removes the stamp of the other mode.
RemoveBuilt_WrongStamp(m) ==
  /\ st[<<m, "unbuild">>] = "rm"
  /\ stamp' = IF Release THEN [stamp EXCEPT ![m] = @ \ {"final"}] ELSE stamp
  /\ st' = [st EXCEPT ![<<m, "unbuild">>] = "done"]
  /\ UNCHANGED <<tree, ver, used, want, call, ran, touched, runs>>

\* X_TARGET_REBUILD removes the built stamp; there is none in release mode.
RemoveBuilt(m) ==
  /\ st[<<m, "unbuild">>] = "rm"
  /\ stamp' = IF Release THEN stamp ELSE [stamp EXCEPT ![m] = @ \ {"final"}]
  /\ st' = [st EXCEPT ![<<m, "unbuild">>] = "done"]
  /\ UNCHANGED <<tree, ver, used, want, call, ran, touched, runs>>

\* build.sh <config> clean.
CleanScript(m) ==
  /\ st[<<m, "cleaned">>] = "script"
  /\ st' = [st EXCEPT ![<<m, "cleaned">>] = "touch"]
  /\ UNCHANGED <<disk, want, call, ran, touched, runs>>

\* A change that touches the stamp before the script.
BuildScript_TouchFirst(m) ==
  /\ st[Final(m)] = "script"
  /\ stamp' = [stamp EXCEPT ![m] = @ \cup {"final"}]
  /\ tree' = [tree EXCEPT ![m] = "partial"]
  /\ used' = [used EXCEPT ![m] = ver]
  /\ st' = [st EXCEPT ![Final(m)] = "finish"]
  /\ UNCHANGED <<ver, want, call, ran, touched, runs>>

\* build.sh or release.sh starts: it reads what the dependencies installed.
BuildScript(m) ==
  /\ st[Final(m)] = "script"
  /\ tree' = [tree EXCEPT ![m] = "partial"]
  /\ used' = [used EXCEPT ![m] = ver]
  /\ st' = [st EXCEPT ![Final(m)] = "finish"]
  /\ UNCHANGED <<stamp, ver, want, call, ran, touched, runs>>

\* It ends well.  If the directory was removed under it, what it leaves there
\* is incomplete.
FinishScript(m) ==
  /\ st[Final(m)] = "finish"
  /\ tree' = [tree EXCEPT ![m] = IF @ = "partial" THEN "whole" ELSE "partial"]
  /\ ver' = [ver EXCEPT ![m] = @ + 1]
  /\ ran' = ran \cup {m}
  /\ st' = [st EXCEPT ![Final(m)] = "touch"]
  /\ UNCHANGED <<stamp, used, want, call, touched, runs>>

FinishToplevel ==
  /\ st[Final(Toplevel)] = "finish"
  /\ st' = [st EXCEPT ![Final(Toplevel)] = "done"]
  /\ UNCHANGED <<disk, want, call, ran, touched, runs>>

\* A change that touches the directory for the stamp.
Touch_WrongFile(m, k) ==
  /\ st[<<m, k>>] = "touch" /\ tree[m] # "absent"
  /\ stamp' = [stamp EXCEPT ![m] = @ \cup {"directory"}]
  /\ st' = [st EXCEPT ![<<m, k>>] = "done"]
  /\ UNCHANGED <<tree, ver, used, want, call, ran, touched, runs>>

\* touch $@ needs the directory.
Touch(m, k) ==
  /\ st[<<m, k>>] = "touch" /\ tree[m] # "absent"
  /\ stamp' = [stamp EXCEPT ![m] = @ \cup {k}]
  /\ st' = [st EXCEPT ![<<m, k>>] = "done"]
  /\ UNCHANGED <<tree, ver, used, want, call, ran, touched, runs>>

\* A script fails, or touch finds no directory: make starts nothing more.
Fail(t) ==
  /\ \/ st[t] \in {"script", "finish"}
     \/ st[t] = "touch" /\ tree[t[1]] = "absent"
  /\ st' = [st EXCEPT ![t] = "failed"]
  /\ UNCHANGED <<disk, want, call, ran, touched, runs>>

-----------------------------------------------------------------------------
Succeeded == want # {} /\ \A t \in want : st[t] = "done"

Over ==
  /\ want' = {} /\ goals' = <<>> /\ jobs' = 0 /\ ran' = {}
  /\ st' = [t \in Target |-> "none"]
  /\ UNCHANGED <<ver, used, touched, runs>>

\* make exits when all is done, or when a recipe failed and none still runs.
End ==
  /\ \/ Succeeded
     \/ Stopping /\ \A t \in Target : ~Running(t)
  /\ Over /\ UNCHANGED <<stamp, tree>>

\* The directories an rm -rf is at work on.
Removing ==
  {m \in Modules : st[<<m, "cleaned">>] = "rm" \/ st[<<m, "force">>] = "rm"}

\* The invocation and its recipes are killed between two lines or inside one:
\* an rm -rf may have removed some of the files and not the others.
Kill ==
  /\ want # {} /\ ~Succeeded /\ Over
  /\ \E D \in SUBSET Removing :
       /\ stamp' \in [Modules -> SUBSET {"cleaned", "final"}]
       /\ \A m \in Modules :
            IF m \in D THEN stamp'[m] \subseteq stamp[m] ELSE stamp'[m] = stamp[m]
       /\ tree' = [m \in Modules |-> IF m \in D THEN "partial" ELSE tree[m]]

\* make clean: rm -rf out.
Distclean ==
  /\ want = {} /\ runs < MaxRuns
  /\ stamp' = [m \in Modules |-> {}]
  /\ tree' = [m \in Modules |-> "absent"]
  /\ touched' = {} /\ runs' = runs + 1
  /\ UNCHANGED <<ver, used, want, call, st, ran>>

Recipe(m) ==
  \/ RemoveDir(m) \/ ForceClean(m) \/ RemoveBuilt(m)
  \/ CleanScript(m) \/ BuildScript(m) \/ FinishScript(m)
  \/ \E k \in {"cleaned", "final"} : Touch(m, k)

Progress ==
  \/ \E t \in Target : Skip(t) \/ Launch(t)
  \/ \E m \in Modules : Recipe(m)
  \/ FinishToplevel
  \/ End

Next ==
  \/ \E g \in GoalLists, n \in Jobs : Start(g, n)
  \/ Progress
  \/ \E t \in Target : Fail(t)
  \/ Kill
  \/ Distclean

Spec == Init /\ [][Next]_vars

\* make goes on while it can and every script comes to an end.
FairSpec == Spec /\ WF_vars(Progress) /\ WF_vars(\E t \in Target : Fail(t))

-----------------------------------------------------------------------------
TypeOK ==
  /\ stamp \in [Modules -> SUBSET {"cleaned", "final"}]
  /\ tree \in [Modules -> {"absent", "empty", "partial", "whole"}]
  /\ ver \in [Modules -> Nat]
  /\ used \in [Modules -> [Modules -> Nat]]
  /\ want \subseteq Target
  /\ jobs \in Jobs \cup {0}
  /\ st \in [Target -> Status]
  /\ ran \subseteq Modules
  /\ touched \subseteq Modules
  /\ runs \in Nat

\* A module stamped built (or released) was built from the output its
\* dependencies have now, and they are stamped too, whatever was killed or
\* failed on the way, with any -j: only a dependency that the user cleaned or
\* rebuilt by name is excepted, because the dependencies are order-only.
StampsConsistent ==
  \A m \in Modules : "final" \in stamp[m] =>
    \A d \in DepsOf(m) \ {Toplevel} :
      d \in touched \/ ("final" \in stamp[d] /\ used[m][d] = ver[d])

\* The stamp of an untouched module stands for a complete tree: a crash or a
\* failing script between "touch" and the lines before it never leaves it on
\* a partial build.
StampMeansWhole ==
  \A m \in Modules : "final" \in stamp[m] => m \in touched \/ tree[m] = "whole"

\* While a module's script runs, no recipe works on one of its dependencies,
\* unless the same command line asked for that.
Undisturbed ==
  \A m \in Modules : st[Final(m)] \in {"script", "finish"} =>
    \A d \in DepsOf(m) \ touched : \A t \in Target : t[1] = d => ~Running(t)

\* "<module>-rebuild - build module without clean" (Makefile.top:31): when
\* the invocation succeeds the module's script has run.
RebuildRebuilds ==
  Succeeded => \A m \in Modules : <<m, "unbuild">> \in want => m \in ran

\* On every line x-rebuild is what module.mk:85 makes of it: the stamp of x is
\* removed and then x is made, which the line has not asked for before.
RebuildLines ==
  \A g \in GoalLists : \A i \in 1..Len(g), m \in Modules :
    <<m, "unbuild">> \in StepTargets(g[i]) =>
      /\ \E j \in 1..Len(g) : Final(m) \in StepTargets(g[j])
      /\ \A k \in 1..i : Final(m) \notin StepTargets(g[k])

\* So it is when make is serial: the stamp is removed before it is looked at.
SerialRebuilds == jobs = 1 => RebuildRebuilds

\* Every invocation comes to an end: no set of targets waits on one another.
EveryRunEnds == want # {} ~> want = {}

\* No command line cleans or rebuilds by name what something else on the line
\* depends on: under -j such a line is a race of the user's own making.
PlainLines ==
  \A g \in GoalLists : \A i, j \in 1..Len(g) :
    \A t \in StepTargets(g[i]), u \in StepTargets(g[j]) :
      t[2] \in {"force", "unbuild"} /\ u[1] \in Modules /\ u[2] \in {"cleaned", "final"} =>
        t[1] \notin DepsOf(u[1])

\* Stamping is an implementation of the promise: whatever is interleaved or
\* killed, a module is stamped only while all it needs is stamped, as long as
\* the command lines are plain.
Promise == INSTANCE BuildPromise WITH
  Needs <- [m \in Modules |-> DepsOf(m) \ {Toplevel}],
  built <- {m \in Modules : "final" \in stamp[m]}
KeepsPromise == Promise!Spec
=============================================================================
