-------------------------- MODULE ModuleBuildProofs --------------------------
(***************************************************************************)
(* Proofs about ModuleBuild, for any set of modules, any dependencies, any *)
(* command lines, either mode and any number of jobs.                      *)
(***************************************************************************)
EXTENDS ModuleBuild, TLAPS

(* The inductive invariant, as named parts.                                *)

\* Between invocations make knows no target.
Idle == want = {} => \A t \in Target : st[t] = "none"

\* In release mode nothing asks for a cleaned stamp.
NoClean == Release => \A m \in Modules : st[<<m, "cleaned">>] = "none"

\* Only a module counted in touched can lose its stamps by a command.
Touched ==
  \A m \in Modules \ touched :
    st[<<m, "force">>] = "none" /\ st[<<m, "unbuild">>] = "none"

\* A target is launched, and done, only after its prerequisites.
Ordered ==
  \A t \in Target : st[t] \in Lines \cup {"done"} =>
    \A p \in Prereqs(t) : st[p] = "done"

\* What make takes as done has its stamp.
DoneStamped ==
  \A m \in Modules \ touched :
    /\ st[<<m, "cleaned">>] = "done" => "cleaned" \in stamp[m]
    /\ st[<<m, "final">>] = "done" => "final" \in stamp[m]

\* A stamped module is not worked on, and its directory was cleaned first.
Quiet ==
  \A m \in Modules \ touched : "final" \in stamp[m] =>
    /\ st[<<m, "cleaned">>] \notin Lines
    /\ st[<<m, "final">>] \notin Lines
    /\ Release \/ "cleaned" \in stamp[m]

\* A script that runs was given the output its dependencies still have, and
\* works on a tree that is as complete as the line it has reached.
UsedNow ==
  \A m \in Modules : st[<<m, "final">>] \in {"finish", "touch"} =>
    \A d \in DepsOf(m) \ {Toplevel} : d \in touched \/ used[m][d] = ver[d]
TreeNow ==
  \A m \in Modules \ touched :
    /\ st[<<m, "final">>] = "finish" => tree[m] = "partial"
    /\ st[<<m, "final">>] = "touch" => tree[m] = "whole"

IInv ==
  /\ TypeOK /\ Idle /\ NoClean /\ Touched /\ Ordered
  /\ DoneStamped /\ Quiet /\ UsedNow /\ TreeNow
  /\ StampsConsistent /\ StampMeansWhole

-----------------------------------------------------------------------------
USE ToplevelAssumption, DepsAssumption, ModeAssumption

LEMMA TargetElems ==
  /\ \A m \in Modules : /\ <<m, "cleaned">> \in Target /\ <<m, "final">> \in Target
                        /\ <<m, "force">> \in Target /\ <<m, "unbuild">> \in Target
  /\ <<Toplevel, "final">> \in Target
  BY DEF Target

LEMMA DepsType ==
  ASSUME NEW m \in Modules
  PROVE  DepsOf(m) \subseteq Node
  BY DEF DepsOf, Node

\* What a command line asks for is a set of targets, in release mode none of
\* them a cleaned stamp.
LEMMA StepTargetsType ==
  ASSUME NEW s
  PROVE  /\ StepTargets(s) \subseteq Target
         /\ Release => \A m \in Modules : <<m, "cleaned">> \notin StepTargets(s)
  BY DEF StepTargets, ModuleTargets

LEMMA InvInit == Init => IInv
  BY DEF Init, IInv, TypeOK, Idle, NoClean, Touched, Ordered, DoneStamped,
         Quiet, UsedNow, TreeNow, StampsConsistent, StampMeansWhole,
         Status, Lines, Target

LEMMA PrereqsType ==
  ASSUME NEW t \in Target
  PROVE  Prereqs(t) \subseteq Target
  BY DepsType, TargetElems DEF Prereqs, Final, Target, Node

\* One target moves on: the order is kept if it was not done, and if its
\* prerequisites are done when it is launched or done itself.
LEMMA OrderedStep ==
  ASSUME Ordered, st \in [Target -> Status], NEW t \in Target, NEW v \in Status,
         st' = [st EXCEPT ![t] = v], st[t] # "done",
         v \in Lines \cup {"done"} => \A p \in Prereqs(t) : st[p] = "done"
  PROVE  Ordered'
<1> SUFFICES ASSUME NEW u \in Target, st'[u] \in Lines \cup {"done"}, NEW p \in Prereqs(u)
             PROVE  st'[p] = "done"
  BY DEF Ordered, Prereqs, DepsOf, Final
<1>1. st[p] = "done"
  BY DEF Ordered
<1>2. p \in Target /\ p # t
  BY <1>1, PrereqsType
<1> QED BY <1>1, <1>2

\* The targets of make's dependencies are done while a script runs.
LEMMA DepsDone ==
  ASSUME IInv, NEW m \in Modules, st[<<m, "final">>] \in Lines \cup {"done"},
         NEW d \in DepsOf(m)
  PROVE  st[<<d, "final">>] = "done"
<1>1. CASE Release
  BY <1>1, TargetElems DEF IInv, Ordered, Prereqs, Final
<1>2. CASE ~Release
  <2>1. st[<<m, "cleaned">>] = "done"
    BY <1>2, TargetElems DEF IInv, Ordered, Prereqs, Final
  <2> QED BY <2>1, TargetElems DEF IInv, Ordered, Prereqs, Final
<1> QED BY <1>1, <1>2

LEMMA InvNext == IInv /\ [Next]_vars => IInv'
<1> SUFFICES ASSUME IInv, [Next]_vars PROVE IInv'
  OBVIOUS
<1> USE TargetElems DEF IInv, disk
<1>1. ASSUME NEW g \in GoalLists, NEW n \in Jobs, Start(g, n)
      PROVE  IInv'
  <2>1. TypeOK'
    BY <1>1, StepTargetsType DEF Start, TypeOK, Lines, Status
  <2>2. Idle'
    BY <1>1, StepTargetsType DEF Start, Idle, TypeOK, Lines
  <2>3. NoClean'
    <3> SUFFICES ASSUME Release, NEW m \in Modules
                 PROVE  <<m, "cleaned">> \notin want'
      BY <1>1 DEF Start, NoClean
    <3>1. \A i \in 1..Len(g) : <<m, "cleaned">> \notin StepTargets(g[i])
      BY StepTargetsType
    <3> QED BY <3>1, <1>1 DEF Start
  <2>4. Touched'
    BY <1>1, StepTargetsType DEF Start, Touched, TypeOK, Lines
  <2>5. Ordered'
    BY <1>1, StepTargetsType, DepsType DEF Start, Ordered, TypeOK, Lines, Node, Prereqs,
       Final
  <2>6. DoneStamped'
    BY <1>1, StepTargetsType DEF Start, DoneStamped, TypeOK, Lines, Ordered, Prereqs,
       Final, NoClean, Touched, Quiet
  <2>7. Quiet'
    BY <1>1, StepTargetsType DEF Start, Quiet, TypeOK, Lines, Ordered, Prereqs, Final,
       DoneStamped, NoClean, Touched
  <2>8. UsedNow'
    BY <1>1, StepTargetsType, DepsType DEF Start, UsedNow, TypeOK, Lines, Node, Ordered,
       Prereqs, Final, DoneStamped, Quiet, NoClean, Touched
  <2>9. TreeNow'
    BY <1>1, StepTargetsType DEF Start, TreeNow, TypeOK, Lines, Ordered, Prereqs, Final,
       Quiet, NoClean, Touched
  <2>10. StampsConsistent'
    BY <1>1, StepTargetsType, DepsType DEF Start, StampsConsistent, TypeOK, Lines, Node,
       Ordered, Prereqs, Final, DoneStamped, Quiet, UsedNow, NoClean, Touched
  <2>11. StampMeansWhole'
    BY <1>1, StepTargetsType DEF Start, StampMeansWhole, TypeOK, Lines, Ordered,
       Prereqs, Final, Quiet, NoClean, Touched, TreeNow
  <2> QED BY <2>1, <2>2, <2>3, <2>4, <2>5, <2>6, <2>7, <2>8, <2>9, <2>10, <2>11
<1>2. ASSUME NEW t \in Target, Skip(t)
      PROVE  IInv'
  <2>1. TypeOK'
    BY <1>2 DEF Skip, Ready, UpToDate, TypeOK, call, Lines, Status
  <2>2. Idle'
    BY <1>2 DEF Skip, Ready, UpToDate, Idle, TypeOK, Lines
  <2>3. NoClean'
    BY <1>2 DEF Skip, Ready, UpToDate, NoClean, TypeOK, Lines
  <2>4. Touched'
    BY <1>2 DEF Skip, Ready, UpToDate, Touched, TypeOK, Lines
  <2>5. Ordered'
    BY <1>2, OrderedStep DEF Skip, Ready, TypeOK, Status, Lines
  <2>6. DoneStamped'
    <3> SUFFICES ASSUME NEW m \in Modules \ touched, NEW k \in {"cleaned", "final"},
                        st'[<<m, k>>] = "done"
                 PROVE  k \in stamp[m]
      BY <1>2 DEF Skip, DoneStamped
    <3>1. CASE t = <<m, k>>
      BY <3>1, <1>2 DEF Skip, UpToDate
    <3>2. CASE t # <<m, k>>
      BY <3>2, <1>2 DEF Skip, DoneStamped, TypeOK
    <3> QED BY <3>1, <3>2
  <2>7. Quiet'
    BY <1>2 DEF Skip, Ready, UpToDate, Quiet, TypeOK, Lines, Ordered, Prereqs, Final,
       DoneStamped, NoClean, Touched
  <2>8. UsedNow'
    BY <1>2, DepsType DEF Skip, Ready, UpToDate, UsedNow, TypeOK, Lines, Node, Ordered,
       Prereqs, Final, DoneStamped, Quiet, NoClean, Touched
  <2>9. TreeNow'
    BY <1>2 DEF Skip, Ready, UpToDate, TreeNow, TypeOK, Lines, Ordered, Prereqs, Final,
       Quiet, NoClean, Touched
  <2>10. StampsConsistent'
    BY <1>2, DepsType DEF Skip, Ready, UpToDate, StampsConsistent, TypeOK, Lines, Node,
       Ordered, Prereqs, Final, DoneStamped, Quiet, UsedNow, NoClean, Touched
  <2>11. StampMeansWhole'
    BY <1>2 DEF Skip, Ready, UpToDate, StampMeansWhole, TypeOK, Lines, Ordered, Prereqs,
       Final, Quiet, NoClean, Touched, TreeNow
  <2> QED BY <2>1, <2>2, <2>3, <2>4, <2>5, <2>6, <2>7, <2>8, <2>9, <2>10, <2>11
<1>3. ASSUME NEW t \in Target, Launch(t)
      PROVE  IInv'
  <2>1. TypeOK'
    BY <1>3 DEF Launch, Ready, UpToDate, FirstLine, TypeOK, call, Lines, Status
  <2>2. Idle'
    BY <1>3 DEF Launch, Ready, UpToDate, FirstLine, Idle, TypeOK, Lines
  <2>3. NoClean'
    BY <1>3 DEF Launch, Ready, UpToDate, FirstLine, NoClean, TypeOK, Lines
  <2>4. Touched'
    BY <1>3 DEF Launch, Ready, UpToDate, FirstLine, Touched, TypeOK, Lines
  <2>5. Ordered'
    BY <1>3, DepsType DEF Launch, Ready, UpToDate, FirstLine, Ordered, TypeOK, Lines,
       Node, Prereqs, Final
  <2>6. DoneStamped'
    BY <1>3 DEF Launch, Ready, UpToDate, FirstLine, DoneStamped, TypeOK, Lines, Ordered,
       Prereqs, Final, NoClean, Touched, Quiet
  <2>7. Quiet'
    BY <1>3 DEF Launch, Ready, UpToDate, FirstLine, Quiet, TypeOK, Lines, Ordered,
       Prereqs, Final, DoneStamped, NoClean, Touched
  <2>8. UsedNow'
    BY <1>3, DepsType DEF Launch, Ready, UpToDate, FirstLine, UsedNow, TypeOK, Lines,
       Node, Ordered, Prereqs, Final, DoneStamped, Quiet, NoClean, Touched
  <2>9. TreeNow'
    <3>1. FirstLine(t) \notin {"finish", "touch"} \/ t[1] = Toplevel
      BY DEF FirstLine
    <3>2. \A m \in Modules : st'[<<m, "final">>] \in {"finish", "touch"}
                                => st[<<m, "final">>] = st'[<<m, "final">>]
      BY <3>1, <1>3 DEF Launch, TypeOK
    <3> QED BY <3>2, <1>3 DEF Launch, TreeNow
  <2>10. StampsConsistent'
    BY <1>3, DepsType DEF Launch, Ready, UpToDate, FirstLine, StampsConsistent, TypeOK,
       Lines, Node, Ordered, Prereqs, Final, DoneStamped, Quiet, UsedNow, NoClean,
       Touched
  <2>11. StampMeansWhole'
    BY <1>3 DEF Launch, Ready, UpToDate, FirstLine, StampMeansWhole, TypeOK, Lines,
       Ordered, Prereqs, Final, Quiet, NoClean, Touched, TreeNow
  <2> QED BY <2>1, <2>2, <2>3, <2>4, <2>5, <2>6, <2>7, <2>8, <2>9, <2>10, <2>11
<1>4. ASSUME NEW m \in Modules, RemoveDir(m)
      PROVE  IInv'
  <2>1. TypeOK'
    BY <1>4 DEF RemoveDir, TypeOK, call, Lines, Status
  <2>2. Idle'
    BY <1>4 DEF RemoveDir, Idle, TypeOK, Lines
  <2>3. NoClean'
    BY <1>4 DEF RemoveDir, NoClean, TypeOK, Lines
  <2>4. Touched'
    BY <1>4 DEF RemoveDir, Touched, TypeOK, Lines
  <2>5. Ordered'
    <3>1. <<m, "cleaned">> \in Target /\ st[<<m, "cleaned">>] \in Lines
      BY <1>4 DEF RemoveDir, Lines
    <3>2. st' = [st EXCEPT ![<<m, "cleaned">>] = "script"] /\ "script" \in Status
      BY <1>4 DEF RemoveDir, Status, Lines
    <3>3. \A p \in Prereqs(<<m, "cleaned">>) : st[p] = "done"
      BY <3>1 DEF Ordered
    <3> QED BY <3>1, <3>2, <3>3, OrderedStep DEF TypeOK, Lines
  <2>6. DoneStamped'
    BY <1>4 DEF RemoveDir, DoneStamped, TypeOK, Lines, Ordered, Prereqs, Final, NoClean,
       Touched, Quiet
  <2>7. Quiet'
    BY <1>4 DEF RemoveDir, Quiet, TypeOK, Lines, Ordered, Prereqs, Final, DoneStamped,
       NoClean, Touched
  <2>8. UsedNow'
    BY <1>4, DepsType DEF RemoveDir, UsedNow, TypeOK, Lines, Node, Ordered, Prereqs,
       Final, DoneStamped, Quiet, NoClean, Touched
  <2>9. TreeNow'
    <3>1. st[<<m, "final">>] \notin {"finish", "touch"}
      BY <1>4 DEF RemoveDir, Ordered, Prereqs, Final, NoClean, Lines
    <3> QED BY <3>1, <1>4 DEF RemoveDir, TreeNow, TypeOK
  <2>10. StampsConsistent'
    BY <1>4, DepsType DEF RemoveDir, StampsConsistent, TypeOK, Lines, Node, Ordered,
       Prereqs, Final, DoneStamped, Quiet, UsedNow, NoClean, Touched
  <2>11. StampMeansWhole'
    BY <1>4 DEF RemoveDir, StampMeansWhole, TypeOK, Lines, Ordered, Prereqs, Final,
       Quiet, NoClean, Touched, TreeNow
  <2> QED BY <2>1, <2>2, <2>3, <2>4, <2>5, <2>6, <2>7, <2>8, <2>9, <2>10, <2>11
<1>5. ASSUME NEW m \in Modules, ForceClean(m)
      PROVE  IInv'
  <2>1. TypeOK'
    BY <1>5 DEF ForceClean, TypeOK, call, Lines, Status
  <2>2. Idle'
    BY <1>5 DEF ForceClean, Idle, TypeOK, Lines
  <2>3. NoClean'
    BY <1>5 DEF ForceClean, NoClean, TypeOK, Lines
  <2>4. Touched'
    BY <1>5 DEF ForceClean, Touched, TypeOK, Lines
  <2>5. Ordered'
    BY <1>5, DepsType DEF ForceClean, Ordered, TypeOK, Lines, Node, Prereqs, Final
  <2>6. DoneStamped'
    BY <1>5 DEF ForceClean, DoneStamped, TypeOK, Lines, Ordered, Prereqs, Final,
       NoClean, Touched, Quiet
  <2>7. Quiet'
    BY <1>5 DEF ForceClean, Quiet, TypeOK, Lines, Ordered, Prereqs, Final, DoneStamped,
       NoClean, Touched
  <2>8. UsedNow'
    BY <1>5, DepsType DEF ForceClean, UsedNow, TypeOK, Lines, Node, Ordered, Prereqs,
       Final, DoneStamped, Quiet, NoClean, Touched
  <2>9. TreeNow'
    BY <1>5 DEF ForceClean, TreeNow, TypeOK, Lines, Ordered, Prereqs, Final, Quiet,
       NoClean, Touched
  <2>10. StampsConsistent'
    BY <1>5, DepsType DEF ForceClean, StampsConsistent, TypeOK, Lines, Node, Ordered,
       Prereqs, Final, DoneStamped, Quiet, UsedNow, NoClean, Touched
  <2>11. StampMeansWhole'
    BY <1>5 DEF ForceClean, StampMeansWhole, TypeOK, Lines, Ordered, Prereqs, Final,
       Quiet, NoClean, Touched, TreeNow
  <2> QED BY <2>1, <2>2, <2>3, <2>4, <2>5, <2>6, <2>7, <2>8, <2>9, <2>10, <2>11
<1>6. ASSUME NEW m \in Modules, RemoveBuilt(m)
      PROVE  IInv'
  <2>1. TypeOK'
    BY <1>6 DEF RemoveBuilt, TypeOK, call, Lines, Status
  <2>2. Idle'
    BY <1>6 DEF RemoveBuilt, Idle, TypeOK, Lines
  <2>3. NoClean'
    BY <1>6 DEF RemoveBuilt, NoClean, TypeOK, Lines
  <2>4. Touched'
    BY <1>6 DEF RemoveBuilt, Touched, TypeOK, Lines
  <2>5. Ordered'
    BY <1>6, DepsType DEF RemoveBuilt, Ordered, TypeOK, Lines, Node, Prereqs, Final
  <2>6. DoneStamped'
    BY <1>6 DEF RemoveBuilt, DoneStamped, TypeOK, Lines, Ordered, Prereqs, Final,
       NoClean, Touched, Quiet
  <2>7. Quiet'
    BY <1>6 DEF RemoveBuilt, Quiet, TypeOK, Lines, Ordered, Prereqs, Final, DoneStamped,
       NoClean, Touched
  <2>8. UsedNow'
    BY <1>6, DepsType DEF RemoveBuilt, UsedNow, TypeOK, Lines, Node, Ordered, Prereqs,
       Final, DoneStamped, Quiet, NoClean, Touched
  <2>9. TreeNow'
    BY <1>6 DEF RemoveBuilt, TreeNow, TypeOK, Lines, Ordered, Prereqs, Final, Quiet,
       NoClean, Touched
  <2>10. StampsConsistent'
    BY <1>6, DepsType DEF RemoveBuilt, StampsConsistent, TypeOK, Lines, Node, Ordered,
       Prereqs, Final, DoneStamped, Quiet, UsedNow, NoClean, Touched
  <2>11. StampMeansWhole'
    BY <1>6 DEF RemoveBuilt, StampMeansWhole, TypeOK, Lines, Ordered, Prereqs, Final,
       Quiet, NoClean, Touched, TreeNow
  <2> QED BY <2>1, <2>2, <2>3, <2>4, <2>5, <2>6, <2>7, <2>8, <2>9, <2>10, <2>11
<1>7. ASSUME NEW m \in Modules, CleanScript(m)
      PROVE  IInv'
  <2>1. TypeOK'
    BY <1>7 DEF CleanScript, TypeOK, call, Lines, Status
  <2>2. Idle'
    BY <1>7 DEF CleanScript, Idle, TypeOK, Lines
  <2>3. NoClean'
    BY <1>7 DEF CleanScript, NoClean, TypeOK, Lines
  <2>4. Touched'
    BY <1>7 DEF CleanScript, Touched, TypeOK, Lines
  <2>5. Ordered'
    <3>1. <<m, "cleaned">> \in Target /\ st[<<m, "cleaned">>] \in Lines
      BY <1>7 DEF CleanScript, Lines
    <3>2. st' = [st EXCEPT ![<<m, "cleaned">>] = "touch"] /\ "touch" \in Status
      BY <1>7 DEF CleanScript, Status, Lines
    <3>3. \A p \in Prereqs(<<m, "cleaned">>) : st[p] = "done"
      BY <3>1 DEF Ordered
    <3> QED BY <3>1, <3>2, <3>3, OrderedStep DEF TypeOK, Lines
  <2>6. DoneStamped'
    BY <1>7 DEF CleanScript, DoneStamped, TypeOK, Lines, Ordered, Prereqs, Final,
       NoClean, Touched, Quiet
  <2>7. Quiet'
    BY <1>7 DEF CleanScript, Quiet, TypeOK, Lines, Ordered, Prereqs, Final, DoneStamped,
       NoClean, Touched
  <2>8. UsedNow'
    BY <1>7, DepsType DEF CleanScript, UsedNow, TypeOK, Lines, Node, Ordered, Prereqs,
       Final, DoneStamped, Quiet, NoClean, Touched
  <2>9. TreeNow'
    BY <1>7 DEF CleanScript, TreeNow, TypeOK, Lines, Ordered, Prereqs, Final, Quiet,
       NoClean, Touched
  <2>10. StampsConsistent'
    BY <1>7 DEF CleanScript, StampsConsistent
  <2>11. StampMeansWhole'
    BY <1>7 DEF CleanScript, StampMeansWhole, TypeOK, Lines, Ordered, Prereqs, Final,
       Quiet, NoClean, Touched, TreeNow
  <2> QED BY <2>1, <2>2, <2>3, <2>4, <2>5, <2>6, <2>7, <2>8, <2>9, <2>10, <2>11
<1>8. ASSUME NEW m \in Modules, BuildScript(m)
      PROVE  IInv'
  <2>1. TypeOK'
    BY <1>8 DEF BuildScript, Final, TypeOK, call, Lines, Status
  <2>2. Idle'
    BY <1>8 DEF BuildScript, Final, Idle, TypeOK, Lines
  <2>3. NoClean'
    BY <1>8 DEF BuildScript, Final, NoClean, TypeOK, Lines
  <2>4. Touched'
    BY <1>8 DEF BuildScript, Final, Touched, TypeOK, Lines
  <2>5. Ordered'
    <3>1. <<m, "final">> \in Target /\ st[<<m, "final">>] \in Lines
      BY <1>8 DEF BuildScript, Lines, Final
    <3>2. st' = [st EXCEPT ![<<m, "final">>] = "finish"] /\ "finish" \in Status
      BY <1>8 DEF BuildScript, Status, Lines, Final
    <3>3. \A p \in Prereqs(<<m, "final">>) : st[p] = "done"
      BY <3>1 DEF Ordered
    <3> QED BY <3>1, <3>2, <3>3, OrderedStep DEF TypeOK, Lines
  <2>6. DoneStamped'
    BY <1>8 DEF BuildScript, Final, DoneStamped, TypeOK, Lines, Ordered, Prereqs,
       NoClean, Touched, Quiet
  <2>7. Quiet'
    BY <1>8 DEF BuildScript, Final, Quiet, TypeOK, Lines, Ordered, Prereqs, DoneStamped,
       NoClean, Touched
  <2>8. UsedNow'
    BY <1>8, DepsType DEF BuildScript, Final, UsedNow, TypeOK, Lines, Node, Ordered,
       Prereqs, DoneStamped, Quiet, NoClean, Touched
  <2>9. TreeNow'
    BY <1>8 DEF BuildScript, Final, TreeNow, TypeOK, Lines, Ordered, Prereqs, Quiet,
       NoClean, Touched
  <2>10. StampsConsistent'
    BY <1>8, DepsType DEF BuildScript, Final, StampsConsistent, TypeOK, Lines, Node,
       Ordered, Prereqs, DoneStamped, Quiet, UsedNow, NoClean, Touched
  <2>11. StampMeansWhole'
    BY <1>8 DEF BuildScript, Final, StampMeansWhole, TypeOK, Lines, Ordered, Prereqs,
       Quiet, NoClean, Touched, TreeNow
  <2> QED BY <2>1, <2>2, <2>3, <2>4, <2>5, <2>6, <2>7, <2>8, <2>9, <2>10, <2>11
<1>9. ASSUME NEW m \in Modules, FinishScript(m)
      PROVE  IInv'
  <2>1. TypeOK'
    <3>1. ver' \in [Modules -> Nat]
      BY <1>9 DEF FinishScript, TypeOK
    <3> QED BY <3>1, <1>9 DEF FinishScript, Final, TypeOK, call, Lines, Status
  <2>2. Idle'
    BY <1>9 DEF FinishScript, Final, Idle, TypeOK, Lines
  <2>3. NoClean'
    BY <1>9 DEF FinishScript, Final, NoClean, TypeOK, Lines
  <2>4. Touched'
    BY <1>9 DEF FinishScript, Final, Touched, TypeOK, Lines
  <2>5. Ordered'
    <3>1. <<m, "final">> \in Target /\ st[<<m, "final">>] \in Lines
      BY <1>9 DEF FinishScript, Lines, Final
    <3>2. st' = [st EXCEPT ![<<m, "final">>] = "touch"] /\ "touch" \in Status
      BY <1>9 DEF FinishScript, Status, Lines, Final
    <3>3. \A p \in Prereqs(<<m, "final">>) : st[p] = "done"
      BY <3>1 DEF Ordered
    <3> QED BY <3>1, <3>2, <3>3, OrderedStep DEF TypeOK, Lines
  <2>6. DoneStamped'
    BY <1>9 DEF FinishScript, Final, DoneStamped, TypeOK, Lines, Ordered, Prereqs,
       NoClean, Touched, Quiet
  <2>7. Quiet'
    BY <1>9 DEF FinishScript, Final, Quiet, TypeOK, Lines, Ordered, Prereqs,
       DoneStamped, NoClean, Touched
  <2>8. UsedNow'
    <3> SUFFICES ASSUME NEW n \in Modules, st'[<<n, "final">>] \in {"finish", "touch"},
                        NEW d \in DepsOf(n) \ {Toplevel}
                 PROVE  d \in touched' \/ used'[n][d] = ver'[d]
      BY <1>9 DEF FinishScript, UsedNow, DepsOf
    <3>1. st[<<n, "final">>] \in {"finish", "touch"}
      BY <1>9 DEF FinishScript, Final, TypeOK
    <3>2. st[<<d, "final">>] = "done"
      BY <3>1, DepsDone DEF Lines
    <3>3. d # m
      BY <3>2, <1>9 DEF FinishScript, Final
    <3>4. d \in Modules
      BY DepsType DEF Node
    <3> QED BY <3>1, <3>3, <3>4, <1>9 DEF FinishScript, UsedNow, TypeOK
  <2>9. TreeNow'
    BY <1>9 DEF FinishScript, Final, TreeNow, TypeOK, Lines, Ordered, Prereqs, Quiet,
       NoClean, Touched
  <2>10. StampsConsistent'
    BY <1>9, DepsType DEF FinishScript, Final, StampsConsistent, TypeOK, Lines, Node,
       Ordered, Prereqs, DoneStamped, Quiet, UsedNow, NoClean, Touched
  <2>11. StampMeansWhole'
    BY <1>9 DEF FinishScript, Final, StampMeansWhole, TypeOK, Lines, Ordered, Prereqs,
       Quiet, NoClean, Touched, TreeNow
  <2> QED BY <2>1, <2>2, <2>3, <2>4, <2>5, <2>6, <2>7, <2>8, <2>9, <2>10, <2>11
<1>10. ASSUME NEW m \in Modules, NEW k \in {"cleaned", "final"}, Touch(m, k)
      PROVE  IInv'
  <2>1. TypeOK'
    BY <1>10 DEF Touch, TypeOK, call, Lines, Status
  <2>2. Idle'
    BY <1>10 DEF Touch, Idle, TypeOK, Lines
  <2>3. NoClean'
    BY <1>10 DEF Touch, NoClean, TypeOK, Lines
  <2>4. Touched'
    BY <1>10 DEF Touch, Touched, TypeOK, Lines
  <2>5. Ordered'
    <3>1. <<m, k>> \in Target /\ st[<<m, k>>] \in Lines
      BY <1>10 DEF Touch, Lines
    <3>2. st' = [st EXCEPT ![<<m, k>>] = "done"] /\ "done" \in Status
      BY <1>10 DEF Touch, Status, Lines
    <3>3. \A p \in Prereqs(<<m, k>>) : st[p] = "done"
      BY <3>1 DEF Ordered
    <3> QED BY <3>1, <3>2, <3>3, OrderedStep DEF TypeOK, Lines
  <2>6. DoneStamped'
    BY <1>10 DEF Touch, DoneStamped, TypeOK, Lines, Ordered, Prereqs, Final, NoClean,
       Touched, Quiet
  <2>7. Quiet'
    <3>1. CASE k = "cleaned"
      BY <3>1, <1>10 DEF Touch, Quiet, TypeOK, Lines
    <3>2. CASE k = "final"
      <4>1. Release \/ st[<<m, "cleaned">>] = "done"
        BY <3>2, <1>10 DEF Touch, Ordered, Prereqs, Final, Lines
      <4>2. st[<<m, "cleaned">>] \notin Lines
        BY <4>1 DEF NoClean, Lines
      <4>3. m \in touched \/ Release \/ "cleaned" \in stamp[m]
        BY <4>1 DEF DoneStamped
      <4> QED BY <3>2, <4>2, <4>3, <1>10 DEF Touch, Quiet, TypeOK, Lines
    <3> QED BY <3>1, <3>2
  <2>8. UsedNow'
    BY <1>10, DepsType DEF Touch, UsedNow, TypeOK, Lines, Node, Ordered, Prereqs, Final,
       DoneStamped, Quiet, NoClean, Touched
  <2>9. TreeNow'
    BY <1>10 DEF Touch, TreeNow, TypeOK, Lines, Ordered, Prereqs, Final, Quiet, NoClean,
       Touched
  <2>10. StampsConsistent'
    <3>1. CASE k = "cleaned"
      BY <3>1, <1>10, DepsType DEF Touch, StampsConsistent, TypeOK, Node
    <3>2. CASE k = "final"
      <4> SUFFICES ASSUME NEW n \in Modules, "final" \in stamp'[n],
                          NEW d \in DepsOf(n) \ {Toplevel}, d \notin touched
                   PROVE  "final" \in stamp'[d] /\ used[n][d] = ver[d]
        BY <1>10 DEF Touch, StampsConsistent, DepsOf
      <4>1. d \in Modules
        BY DepsType DEF Node
      <4>2. CASE n # m
        BY <3>2, <4>1, <4>2, <1>10 DEF Touch, StampsConsistent, TypeOK
      <4>3. CASE n = m
        <5>1. st[<<d, "final">>] = "done"
          BY <3>2, <4>3, <1>10, DepsDone DEF Touch, Lines
        <5>2. used[n][d] = ver[d]
          BY <3>2, <4>3, <1>10 DEF Touch, UsedNow
        <5> QED BY <4>1, <5>1, <5>2, <1>10 DEF Touch, DoneStamped, TypeOK
      <4> QED BY <4>2, <4>3
    <3> QED BY <3>1, <3>2
  <2>11. StampMeansWhole'
    <3>1. CASE k = "cleaned"
      BY <3>1, <1>10 DEF Touch, StampMeansWhole, TypeOK
    <3>2. CASE k = "final"
      BY <3>2, <1>10 DEF Touch, StampMeansWhole, TreeNow, TypeOK
    <3> QED BY <3>1, <3>2
  <2> QED BY <2>1, <2>2, <2>3, <2>4, <2>5, <2>6, <2>7, <2>8, <2>9, <2>10, <2>11
<1>11. ASSUME FinishToplevel
      PROVE  IInv'
  <2>1. TypeOK'
    BY <1>11 DEF FinishToplevel, Final, TypeOK, call, Lines, Status
  <2>2. Idle'
    BY <1>11 DEF FinishToplevel, Final, Idle, TypeOK, Lines
  <2>3. NoClean'
    BY <1>11 DEF FinishToplevel, Final, NoClean, TypeOK, Lines
  <2>4. Touched'
    BY <1>11 DEF FinishToplevel, Final, Touched, TypeOK, Lines
  <2>5. Ordered'
    BY <1>11, DepsType DEF FinishToplevel, Final, Ordered, TypeOK, Lines, Node, Prereqs
  <2>6. DoneStamped'
    BY <1>11 DEF FinishToplevel, Final, DoneStamped, TypeOK
  <2>7. Quiet'
    BY <1>11 DEF FinishToplevel, Final, Quiet, TypeOK, Lines, Ordered, Prereqs,
       DoneStamped, NoClean, Touched
  <2>8. UsedNow'
    BY <1>11, DepsType DEF FinishToplevel, Final, UsedNow, TypeOK, Lines, Node, Ordered,
       Prereqs, DoneStamped, Quiet, NoClean, Touched
  <2>9. TreeNow'
    BY <1>11 DEF FinishToplevel, Final, TreeNow, TypeOK, Lines, Ordered, Prereqs, Quiet,
       NoClean, Touched
  <2>10. StampsConsistent'
    BY <1>11, DepsType DEF FinishToplevel, Final, StampsConsistent, TypeOK, Lines, Node,
       Ordered, Prereqs, DoneStamped, Quiet, UsedNow, NoClean, Touched
  <2>11. StampMeansWhole'
    BY <1>11 DEF FinishToplevel, Final, StampMeansWhole, TypeOK, Lines, Ordered,
       Prereqs, Quiet, NoClean, Touched, TreeNow
  <2> QED BY <2>1, <2>2, <2>3, <2>4, <2>5, <2>6, <2>7, <2>8, <2>9, <2>10, <2>11
<1>12. ASSUME End
      PROVE  IInv'
  <2>1. TypeOK'
    BY <1>12 DEF End, Over, TypeOK, Lines, Status
  <2>2. Idle'
    BY <1>12 DEF End, Over, Idle, TypeOK, Lines
  <2>3. NoClean'
    BY <1>12 DEF End, Over, NoClean, TypeOK, Lines
  <2>4. Touched'
    BY <1>12 DEF End, Over, Touched, TypeOK, Lines
  <2>5. Ordered'
    BY <1>12, DepsType DEF End, Over, Ordered, TypeOK, Lines, Node, Prereqs, Final
  <2>6. DoneStamped'
    BY <1>12 DEF End, Over, DoneStamped, TypeOK, Lines, Ordered, Prereqs, Final,
       NoClean, Touched, Quiet
  <2>7. Quiet'
    BY <1>12 DEF End, Over, Quiet, TypeOK, Lines, Ordered, Prereqs, Final, DoneStamped,
       NoClean, Touched
  <2>8. UsedNow'
    BY <1>12, DepsType DEF End, Over, UsedNow, TypeOK, Lines, Node, Ordered, Prereqs,
       Final, DoneStamped, Quiet, NoClean, Touched
  <2>9. TreeNow'
    BY <1>12 DEF End, Over, TreeNow, TypeOK, Lines, Ordered, Prereqs, Final, Quiet,
       NoClean, Touched
  <2>10. StampsConsistent'
    BY <1>12, DepsType DEF End, Over, StampsConsistent, TypeOK, Lines, Node, Ordered,
       Prereqs, Final, DoneStamped, Quiet, UsedNow, NoClean, Touched
  <2>11. StampMeansWhole'
    BY <1>12 DEF End, Over, StampMeansWhole, TypeOK, Lines, Ordered, Prereqs, Final,
       Quiet, NoClean, Touched, TreeNow
  <2> QED BY <2>1, <2>2, <2>3, <2>4, <2>5, <2>6, <2>7, <2>8, <2>9, <2>10, <2>11
<1>13. ASSUME NEW t \in Target, Fail(t)
      PROVE  IInv'
  <2>1. TypeOK'
    BY <1>13 DEF Fail, TypeOK, call, Lines, Status
  <2>2. Idle'
    BY <1>13 DEF Fail, Idle, TypeOK, Lines
  <2>3. NoClean'
    BY <1>13 DEF Fail, NoClean, TypeOK, Lines
  <2>4. Touched'
    BY <1>13 DEF Fail, Touched, TypeOK, Lines
  <2>5. Ordered'
    BY <1>13, DepsType DEF Fail, Ordered, TypeOK, Lines, Node, Prereqs, Final
  <2>6. DoneStamped'
    BY <1>13 DEF Fail, DoneStamped, TypeOK, Lines, Ordered, Prereqs, Final, NoClean,
       Touched, Quiet
  <2>7. Quiet'
    BY <1>13 DEF Fail, Quiet, TypeOK, Lines, Ordered, Prereqs, Final, DoneStamped,
       NoClean, Touched
  <2>8. UsedNow'
    BY <1>13, DepsType DEF Fail, UsedNow, TypeOK, Lines, Node, Ordered, Prereqs, Final,
       DoneStamped, Quiet, NoClean, Touched
  <2>9. TreeNow'
    BY <1>13 DEF Fail, TreeNow, TypeOK, Lines, Ordered, Prereqs, Final, Quiet, NoClean,
       Touched
  <2>10. StampsConsistent'
    BY <1>13, DepsType DEF Fail, StampsConsistent, TypeOK, Lines, Node, Ordered,
       Prereqs, Final, DoneStamped, Quiet, UsedNow, NoClean, Touched
  <2>11. StampMeansWhole'
    BY <1>13 DEF Fail, StampMeansWhole, TypeOK, Lines, Ordered, Prereqs, Final, Quiet,
       NoClean, Touched, TreeNow
  <2> QED BY <2>1, <2>2, <2>3, <2>4, <2>5, <2>6, <2>7, <2>8, <2>9, <2>10, <2>11
<1>14. ASSUME Kill
      PROVE  IInv'
  <2>1. TypeOK'
    BY <1>14 DEF Kill, Over, Removing, TypeOK, Lines, Status
  <2>2. Idle'
    BY <1>14 DEF Kill, Over, Removing, Idle, TypeOK, Lines
  <2>3. NoClean'
    BY <1>14 DEF Kill, Over, Removing, NoClean, TypeOK, Lines
  <2>4. Touched'
    BY <1>14 DEF Kill, Over, Removing, Touched, TypeOK, Lines
  <2>5. Ordered'
    BY <1>14, DepsType DEF Kill, Over, Removing, Ordered, TypeOK, Lines, Node, Prereqs,
       Final
  <2>6. DoneStamped'
    BY <1>14 DEF Kill, Over, Removing, DoneStamped, TypeOK, Lines, Ordered, Prereqs,
       Final, NoClean, Touched, Quiet
  <2>7. Quiet'
    BY <1>14 DEF Kill, Over, Removing, Quiet, TypeOK, Lines, Ordered, Prereqs, Final,
       DoneStamped, NoClean, Touched
  <2>8. UsedNow'
    BY <1>14, DepsType DEF Kill, Over, Removing, UsedNow, TypeOK, Lines, Node, Ordered,
       Prereqs, Final, DoneStamped, Quiet, NoClean, Touched
  <2>9. TreeNow'
    BY <1>14 DEF Kill, Over, Removing, TreeNow, TypeOK, Lines, Ordered, Prereqs, Final,
       Quiet, NoClean, Touched
  <2>10. StampsConsistent'
    <3> SUFFICES ASSUME NEW n \in Modules, "final" \in stamp'[n],
                        NEW d \in DepsOf(n) \ {Toplevel}, d \notin touched
                 PROVE  "final" \in stamp'[d] /\ used[n][d] = ver[d]
      BY <1>14 DEF Kill, Over, StampsConsistent, DepsOf
    <3>1. d \in Modules
      BY DepsType DEF Node
    <3>2. "final" \in stamp[n]
      BY <1>14 DEF Kill
    <3>3. "final" \in stamp[d] /\ used[n][d] = ver[d]
      BY <3>2 DEF StampsConsistent
    <3>4. d \notin Removing
      BY <3>1, <3>3 DEF Removing, Quiet, Touched, Lines
    <3> QED BY <3>1, <3>3, <3>4, <1>14 DEF Kill
  <2>11. StampMeansWhole'
    <3> SUFFICES ASSUME NEW n \in Modules \ touched, "final" \in stamp'[n]
                 PROVE  tree'[n] = "whole"
      BY <1>14 DEF Kill, Over, StampMeansWhole
    <3>1. "final" \in stamp[n]
      BY <1>14 DEF Kill
    <3>2. n \notin Removing
      BY <3>1 DEF Removing, Quiet, Touched, Lines
    <3> QED BY <3>1, <3>2, <1>14 DEF Kill, StampMeansWhole
  <2> QED BY <2>1, <2>2, <2>3, <2>4, <2>5, <2>6, <2>7, <2>8, <2>9, <2>10, <2>11
<1>15. ASSUME Distclean
      PROVE  IInv'
  <2>1. TypeOK'
    BY <1>15 DEF Distclean, TypeOK, call, Lines, Status, Idle
  <2>2. Idle'
    BY <1>15 DEF Distclean, Idle, TypeOK, Lines
  <2>3. NoClean'
    BY <1>15 DEF Distclean, NoClean, TypeOK, Lines, Idle
  <2>4. Touched'
    BY <1>15 DEF Distclean, Touched, TypeOK, Lines, Idle
  <2>5. Ordered'
    BY <1>15, DepsType DEF Distclean, Ordered, TypeOK, Lines, Node, Prereqs, Final, Idle
  <2>6. DoneStamped'
    BY <1>15 DEF Distclean, DoneStamped, TypeOK, Lines, Ordered, Prereqs, Final,
       NoClean, Touched, Quiet, Idle
  <2>7. Quiet'
    BY <1>15 DEF Distclean, Quiet, TypeOK, Lines, Ordered, Prereqs, Final, DoneStamped,
       NoClean, Touched, Idle
  <2>8. UsedNow'
    BY <1>15, DepsType DEF Distclean, UsedNow, TypeOK, Lines, Node, Ordered, Prereqs,
       Final, DoneStamped, Quiet, NoClean, Touched, Idle
  <2>9. TreeNow'
    BY <1>15 DEF Distclean, TreeNow, TypeOK, Lines, Ordered, Prereqs, Final, Quiet,
       NoClean, Touched, Idle
  <2>10. StampsConsistent'
    BY <1>15, DepsType DEF Distclean, StampsConsistent, TypeOK, Lines, Node, Ordered,
       Prereqs, Final, DoneStamped, Quiet, UsedNow, NoClean, Touched, Idle
  <2>11. StampMeansWhole'
    BY <1>15 DEF Distclean, StampMeansWhole, TypeOK, Lines, Ordered, Prereqs, Final,
       Quiet, NoClean, Touched, TreeNow, Idle
  <2> QED BY <2>1, <2>2, <2>3, <2>4, <2>5, <2>6, <2>7, <2>8, <2>9, <2>10, <2>11
<1>16. CASE UNCHANGED vars
  BY <1>16 DEF vars, TypeOK, call, Idle, NoClean, Touched, Ordered, DoneStamped, Quiet,
     UsedNow, TreeNow, StampsConsistent, StampMeansWhole, Prereqs
<1> QED
  BY <1>1, <1>2, <1>3, <1>4, <1>5, <1>6, <1>7, <1>8, <1>9, <1>10, <1>11, <1>12, <1>13,
     <1>14, <1>15, <1>16 DEF Next, Progress, Recipe

LEMMA Invariance == Spec => []IInv
<1>1. Init => IInv
  BY InvInit
<1>2. IInv /\ [Next]_vars => IInv'
  BY InvNext
<1> QED BY <1>1, <1>2, PTL DEF Spec

LEMMA IInvUndisturbed == IInv => Undisturbed
<1> SUFFICES ASSUME IInv, NEW m \in Modules, st[Final(m)] \in {"script", "finish"},
                    NEW d \in DepsOf(m) \ touched, NEW t \in Target, t[1] = d
             PROVE  ~Running(t)
  BY DEF Undisturbed
<1> USE DEF IInv
<1>1. st[<<d, "final">>] = "done"
  BY DepsDone DEF Final, Lines
<1>2. CASE t[2] = "final"
  BY <1>1, <1>2 DEF Target, Running, Lines
<1>3. CASE t[2] \in {"force", "unbuild"}
  <2>1. d \in Modules /\ (t = <<d, "force">> \/ t = <<d, "unbuild">>)
    BY <1>3 DEF Target
  <2> QED BY <2>1 DEF Touched, Running, Lines
<1>4. CASE t[2] = "cleaned"
  <2>1. d \in Modules /\ t = <<d, "cleaned">>
    BY <1>4 DEF Target
  <2>2. CASE Release
    BY <2>1, <2>2 DEF NoClean, Running, Lines
  <2>3. CASE ~Release
    BY <1>1, <2>1, <2>3, TargetElems DEF Ordered, Prereqs, Final, Running, Lines
  <2> QED BY <2>2, <2>3
<1> QED BY <1>2, <1>3, <1>4 DEF Target

-----------------------------------------------------------------------------
(* The refinement of BuildPromise.                                         *)

\* What an invocation cleans or rebuilds by name, it does not build upon.
Unnamed ==
  \A m, d \in Modules : \A k \in {"cleaned", "final"}, w \in {"force", "unbuild"} :
    d \in DepsOf(m) => st[<<m, k>>] = "none" \/ st[<<d, w>>] = "none"

\* DoneStamped, also for a module that an earlier invocation touched.
DoneHere ==
  \A m \in Modules :
    st[<<m, "force">>] = "none" /\ st[<<m, "unbuild">>] = "none"
      /\ st[<<m, "final">>] = "done" => "final" \in stamp[m]

RInv == IInv /\ Unnamed /\ DoneHere

\* Start aims at what the steps of the command line name.
LEMMA UnnamedStart ==
  ASSUME PlainLines, IInv, NEW g \in GoalLists, NEW n \in Jobs, Start(g, n)
  PROVE  Unnamed'
<1> SUFFICES ASSUME NEW m \in Modules, NEW d \in Modules, d \in DepsOf(m),
                    NEW k \in {"cleaned", "final"}, st'[<<m, k>>] # "none",
                    NEW w \in {"force", "unbuild"}, st'[<<d, w>>] # "none"
             PROVE  FALSE
  BY DEF Unnamed, DepsOf
<1>1. <<m, k>> \in want' /\ <<d, w>> \in want'
  BY TargetElems DEF Start
<1>2. PICK i \in 1..Len(g) : <<d, w>> \in StepTargets(g[i])
  BY <1>1 DEF Start
<1>3. PICK j \in 1..Len(g) : <<m, k>> \in StepTargets(g[j])
  BY <1>1 DEF Start
<1> QED BY <1>2, <1>3 DEF PlainLines

LEMMA UnnamedStep ==
  ASSUME TypeOK, Unnamed, NEW t \in Target, NEW v \in Status,
         st' = [st EXCEPT ![t] = v], st[t] # "none"
  PROVE  Unnamed'
<1>1. \A u \in Target : st[u] = "none" => st'[u] = "none"
  BY DEF TypeOK
<1> QED BY <1>1, TargetElems DEF Unnamed, DepsOf

LEMMA RInvInit == Init => RInv
  BY InvInit DEF Init, RInv, Unnamed, DoneHere, Target

LEMMA RInvNext ==
  ASSUME PlainLines, RInv, [Next]_vars
  PROVE  RInv'
<1> USE TargetElems DEF RInv, disk, call
<1>1. IInv'
  BY InvNext
<1>2. ASSUME NEW g \in GoalLists, NEW n \in Jobs, Start(g, n)
      PROVE  Unnamed' /\ DoneHere'
  <2>1. Unnamed'
    BY <1>2, UnnamedStart
  <2>2. DoneHere'
    BY <1>2 DEF Start, DoneHere
  <2> QED BY <2>1, <2>2
<1>3. ASSUME NEW t \in Target, Skip(t)
      PROVE  Unnamed' /\ DoneHere'
  <2>1. Unnamed'
    BY <1>3, UnnamedStep DEF Skip, Ready, IInv, Status
  <2>2. DoneHere'
    BY <1>3 DEF Skip, UpToDate, DoneHere, IInv, TypeOK
  <2> QED BY <2>1, <2>2
<1>4. ASSUME NEW t \in Target, Launch(t)
      PROVE  Unnamed' /\ DoneHere'
  <2>1. Unnamed'
    BY <1>4, UnnamedStep DEF Launch, Ready, FirstLine, IInv, Status, Lines
  <2>2. DoneHere'
    BY <1>4 DEF Launch, FirstLine, DoneHere, IInv, TypeOK
  <2> QED BY <2>1, <2>2
<1>5. ASSUME NEW m \in Modules, RemoveDir(m)
      PROVE  Unnamed' /\ DoneHere'
  <2>1. st[<<m, "final">>] # "done"
    BY <1>5 DEF RemoveDir, IInv, Ordered, Prereqs, Final, NoClean
  <2>2. DoneHere'
    BY <2>1, <1>5 DEF RemoveDir, DoneHere, IInv, TypeOK
  <2> QED BY <2>2, <1>5, UnnamedStep DEF RemoveDir, IInv, Status, Lines
<1>6. ASSUME NEW m \in Modules, ForceClean(m)
      PROVE  Unnamed' /\ DoneHere'
  BY <1>6, UnnamedStep DEF ForceClean, DoneHere, IInv, TypeOK, Status, Lines
<1>7. ASSUME NEW m \in Modules, RemoveBuilt(m)
      PROVE  Unnamed' /\ DoneHere'
  BY <1>7, UnnamedStep DEF RemoveBuilt, DoneHere, IInv, TypeOK, Status, Lines
<1>8. ASSUME NEW m \in Modules, CleanScript(m)
      PROVE  Unnamed' /\ DoneHere'
  BY <1>8, UnnamedStep DEF CleanScript, DoneHere, IInv, TypeOK, Status, Lines
<1>9. ASSUME NEW m \in Modules, BuildScript(m)
      PROVE  Unnamed' /\ DoneHere'
  BY <1>9, UnnamedStep DEF BuildScript, Final, DoneHere, IInv, TypeOK, Status, Lines
<1>10. ASSUME NEW m \in Modules, FinishScript(m)
       PROVE  Unnamed' /\ DoneHere'
  BY <1>10, UnnamedStep DEF FinishScript, Final, DoneHere, IInv, TypeOK, Status, Lines
<1>11. ASSUME NEW m \in Modules, NEW k \in {"cleaned", "final"}, Touch(m, k)
       PROVE  Unnamed' /\ DoneHere'
  BY <1>11, UnnamedStep DEF Touch, DoneHere, IInv, TypeOK, Status, Lines
<1>12. ASSUME FinishToplevel
       PROVE  Unnamed' /\ DoneHere'
  BY <1>12, UnnamedStep DEF FinishToplevel, Final, DoneHere, IInv, TypeOK, Status, Lines
<1>13. ASSUME NEW t \in Target, Fail(t)
       PROVE  Unnamed' /\ DoneHere'
  BY <1>13, UnnamedStep DEF Fail, DoneHere, IInv, TypeOK, Status, Lines
<1>14. ASSUME End \/ Kill
       PROVE  Unnamed' /\ DoneHere'
  BY <1>14 DEF End, Kill, Over, Unnamed, DoneHere
<1>15. ASSUME Distclean
       PROVE  Unnamed' /\ DoneHere'
  BY <1>15 DEF Distclean, Unnamed, DoneHere, IInv, Idle, DepsOf
<1>16. ASSUME UNCHANGED vars
       PROVE  Unnamed' /\ DoneHere'
  <2>1. st' = st /\ stamp' = stamp
    BY <1>16 DEF vars
  <2> QED BY <2>1 DEF Unnamed, DoneHere, DepsOf
<1> QED
  BY <1>1, <1>2, <1>3, <1>4, <1>5, <1>6, <1>7, <1>8, <1>9, <1>10, <1>11, <1>12, <1>13,
     <1>14, <1>15, <1>16 DEF Next, Progress, Recipe

\* A module that is stamped has the stamps of all it needs.
LEMMA TouchBuilds ==
  ASSUME RInv, NEW m \in Modules, Touch(m, "final"), NEW d \in DepsOf(m) \ {Toplevel}
  PROVE  d \in Modules /\ "final" \in stamp[d]
<1>1. d \in Modules
  BY DepsType DEF Node
<1>2. st[<<m, "final">>] \in Lines
  BY DEF Touch, Lines
<1>3. st[<<d, "final">>] = "done"
  BY <1>2, DepsDone DEF RInv
<1>4. st[<<d, "force">>] = "none" /\ st[<<d, "unbuild">>] = "none"
  BY <1>1, <1>2 DEF RInv, Unnamed, Lines
<1> QED BY <1>1, <1>3, <1>4 DEF RInv, DoneHere

Built == {m \in Modules : "final" \in stamp[m]}

\* Whatever only removes stamps is one Discard.
LEMMA Removal ==
  ASSUME \A m \in Modules : "final" \in stamp'[m] => "final" \in stamp[m]
  PROVE  Promise!Next \/ UNCHANGED Built
<1> DEFINE S == Built \ Built'
<1>1. S \in SUBSET Modules
  BY DEF Built
<1>2. S \subseteq Built /\ Built' = Built \ S
  BY DEF Built
<1> HIDE DEF S
<1>3. \E R \in SUBSET Modules : R \subseteq Built /\ Built' = Built \ R
  BY <1>1, <1>2
<1> QED BY <1>3 DEF Promise!Next, Promise!Discard, Built

LEMMA StepKeepsPromise ==
  ASSUME RInv, [Next]_vars
  PROVE  Promise!Next \/ UNCHANGED Built
<1> USE DEF disk
<1>1. ASSUME NEW m \in Modules, Touch(m, "final"), "final" \notin stamp[m]
      PROVE  Promise!Next
  <2>1. [n \in Modules |-> DepsOf(n) \ {Toplevel}][m] \subseteq Built
    BY <1>1, TouchBuilds DEF Built
  <2>2. Built' = Built \cup {m}
    BY <1>1 DEF Touch, Built, RInv, IInv, TypeOK
  <2>3. Promise!Build(m)
    BY <1>1, <2>1, <2>2 DEF Promise!Build, Built
  <2> QED BY <2>3 DEF Promise!Next
<1>2. ASSUME NEW m \in Modules, NEW k \in {"cleaned", "final"}, Touch(m, k),
             k = "cleaned" \/ "final" \in stamp[m]
      PROVE  UNCHANGED Built
  BY <1>2 DEF Touch, Built, RInv, IInv, TypeOK
<1>3. ASSUME NEW m \in Modules, RemoveDir(m) \/ ForceClean(m) \/ RemoveBuilt(m)
      PROVE  Promise!Next \/ UNCHANGED Built
  <2>1. \A n \in Modules : "final" \in stamp'[n] => "final" \in stamp[n]
    <3>1. CASE RemoveDir(m) \/ ForceClean(m)
      BY <3>1 DEF RemoveDir, ForceClean, RInv, IInv, TypeOK
    <3>2. CASE RemoveBuilt(m) /\ Release
      BY <3>2 DEF RemoveBuilt
    <3>3. CASE RemoveBuilt(m) /\ ~Release
      BY <3>3 DEF RemoveBuilt, RInv, IInv, TypeOK
    <3> QED BY <1>3, <3>1, <3>2, <3>3
  <2> QED BY <2>1, Removal
<1>4. ASSUME Kill \/ Distclean
      PROVE  Promise!Next \/ UNCHANGED Built
  BY <1>4, Removal DEF Kill, Distclean, RInv, IInv, TypeOK
<1>5. ASSUME stamp' = stamp
      PROVE  UNCHANGED Built
  BY <1>5 DEF Built
<1> QED
  BY <1>1, <1>2, <1>3, <1>4, <1>5 DEF Next, Progress, Recipe, Start, Skip, Launch,
     CleanScript, BuildScript, FinishScript, FinishToplevel, End, Fail, vars

-----------------------------------------------------------------------------
(* A serial make rebuilds.                                                 *)

\* What is wanted is what the command line names.
Wanted ==
  want # {} => goals \in GoalLists /\ want = UNION {StepTargets(goals[i]) : i \in 1..Len(goals)}

\* The stamp is removed before make comes to the module, and then its script
\* runs before it is done.
StampGone ==
  jobs = 1 => \A m \in Modules : <<m, "unbuild">> \in want =>
    /\ <<m, "final">> \in want
    /\ st[<<m, "unbuild">>] # "done" => st[<<m, "final">>] = "todo"
    /\ st[<<m, "unbuild">>] = "done" /\ st[<<m, "final">>] = "todo" => "final" \notin stamp[m]
    /\ st[<<m, "final">>] \in {"touch", "done"} => m \in ran

SInv == TypeOK /\ Wanted /\ StampGone

\* When it is the turn of a module, its stamp was removed.
LEMMA TurnLater ==
  ASSUME RebuildLines, SInv, jobs = 1, NEW m \in Modules, <<m, "unbuild">> \in want,
         Turn(<<m, "final">>)
  PROVE  st[<<m, "unbuild">>] = "done"
<1>1. goals \in GoalLists /\ want = UNION {StepTargets(goals[i]) : i \in 1..Len(goals)}
  BY DEF SInv, Wanted
<1>2. PICK i \in 1..Len(goals) : <<m, "unbuild">> \in StepTargets(goals[i])
  BY <1>1
<1>3. \A k \in 1..i : <<m, "final">> \notin StepTargets(goals[k])
  BY <1>1, <1>2 DEF RebuildLines, Final
<1> QED BY <1>2, <1>3 DEF Turn

LEMMA SInvNext ==
  ASSUME RebuildLines, Release = FALSE, SInv, TypeOK', [Next]_vars
  PROVE  SInv'
<1> USE TargetElems DEF SInv, disk, call
<1>1. ASSUME NEW g \in GoalLists, NEW n \in Jobs, Start(g, n)
      PROVE  Wanted' /\ StampGone'
  <2>1. Wanted'
    BY <1>1 DEF Start, Wanted
  <2>2. ASSUME NEW m \in Modules, <<m, "unbuild">> \in want'
        PROVE  /\ <<m, "final">> \in want'
               /\ st'[<<m, "final">>] = "todo" /\ st'[<<m, "unbuild">>] = "todo"
    <3>1. PICK i \in 1..Len(g) : <<m, "unbuild">> \in StepTargets(g[i])
      BY <1>1, <2>2 DEF Start
    <3>2. \E j \in 1..Len(g) : <<m, "final">> \in StepTargets(g[j])
      BY <3>1 DEF RebuildLines, Final
    <3>3. <<m, "final">> \in want'
      BY <3>2, <1>1 DEF Start
    <3> QED BY <3>3, <2>2, <1>1 DEF Start
  <2> QED BY <2>1, <2>2 DEF StampGone
<1>2. ASSUME NEW t \in Target, Skip(t)
      PROVE  Wanted' /\ StampGone'
  <2>1. Wanted'
    BY <1>2 DEF Skip, Wanted
  <2> SUFFICES ASSUME jobs = 1, NEW m \in Modules, <<m, "unbuild">> \in want
               PROVE  t # <<m, "final">> /\ t # <<m, "unbuild">>
    BY <2>1, <1>2 DEF Skip, StampGone, TypeOK
  <2>2. ASSUME t = <<m, "final">>
        PROVE  FALSE
    BY <2>2, <1>2, TurnLater DEF Skip, Ready, UpToDate, StampGone
  <2> QED BY <2>2, <1>2 DEF Skip, UpToDate
<1>3. ASSUME NEW t \in Target, Launch(t)
      PROVE  Wanted' /\ StampGone'
  <2>1. Wanted'
    BY <1>3 DEF Launch, Wanted
  <2> SUFFICES ASSUME jobs = 1, NEW m \in Modules, <<m, "unbuild">> \in want
               PROVE  t = <<m, "final">> => st[<<m, "unbuild">>] = "done"
    BY <2>1, <1>3 DEF Launch, Ready, FirstLine, StampGone, TypeOK
  <2> QED BY <1>3, TurnLater DEF Launch, Ready
<1>4. ASSUME NEW m \in Modules, RemoveDir(m) \/ CleanScript(m)
      PROVE  Wanted' /\ StampGone'
  <2>1. CASE RemoveDir(m)
    BY <2>1 DEF RemoveDir, Wanted, StampGone, TypeOK
  <2>2. CASE CleanScript(m)
    BY <2>2 DEF CleanScript, Wanted, StampGone, TypeOK
  <2> QED BY <1>4, <2>1, <2>2
<1>5. ASSUME NEW m \in Modules, ForceClean(m)
      PROVE  Wanted' /\ StampGone'
  BY <1>5 DEF ForceClean, Wanted, StampGone, TypeOK
<1>6. ASSUME NEW m \in Modules, RemoveBuilt(m)
      PROVE  Wanted' /\ StampGone'
  BY <1>6 DEF RemoveBuilt, Wanted, StampGone, TypeOK
<1>7. ASSUME NEW m \in Modules, BuildScript(m)
      PROVE  Wanted' /\ StampGone'
  BY <1>7 DEF BuildScript, Final, Wanted, StampGone, TypeOK
<1>8. ASSUME NEW m \in Modules, FinishScript(m)
      PROVE  Wanted' /\ StampGone'
  BY <1>8 DEF FinishScript, Final, Wanted, StampGone, TypeOK
<1>9. ASSUME NEW m \in Modules, NEW k \in {"cleaned", "final"}, Touch(m, k)
      PROVE  Wanted' /\ StampGone'
  <2>1. CASE k = "cleaned"
    BY <2>1, <1>9 DEF Touch, Wanted, StampGone, TypeOK
  <2>2. CASE k = "final"
    BY <2>2, <1>9 DEF Touch, Wanted, StampGone, TypeOK
  <2> QED BY <2>1, <2>2
<1>10. ASSUME FinishToplevel
       PROVE  Wanted' /\ StampGone'
  BY <1>10 DEF FinishToplevel, Final, Wanted, StampGone, TypeOK
<1>11. ASSUME NEW t \in Target, Fail(t)
       PROVE  Wanted' /\ StampGone'
  <2>1. Wanted'
    BY <1>11 DEF Fail, Wanted
  <2>2. StampGone'
    BY <1>11 DEF Fail, StampGone, TypeOK
  <2> QED BY <2>1, <2>2
<1>12. ASSUME End \/ Kill
       PROVE  Wanted' /\ StampGone'
  BY <1>12 DEF End, Kill, Over, Wanted, StampGone
<1>13. ASSUME Distclean
       PROVE  Wanted' /\ StampGone'
  BY <1>13 DEF Distclean, Wanted, StampGone
<1>14. ASSUME UNCHANGED vars
       PROVE  Wanted' /\ StampGone'
  BY <1>14 DEF vars, Wanted, StampGone
<1> QED
  BY <1>1, <1>2, <1>3, <1>4, <1>5, <1>6, <1>7, <1>8, <1>9, <1>10, <1>11, <1>12, <1>13,
     <1>14 DEF Next, Progress, Recipe

-----------------------------------------------------------------------------
(* The theorems.                                                           *)

\* The variables of the rules of module.mk keep their types.
THEOREM TypeCorrect == Spec => []TypeOK
  BY Invariance, PTL DEF IInv

\* A stamped module was built from the present output of its stamped
\* dependencies, through any kills, failures and -j, but for the dependencies
\* that were cleaned or rebuilt by name.
THEOREM StampsAreConsistent == Spec => []StampsConsistent
  BY Invariance, PTL DEF IInv

\* The stamp of a module stands for a complete tree.
THEOREM StampsMeanWhole == Spec => []StampMeansWhole
  BY Invariance, PTL DEF IInv

\* No recipe works on a dependency while a module's script runs.
THEOREM ScriptsUndisturbed == Spec => []Undisturbed
  BY Invariance, IInvUndisturbed, PTL

\* Stamping implements BuildPromise when the command lines are plain: a module
\* is stamped only while all it needs is stamped.
THEOREM StampsKeepPromise ==
  ASSUME PlainLines
  PROVE  Spec => KeepsPromise
<1>1. Init => Promise!Init
  BY DEF Init, Promise!Init
<1>2. Init => RInv
  BY RInvInit
<1>3. RInv /\ [Next]_vars => RInv'
  BY RInvNext
<1>4. RInv /\ [Next]_vars => [Promise!Next]_Built
  BY StepKeepsPromise
<1> QED BY <1>1, <1>2, <1>3, <1>4, PTL DEF Spec, KeepsPromise, Promise!Spec, Built

\* x-rebuild of a serial make runs the script of x, through any mix of other
\* goals on the line, unless RELEASE is y.
THEOREM SerialMakeRebuilds ==
  ASSUME RebuildLines, Release = FALSE
  PROVE  Spec => []SerialRebuilds
<1>1. Init => SInv
  BY InvInit DEF Init, IInv, SInv, Wanted, StampGone
<1>2. IInv /\ SInv /\ [Next]_vars => IInv' /\ SInv'
  BY InvNext, SInvNext DEF IInv
<1>3. SInv => SerialRebuilds
  BY TargetElems DEF SInv, StampGone, SerialRebuilds, RebuildRebuilds, Succeeded
<1> QED BY <1>1, <1>2, <1>3, InvInit, PTL DEF Spec
=============================================================================
