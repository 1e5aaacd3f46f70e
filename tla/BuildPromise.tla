---------------------------- MODULE BuildPromise ----------------------------
(***************************************************************************)
(* What the build of an SDK promises, apart from how make keeps it: a      *)
(* module becomes built when everything it needs is built, and what was    *)
(* built is lost only all at once with its directory.  No order among      *)
(* modules that do not need one another, no stamps, no jobs, no            *)
(* invocations.                                                            *)
(***************************************************************************)
CONSTANTS
  Modules,   \* the configured modules
  Needs      \* Needs[m]: the modules m needs

VARIABLE built   \* the modules that are built

Init == built = {}

Build(m) ==
  /\ m \notin built /\ Needs[m] \subseteq built
  /\ built' = built \cup {m}

Discard(S) ==
  /\ S \subseteq built
  /\ built' = built \ S

Next ==
  \/ \E m \in Modules : Build(m)
  \/ \E S \in SUBSET Modules : Discard(S)

Spec == Init /\ [][Next]_built
=============================================================================
