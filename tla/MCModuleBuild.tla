---------------------------- MODULE MCModuleBuild ----------------------------
(* Instances of ModuleBuild for TLC: the corner of the SDK's graph in which *)
(* tee needs security, and image needs both.                                *)
EXTENDS ModuleBuild

MCModules == {"security", "tee", "image"}
MCDeps ==
  [security |-> {}, tee |-> {"toplevel", "security"},
   image |-> {"toplevel", "tee", "security"}]

\* Plain builds, partial ones, and the -clean, -rebuild and -depends goals.
\* No line cleans and builds: the promise is not made to it.
MCGoals ==
  {<<Make("image")>>, <<Clean("security")>>, Rebuild("security"),
   <<Depends("tee")>>, <<All>>}

MCRebuildGoals == {<<Make("tee")>>, Rebuild("tee"), Rebuild("security")}

ASSUME LinesAssumption == PlainLines /\ RebuildLines

MCJobs == {1, 2}
MCTwoJobs == {2}
=============================================================================
