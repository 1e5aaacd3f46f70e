SPECIFICATION FairSpec
CONSTANTS
  Modules <- MCModules
  Toplevel = "toplevel"
  Deps <- MCDeps
  Release = FALSE
  Jobs <- MCJobs
  GoalLists <- MCGoals
  MaxRuns = 3
INVARIANTS TypeOK StampsConsistent StampMeansWhole Undisturbed SerialRebuilds
PROPERTIES KeepsPromise EveryRunEnds
CHECK_DEADLOCK FALSE
