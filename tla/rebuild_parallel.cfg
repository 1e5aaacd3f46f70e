SPECIFICATION Spec
CONSTANTS
  Modules <- MCModules
  Toplevel = "toplevel"
  Deps <- MCDeps
  Release = FALSE
  Jobs <- MCTwoJobs
  GoalLists <- MCRebuildGoals
  MaxRuns = 2
INVARIANTS RebuildRebuilds
CHECK_DEADLOCK FALSE
