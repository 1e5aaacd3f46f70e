SPECIFICATION Spec
CONSTANTS
  Absent = Absent
  Configs <- AllConfigs
  MaxVersion = 1
  MaxRuns = 2
  MaxKills = 1
INVARIANTS ReleaseIsCurrent OwnLayout
PROPERTY FailsOnlyForWant
CHECK_DEADLOCK FALSE
