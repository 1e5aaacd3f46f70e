SPECIFICATION Spec
CONSTANTS
  Absent = Absent
  Configs <- RecoveryOnly
  MaxVersion = 1
  MaxRuns = 2
  MaxKills = 1
INVARIANT RecoveryIsItsOwn
CHECK_DEADLOCK FALSE
