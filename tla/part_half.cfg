SPECIFICATION Spec
CONSTANTS
  Reserve = 8
  MinBackup = 2
  Block = 2
  Sector = 1
  MB = 4
  IntMax = 15
  Word = 1024
  Begins <- MCBegins
  Flashes = {44}
  Gpt <- MCGpt
  Tables <- MCHalf
INVARIANT ChipSuffices
CHECK_DEADLOCK FALSE
