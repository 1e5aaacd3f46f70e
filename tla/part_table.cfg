SPECIFICATION Spec
CONSTANTS
  Reserve = 8
  MinBackup = 2
  Block = 2
  Sector = 1
  MB = 4
  IntMax = 15
  Word = 1024
  Begins <- MCBegins
  Flashes <- MCFlashes
  Gpt <- MCGpt
  Tables <- MCTables
INVARIANTS Disjoint InsideChip ClearOfGpt NoGaps FilesAgree Recorded
CHECK_DEADLOCK FALSE
