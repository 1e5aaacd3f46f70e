SPECIFICATION Spec
CONSTANTS
  Symbols <- MCSymbols
  ChoiceSet = {"C"}
  Modules = "MODULES"
  ChoiceOf <- MCChoiceOf
  Accepts <- MCAccepts
  NoValue = NoValue
  TypeOf <- MCTypeOf
  Optional = {}
  Menu <- MCMenu
  View <- MCView
  Toggles = {"T", "C", "A", "B", "S"}
  Order <- MCOrder
  Conf = ".config"
  Names = {".config", "defconfig"}
  FirstConfs <- MCFirstConfs
  CutValues <- MCCutValues
  Absent = NoValue
  MaxRuns = 2
  MaxOps = 2
  MaxFaults = 1
INVARIANT SavedIsLoaded MinDerives Unsaved OldKept Respected
PROPERTY TornNoticed AllAsked OldconfigEnds
CHECK_DEADLOCK FALSE
