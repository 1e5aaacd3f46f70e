SPECIFICATION Spec
CONSTANTS
  Symbols <- MCSymbols
  ChoiceSet <- MCChoices
  Modules = "MODULES"
  ChoiceOf <- MCChoiceOf
  HasPrompt <- MCHasPrompt
  Accepts <- MCAccepts
  Dependents <- MCDependents
  Nodes <- MCNodes
  Worth <- MCWorth
  Asked <- MCAsked
  Files <- MCFiles
  NoValue = NoValue
  Uncached = Uncached
  TypeOf <- MCTypeOf
  Optional = {"C"}
  Menu <- MCMenu
  MaxOps = 2
INVARIANT LoadReplaces
CHECK_DEADLOCK FALSE
