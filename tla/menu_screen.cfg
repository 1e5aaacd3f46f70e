SPECIFICATION Spec
CONSTANTS
  Symbols <- MCSymbols
  ChoiceSet = {"C"}
  Modules = "MODULES"
  ChoiceOf <- MCChoiceOf
  Accepts <- MCAccepts
  NoValue = NoValue
  TypeOf <- MCTypeOf
  Optional = {}
  Menu <- MCMenu
  Kconfigs <- MCKconfigs
  Tree <- MCTree
  View <- MCView
  Loads <- MCLoads
  Matching <- MCMatching
  TextLength <- MCTextLength
  Texts = {"I"}
  MENU = "MENU"
  SCROLL_OFFSET = 1
  PG_JUMP = 2
  SHOW_HELP_HEIGHT = 8
  MainHelp = 1
  InfoHelp = 1
  JumpToHelp = 1
  InfoLines <- MCInfoLines
  DialogWidth = 9
  Terminals <- MCTerminals
  MaxChanges <- MCMaxChanges
  MaxDialogs <- MCMaxDialogs
  MaxStray = 1
INVARIANTS CursorOnScreen ShownIsCurrent WayBack ValuesFit
PROPERTIES KeysKeepClear PlaceKept
CHECK_DEADLOCK FALSE
