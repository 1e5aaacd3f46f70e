SPECIFICATION Spec
CONSTANTS
  Suites = {"implicit", "blocks", "choices", "files", "loops", "helps"}
  Offer <- MCOffer
  MaxLines <- MCMaxLines
  Args <- MCArgs
  Finalize <- FinalTree
  LoopSeen <- LoopsIn
  None = None
INVARIANTS DepsComplete ImplicitMenus ChoiceMembers LoopsTold FilesNest Located AsWritten
CHECK_DEADLOCK FALSE
