SPECIFICATION Spec
CONSTANTS
  Suites = {"loops"}
  Offer <- MCOffer
  MaxLines <- MCMaxLines
  Args <- MCArgs
  Finalize <- FinalTree
  LoopSeen <- LoopsIn
  None = None
INVARIANT ChoiceLoopsFound

CHECK_DEADLOCK FALSE
