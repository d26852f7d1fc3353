SPECIFICATION Spec
CONSTANTS
  Names <- OrderedNames
  LemmaNames <- Lemmas
  Theories <- AllTheories
  None = None
INVARIANTS TourIsComplete SmartSkipsNothing
PROPERTIES ArrowsArrive
