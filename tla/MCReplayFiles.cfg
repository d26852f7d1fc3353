SPECIFICATION FileSpec
CONSTANTS
  Systems <- Sys
  Root = 1
  Names <- OrderedNames
  Calculi <- Worlds
  Texts <- Written
  MaxEdits = 1
  None = None
INVARIANTS VerdictIsTrue NothingIsDropped VerdictSurvivesReload
