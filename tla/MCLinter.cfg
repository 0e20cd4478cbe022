CONSTANTS
  Categories <- AllCategories
  Toplevel <- TopOf
  DefaultFilters <- Defaults
  Commands <- CommandsSome
  Sources <- SourcesSome
  Configs <- ConfigsSome
SPECIFICATION FairSpec
INVARIANTS TypeOK CountsAddUp PrintsTheDeserved GuardsAreJudged
PROPERTY Terminates
CHECK_DEADLOCK FALSE
