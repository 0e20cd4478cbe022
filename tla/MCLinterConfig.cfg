CONSTANTS
  Categories <- AllCategories
  Toplevel <- TopOf
  DefaultFilters <- Defaults
  Commands <- CommandPlain
  Sources <- SourcesSome
  Configs <- ConfigsNested
SPECIFICATION Spec
INVARIANT NearestLineLength
CHECK_DEADLOCK FALSE
