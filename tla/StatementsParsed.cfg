SPECIFICATION Spec
CONSTANTS
  Names <- Identifiers
  Aggregates <- Sums
  Rankings <- Ranks
  Numbers <- Figures
  Quotes <- Strings
  Dollars <- Bodies
  Stray = "?"
  Families <- AllFamilies
INVARIANT TextsAreExact StoredTextsReparse PredicatesMeanTheirText EveryRoundAdvances
CHECK_DEADLOCK FALSE
