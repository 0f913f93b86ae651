SPECIFICATION SelectSpec
CONSTANTS
  Null = null
  NoNumber = nan
  NilText = 5
  Computed = 6
  Cells <- AllCells
  LeftCols <- KV
  RightCols <- KW
  LeftRows <- Lefts
  RightRows <- Rights
  Conditions <- Comparisons
  Groupings <- ByKey
  Windows <- Calls
  Orders <- Sorts
  SelectLists <- Lists
  MaxInput = 3
  MaxRows = 3
  MaxPage = 2
CHECK_DEADLOCK FALSE
INVARIANTS
  JoinsCount
  LookupsMatchScans
  WindowsAgree
  SortsStably
  GroupsPartition
