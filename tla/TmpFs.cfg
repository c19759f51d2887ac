CONSTANTS
  MaxNodes = 4
  Names = {"dev", "null", "x"}
  Walks <- SmallWalks
  PathMax = 8
  CwdMax = 5
  Dirs <- SmallDirs
  CwdNodes = 3
SPECIFICATION CwdSpec
INVARIANTS ListsExact CwdHolds
PROPERTIES CreatedIsFound ImplementsTree
