CONSTANTS
  Files = {"main", "sub", "leaf"}
  Trees <- SmallTrees
  Main = "main"
  Paths = {"a", "b", "gone"}
  Missing = {"gone"}
  Commits = {"c1", "c2", "c3"}
  TagOf <- Tags
  MaxDepth = 4
  MaxMoves = 1
SPECIFICATION Spec
INVARIANTS TypeOK Flattened RevisionsAreHeads CommentsTellTags
CHECK_DEADLOCK FALSE
