CONSTANTS
  P = 2
  MaxSolve = 4
  NColumn = 2
  Rank = {1}
  RankOf <- MCSameRank
  Tag <- MCSameTag
SPECIFICATION Spec
INVARIANT SolutionsRight
