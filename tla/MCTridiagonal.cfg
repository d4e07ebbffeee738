CONSTANTS
  P = 5
  MaxSolve = 8
  NColumn = 2
  Rank = {1, 2, 3, 4, 5}
  RankOf <- MCOneBlockPerRank
  Tag <- MCSameTag
  N = 2
  q = 997
  System <- MCSystem
SPECIFICATION ValueSpec
INVARIANTS TypeOK SolutionsRight OneMessage SolvesSystem
PROPERTIES BufferStable ImplementsSerial Completes
