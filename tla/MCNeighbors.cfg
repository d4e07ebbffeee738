CONSTANTS
  B = 2
  Rank = {0, 1, 2}
  RankOf <- MCRankOf
SPECIFICATION SearchSpec
INVARIANTS TypeOK Reciprocal NoBufferClash SameEdge
