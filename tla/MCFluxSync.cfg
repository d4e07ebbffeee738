CONSTANTS
  B = 1
  N = 2
  MaxStage = 3
  Rank = {0, 1, 2, 3, 4, 5}
  Gid = {0, 1, 2, 3, 4, 5}
  LocOf <- MCLocOf
  RankOf <- MCOneBlockPerRank
SPECIFICATION FairSpec
INVARIANTS TypeOK FaceStatesAgree StageSkew
PROPERTIES BufferHeld Completes
CHECK_DEADLOCK FALSE
