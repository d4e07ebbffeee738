CONSTANTS
  P = 4
  MaxSolve = 4
  NColumn = 2
  Rank = {1, 2, 3, 4}
SPECIFICATION FairSpec
PROPERTY Ends
CHECK_DEADLOCK FALSE
