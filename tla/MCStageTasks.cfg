CONSTANTS
  Setup <- Setups
  nstages = 2
  MaxStage = 3
SPECIFICATION FairSpec
CHECK_DEADLOCK FALSE
INVARIANTS TypeOK SentWhole PrimitivesOfStage MessagesBounded
PROPERTY Completes
