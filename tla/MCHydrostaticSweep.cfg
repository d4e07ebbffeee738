CONSTANTS
  NColumn = 2
  NLayer = 3
  N = 3
  NGHOST = 2
  Rank = {0, 1, 2, 3, 4, 5}
  Gid <- MCGid
  Setups <- MCSetups
  Density <- MCDensity
  Extrapolated <- MCExtrapolated
  MaxStage = 3
SPECIFICATION FairSpec
INVARIANTS TypeOK PressureIsIntegral InterfaceStatesAgree RestoredWhole
PROPERTIES Completes
CHECK_DEADLOCK FALSE
