CONSTANTS
  nblocks = 2
  nlayers = 2
  nspec = 2
  ncolumns = 2
  Cooldown = 3
  Dt = {1, 2}
  MaxStep = 1
  NGHOST = 2
  Number <- MCNumber
  Zero = 0
  Plus <- MCPlus
  Minus <- MCMinus
  Times <- MCTimes
  Over <- MCOver
  Disort <- MCDisort
  wght <- MCWght
  farea <- MCFarea
  vol <- MCVol
  dx1f <- MCDx1f
SPECIFICATION Spec
INVARIANT ColumnsWhole
