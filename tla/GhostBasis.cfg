CONSTANTS
  B = 2
  N = 4
  NGHOST = 2
SPECIFICATION Spec
INVARIANT BasisAtGhost
