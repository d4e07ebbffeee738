CONSTANTS
  Shapes <- MCShapes
  Mesh <- MCMesh
  Request <- MCRequest
  MaxRegroup = 2
SPECIFICATION Spec
INVARIANTS TypeOK GroupsConnected ColorsAssigned GatheredInOrder
