CONSTANTS
  Value = {v1, v2}
  NoValue = NoValue
  Node = {n1, n2, n3, n4}
  NULL = NULL
  MaxIndex = 5
SPECIFICATION Spec
SYMMETRY Nodes
INVARIANT Intact
PROPERTY ImplementsList
