CONSTANTS
  Byte = {b1, b2}
  BuffSize = 3
  KeepsUp = FALSE
SPECIFICATION Spec
PROPERTY OverflowKeepsStored
