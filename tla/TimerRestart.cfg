CONSTANTS
  Modulus = 16
  Last = 16
  Interval = {1, 3}
SPECIFICATION Spec
INVARIANT RestartIsReal
