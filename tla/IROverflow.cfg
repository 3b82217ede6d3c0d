CONSTANTS
  RAWBUF = 4
  Yields = TRUE
SPECIFICATION Spec
INVARIANT WithinBuffer
