CONSTANTS
  Limit = 20
  Gaps = {50, 51, 63, 64, 95, 500, 5000}
  Value = {v1, v2}
  SIZE = 3
  RingChunk = 4
  N = 3
  MaxChunk = 2
SPECIFICATION MCSpec
INVARIANT Types
PROPERTIES RingIsQueue ThreadsAreQueue NonBlockingReturns NeverCut
