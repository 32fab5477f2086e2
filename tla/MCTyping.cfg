SPECIFICATION FairSpec
CONSTANTS
  Keys = {a}
  NoKey = none
  CREATE_PERIOD = 2
  Bottom = 3
  Rise = 2
  MaxNest = 3
  MaxBehind = 2
INVARIANT
  PoolBound
PROPERTIES
  TicksCounted
  CatchesUp
  StrokeHits
