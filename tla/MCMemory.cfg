CONSTANTS
  CTR_ROW = 2
  CTR_COL = 2
  VgaSize = 8
  Byte <- MCByte
  LineSize = 2
  Groups = 2
  Ways = 2
  TlbSize = 2
  PageSize = 4
  Frames = 4
  UserPages = {10}
  VideoPage = 1
  KOffset = 1000
  Lengths = {1, 2}
  Builds <- MCBuilds
SPECIFICATION FairSpec
INVARIANTS CacheCoherent OneWayPerLine TlbCurrent LoadsAreRight ScreenCurrent
PROPERTIES ShownEventually
CHECK_DEADLOCK FALSE
