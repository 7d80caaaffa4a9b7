CONSTANTS
  Context = {c1}
  MaxCalls = 0
  short = short
  long = long
  huge = huge
  Path = {short}
  Worker = {1}
  PathSize <- SizeBeyondCache
  MaxCacheSize = 3
  MaxTexture = 4
  PathCalls <- GetAfterPrecache
  MaxPathCalls = 2
  Width = 3
  Frames <- NothingDrawn
SPECIFICATION HwuiSpec
INVARIANT CachedTexturesAlive
CHECK_DEADLOCK FALSE
