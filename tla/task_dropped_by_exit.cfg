CONSTANTS
  Context = {c1}
  MaxCalls = 0
  short = short
  long = long
  huge = huge
  Path = {short}
  Worker = {1}
  PathSize <- SizeOfPath
  MaxCacheSize = 3
  MaxTexture = 4
  PathCalls <- FlushAfterPrecache
  MaxPathCalls = 2
  Width = 3
  Frames <- NothingDrawn
SPECIFICATION HwuiSpec
PROPERTY RenderCallsReturn
CHECK_DEADLOCK FALSE
