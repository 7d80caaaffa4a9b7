CONSTANTS
  Context = {c1, c2}
  MaxCalls = 2
  short = short
  long = long
  huge = huge
  Path = {short, long, huge}
  Worker = {1, 2}
  PathSize <- SizeOfPath
  MaxCacheSize = 3
  MaxTexture = 4
  PathCalls <- MixedCalls
  MaxPathCalls = 4
  Width = 3
  Frames <- FramesDrawn
SPECIFICATION HwuiSpec
INVARIANT NoTaskSleptOver
INVARIANT DispatchQueuedOnce
INVARIANT AnimationsKeepGoing
INVARIANT NoDanglingContext
INVARIANT DestroyIsFence
INVARIANT SizeIsAccurate
INVARIANT PaintsInOrder
PROPERTY UiCallsReturn
PROPERTY CallbacksRun
PROPERTY RenderCallsReturn
CHECK_DEADLOCK FALSE
