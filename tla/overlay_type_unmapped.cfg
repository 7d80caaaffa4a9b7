CONSTANTS
  Sprite = {s1, s2}
  Attribute = {"position"}
  MaxChanges = 0
  MaxFaults = 0
  MAX_POINTER_ID = 3
  SpotSprite = {1, 2, 3}
  MAX_SPOTS = 2
  MAX_RECYCLED_SPRITES = 1
  Viewport <- Displays
  Place = {0, 1, 6}
  CallBudget <- OnlyNoCalls
  ValuesOf <- Values
  Focus <- OnlyNothing
  File <- OverlaidFiles
  MaxParams = 2
SPECIFICATION NativeSpec
INVARIANT OverlaysByName
CHECK_DEADLOCK FALSE
