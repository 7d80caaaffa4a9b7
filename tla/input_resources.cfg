CONSTANTS
  Sprite = {s1, s2}
  Attribute = {"position"}
  MaxChanges = 5
  MaxFaults = 1
  MAX_POINTER_ID = 3
  SpotSprite = {1, 2, 3}
  MAX_SPOTS = 2
  MAX_RECYCLED_SPRITES = 1
  Viewport <- Displays
  Place = {0, 1, 6}
  CallBudget <- MixedCalls
  ValuesOf <- Values
  Focus <- FewCandidates
  File <- Files
  MaxParams = 2
SPECIFICATION NativeSpec
INVARIANT NoLostUpdate
INVARIANT SurfacesRecorded
INVARIANT CleanIsShown
INVARIANT PointerOnScreen
INVARIANT NoGhostSpots
INVARIANT BestConfigWins
INVARIANT OverlaysByName
INVARIANT ReferencesReachTheirPackage
INVARIANT BagsInherit
PROPERTY SpritesShown
PROPERTY FadesAway
CHECK_DEADLOCK FALSE
