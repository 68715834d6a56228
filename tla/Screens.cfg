SPECIFICATION ScreensSpec
CONSTANTS
  NUM_TERMS = 3
  Versions = {v1, v2}
  ScreenWindows = {}
INVARIANTS
  ScreensInv
  OwnScreen
PROPERTIES
  ImplementsVirtualScreens
