SPECIFICATION InputFairSpec
CONSTANTS
  NUM_TERMS = 2
  KEY_BUF_SIZE = 3
  TAB_SPACE = 2
  ReadSizes = {4}
  InputWindows = {"hidden"}
PROPERTIES
  NoStuckReader
