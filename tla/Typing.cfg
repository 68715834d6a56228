SPECIFICATION TypingSpec
CONSTANTS
  NUM_ROWS = 3
  NUM_COLS = 2
  Printed = {" ", "a"}
  KEY_BUF_SIZE = 3
  TAB_SPACE = 2
  MAX_PICTURES = 1
CONSTRAINT FewPictures
INVARIANTS
  ConsoleInv
  EchoIsBuffer
  PromptKept
PROPERTIES
  ImplementsScrollingText
