SPECIFICATION FishSpec
CONSTANTS
  MAX_STR_LENGTH = 2
  BLOCK_SIZE = 2
  Letters = {".", "a", "b"}
  Directory <- MCDirectory
  Inodes <- MCInodes
  MaxOffset = 3
  MaxLength = 8
  Disks <- MCDisks
  Types <- MCTypes
  EntryInodes <- MCEntryInodes
  ELF <- MCELF
  EXIT <- MCEXIT
  KEY_BUF_SIZE = 5
  FILE_STR_LEN = 5
  CMD_LINE_LEN = 5
  NUM_MAX_FILES = 5
  ShellBuf = 6
  CatBuf = 3
  SBUFSIZE = 3
  GrepBuf = 3
  Maxima <- MCMaxima
  RADIX = 3
  RtcName <- MCRtcName
  Frames <- MCFrames
  Width = 8
  Offset = 3
  FrameLength = 2
  Scripts <- MCScripts
  WAIT = 5
  NumCells = 24
  NumSlots = 7
CONSTRAINT OneDiskForOwn
INVARIANTS
  LookupExact
  ReadsTheFile
  StoresInside
  RunsWhatWasTyped
  PrintsRight
  GrepFinds
  ListSound
  BlinksInTime
  ShowsPicture
PROPERTIES
  CommandEnds
