SPECIFICATION FilesSpec
CONSTANTS
  Procs = {p1, p2}
  NUM_MAX_FILES = 4
  FileLengths <- MCFileLengths
  NumEntries = 3
  Counts <- MCCounts
  Freqs = {1, 512, 2048}
  WORD = 4
INVARIANTS
  FilesInv
  PositionInFile
  ListsInOrder
  RtcAtWantedRate
SYMMETRY MCProcSymmetry
