SPECIFICATION FairSpec
CONSTANTS
  NUM_TERMS = 3
  MAX_PID = 6
  Statuses = {0, 7}
  Windows = {}
INVARIANTS
  ProcessTable
  BaseShells
  RunsOnOwnStack
PROPERTIES
  EveryTerminalRuns
  ImplementsSessions
