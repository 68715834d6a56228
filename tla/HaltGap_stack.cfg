SPECIFICATION Spec
CONSTANTS
  NUM_TERMS = 3
  MAX_PID = 5
  Statuses = {0}
  Windows = {"halt"}
INVARIANTS
  RunsOnOwnStack
