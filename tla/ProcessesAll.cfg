SPECIFICATION Spec
CONSTANTS
  NUM_TERMS = 3
  MAX_PID = 4
  Statuses = {0}
  Windows = {"boot", "init", "halt"}
INVARIANTS
  TypeOK
  MappedProcess
