SPECIFICATION KeysSpec
CONSTANTS
  MaxHeld = 4
INVARIANTS
  KeysInv
  CaseFollowsKeys
