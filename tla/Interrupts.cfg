SPECIFICATION InterruptsSpec
CONSTANTS
  NUM_TERMS = 2
  KeyBurst = 1
INVARIANTS
  InterruptsInv
  TickUndisturbed
PROPERTIES
  EveryIrqServed
