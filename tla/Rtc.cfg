SPECIFICATION RtcSpec
CONSTANTS
  NUM_TERMS = 2
  MAX_VIR_FREQ = 8
  MIN_VIR_FREQ = 2
  Freqs = {1, 3, 4, 9}
  HALF_RANGE = 4
INVARIANTS
  RtcInv
PROPERTIES
  ReadsReturn
