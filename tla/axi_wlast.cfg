SPECIFICATION AxiSpec
CONSTANTS
  Data <- MCData
  SIZE = 16
  MAX_BURST = 8
  MIN_BLOCK = 4
  BIG_BLOCKS = FALSE
  BLOCK_WORDS = {4, 8}
  NUM_BLOCKS = {1, 3}
  DIRS = {"read"}
  SETTLE = 3
  GAP = 4
  PATIENT = FALSE
  ABANDONS = FALSE
INVARIANTS
  BurstShape
