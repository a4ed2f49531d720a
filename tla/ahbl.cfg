SPECIFICATION AhblSpec
CONSTANTS
  Data <- MCData
  SIZE = 8
  MAX_BURST = 8
  BLOCK_WORDS = {2, 4}
  NUM_BLOCKS = {1, 2, 3}
  SETTLE = 3
  GAP = 4
INVARIANTS
  AhblInv
  WordsDelivered
