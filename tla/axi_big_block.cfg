SPECIFICATION AxiFair
CONSTANTS
  Data <- MCData
  SIZE = 32
  MAX_BURST = 8
  MIN_BLOCK = 4
  BIG_BLOCKS = TRUE
  BLOCK_WORDS = {16}
  NUM_BLOCKS = {1}
  DIRS = {"read"}
  SETTLE = 3
  GAP = 4
  PATIENT = TRUE
  ABANDONS = FALSE
PROPERTIES
  RequestEnds
