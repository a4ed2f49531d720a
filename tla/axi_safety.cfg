SPECIFICATION AxiFair
CONSTANTS
  Data <- MCData
  SIZE = 16
  MAX_BURST = 8
  MIN_BLOCK = 4
  BIG_BLOCKS = TRUE
  BLOCK_WORDS = {4, 8}
  NUM_BLOCKS = {1, 3}
  DIRS = {"read", "write"}
  SETTLE = 3
  GAP = 4
  PATIENT = TRUE
  ABANDONS = TRUE
INVARIANTS
  AxiTypeOK
  FifoCounted
  WordsInOrder
  BurstShape
  BurstInBuffer
  StoredWhenDone
PROPERTIES
  RequestEnds
