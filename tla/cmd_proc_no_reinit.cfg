SPECIFICATION Spec
CONSTANTS
  Ops <- MCReads
  BlockWords = 4
  MIN_BLOCK = 4
  MAX_BLOCK = 4
  BlkMod = 4
  PRESCALE = 4
  TMR_MOD = 3
  CmdTimeout = 0
  DatTimeout = 1
  HostGap = 4
  HostReinits = FALSE
  ShortBlocks = FALSE
PROPERTIES
  AllDataMoved
