SPECIFICATION FairSpec
CONSTANTS
  Byte = {1, 2}
  DEPTH = 2
  WAITING = 1
  SIZE = 2
  SYS_CLK = 50000000
  Rates = {0, 9600, 115200}
  Frames <- MCFrames
INVARIANTS
  UartInv
  LineAgrees
PROPERTIES
  RxIsQueue
  TxIsQueue
  PutcReturns
  TxDrains
