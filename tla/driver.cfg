SPECIFICATION FairSpec
CONSTANTS
  Fns <- MCCalls
  Lengths = {512, 1024}
  Blocklens = {512, 1024}
  Default = 512
  WRITE = 3
  READ = 4
  SETTLE = 3
INVARIANTS
  TypeOK
  DoneFresh
  BlockLenInForce
PROPERTIES
  EngineUsed
  OwnDone
  NoErrorMissed
  NoErrorInherited
  ErrorsKept
  ResponseOwn
  CallsReturn
