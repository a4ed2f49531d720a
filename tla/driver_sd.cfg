SPECIFICATION Spec
CONSTANTS
  Fns <- MCSdCard
  Lengths = {512}
  Blocklens = {512, 1024}
  Default = 512
  WRITE = 3
  READ = 4
  SETTLE = 3
PROPERTIES
  ResponseOwn
