SPECIFICATION FairSpec
CONSTANTS
  Srcs = {1}
  MODES = {{"M", "S"}}
  Tasks = {g_ctx, t1}
  Main = g_ctx
  Regs = {"r1", "r2"}
  PCS = 2
  MAX_NEST = 2
INVARIANTS
  HartInv
PROPERTIES
  TaskKept
  Settles
