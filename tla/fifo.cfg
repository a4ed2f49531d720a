SPECIFICATION FifoFair
CONSTANTS
  Data = {d1, d2, d3}
  SIZE = 4
INVARIANTS
  FifoInv
PROPERTIES
  IsQueue
  Visible
