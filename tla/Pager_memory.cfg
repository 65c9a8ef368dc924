SPECIFICATION SpecPool
CONSTANTS
  Proc = {p1, p2}
  Page = {g1, g2}
  Stray = {x1}
  NumFrames = 1
  Val = {v1, v2}
  SwapPool = SwapPool
  FREE = FREE
  Invalid = Invalid
  Absent = Absent
  FlashErrors = TRUE
INVARIANTS
  TablesAgree
PROPERTIES
  ImplementsMemory
SYMMETRY Symmetric
CHECK_DEADLOCK FALSE
