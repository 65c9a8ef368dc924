SPECIFICATION FairSpec
CONSTANTS
  Proc = {p1, p2}
  Page = {g1}
  Stray = {}
  NumFrames = 1
  Val = {v1}
  SwapPool = SwapPool
  FREE = FREE
  Invalid = Invalid
  Absent = Absent
  FlashErrors = TRUE
PROPERTIES
  PoolReleased
CHECK_DEADLOCK FALSE
