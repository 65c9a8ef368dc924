SPECIFICATION Spec
CONSTANTS
  Proc = {p1, p2}
  Page = {g1}
  Stray = {g9}
  NumFrames = 2
  Val = {v1}
  SwapPool = SwapPool
  FREE = FREE
  Invalid = Invalid
  Absent = Absent
  FlashErrors = FALSE
INVARIANTS
  FramesFreed
PROPERTIES
  RefillMatches
