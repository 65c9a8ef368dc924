SPECIFICATION CallsFairSpec
CONSTANTS
  Proc = {1, 2, 3}
  Device <- Flash1
  Request = {"put", "get"}
  Block = {0}
  MaxCyl = 1
  MaxHead = 1
  MaxSect = 1
  MaxBlock = 1
  Val = {v1}
  None = None
  NumFrames = 1
  Failures = FALSE
  Deaths = TRUE
  Length <- Lengths
  MaxLength = 2
  Char = {"a", "b"}
  Junk <- Junks
  Room = 3
INVARIANTS
  Exclusive
  StopIsNegative
  CountSent
  LengthChecked
PROPERTIES
  FlashReleased
CHECK_DEADLOCK FALSE
