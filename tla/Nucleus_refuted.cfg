SPECIFICATION Spec
CONSTANTS
  Proc = {p1, p2, p3}
  UserSem = {s1}
  NearSem = {s1}
  NumDev = 1
  NumTerm = 1
  Clock = Clock
  NULL = NULL
  NumSemd = 3
  MaskedIO = FALSE
  BadLine = FALSE
  TermErrors = TRUE
  MaxSem = 2
  MaxSoft = 3
SYMMETRY Symmetric
INVARIANTS
  SoftBlockExact
  UserSemCounts
PROPERTIES
  InterruptAcknowledged
