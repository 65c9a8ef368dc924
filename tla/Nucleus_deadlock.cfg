SPECIFICATION Spec
CONSTANTS
  Proc = {p1, p2, p3}
  UserSem = {s1}
  NearSem = {}
  NumDev = 1
  NumTerm = 0
  Clock = Clock
  NULL = NULL
  NumSemd = 3
  MaskedIO = TRUE
  BadLine = FALSE
  TermErrors = FALSE
  MaxSem = 2
  MaxSoft = 3
SYMMETRY Symmetric
INVARIANTS
  WaitsOnlyForIO
