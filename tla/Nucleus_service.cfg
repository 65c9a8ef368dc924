SPECIFICATION Spec
CONSTANTS
  Proc = {p1, p2, p3}
  UserSem = {s1, s2}
  NearSem = {}
  NumDev = 1
  NumTerm = 0
  Clock = Clock
  NULL = NULL
  NumSemd = 3
  MaskedIO = FALSE
  BadLine = FALSE
  TermErrors = FALSE
  MaxSem = 3
  MaxSoft = 3
SYMMETRY Symmetric
PROPERTIES
  ImplementsService
