SPECIFICATION Spec
CONSTANTS
  Proc = {p1, p2, p3}
  UserSem = {s1}
  NearSem = {}
  NumDev = 1
  NumTerm = 1
  Clock = Clock
  NULL = NULL
  NumSemd = 3
  MaskedIO = TRUE
  BadLine = TRUE
  TermErrors = TRUE
  MaxSem = 3
  MaxSoft = 4
SYMMETRY Symmetric
INVARIANTS
  TypeOK
  PcbPartition
  HaltsWhenDone
  SemAddAgrees
  UserSemCounts
  SoftSemOwed
  NoFalsePanic
  WorkConserving
  TreeSound
  WaiterServed
PROPERTIES
  Fifo
