SPECIFICATION Spec
CONSTANTS
  MaxUProcs = 3
  PoolSize = 4
  MaxSupports = 4
INVARIANTS
  PoolNotOverflowed
  SupportUnique
  NullWhenEmpty
CHECK_DEADLOCK FALSE
