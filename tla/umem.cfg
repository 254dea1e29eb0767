CONSTANT MaxLen = 8
SPECIFICATION Spec
INVARIANTS
  TypeOK
  NothingSkipped
CHECK_DEADLOCK FALSE
