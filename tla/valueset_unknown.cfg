CONSTANTS
  Bits = 6
  Instructions <- UnknownWrite
  Unknowns <- PointerToStack
  MaxSteps = 4
  Disciplined = FALSE
SPECIFICATION Spec
INVARIANT CorrectnessCheck
CHECK_DEADLOCK FALSE
