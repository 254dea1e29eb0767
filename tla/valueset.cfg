CONSTANTS
  Bits = 6
  Instructions <- MCInstructions
  Unknowns <- MCUnknowns
  MaxSteps = 4
  Disciplined = TRUE
SPECIFICATION Spec
INVARIANTS TypeOK Sound NoAliasRight LastWrite
CHECK_DEADLOCK FALSE
