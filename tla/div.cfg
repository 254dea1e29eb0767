CONSTANTS
  Radix = 4
  DW = 4
  Instances <- Quotients
SPECIFICATION Spec
INVARIANT DividendOrder
CHECK_DEADLOCK FALSE
