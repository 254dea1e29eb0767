CONSTANTS
  Radix = 4
  DW = 2
  MaxNodes = 30
  check_alias_pair <- ht_verify_alias
  Traces <- HighByteTraces
SPECIFICATION Spec
INVARIANT NoContradiction
