CONSTANTS
  Radix = 4
  DW = 2
  MaxNodes = 30
  check_alias_pair <- gt_verify_alias
  Traces <- SkewedTraces
SPECIFICATION Spec
INVARIANTS
  Sound
  TruthRight
  TaintReal
