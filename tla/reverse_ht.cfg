CONSTANTS
  Radix = 4
  DW = 2
  MaxNodes = 30
  check_alias_pair <- ht_verify_alias
  Traces <- AlignedTraces
SPECIFICATION FairSpec
INVARIANTS
  TypeOK
  ListsReady
  Sound
  NoContradiction
  UmemReady
  VerdictsRight
  Drains
  Settled
PROPERTIES
  NothingForgotten
  ImplementsUnknownWrites
  Terminates
