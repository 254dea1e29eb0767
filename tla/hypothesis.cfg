SPECIFICATION FairSpec
CONSTANT N = 2
INVARIANTS
  TypeOK
  WellLinked
  NothingLeft
PROPERTIES
  Isolated
  ImplementsAtomicQuery
  TestEnds
