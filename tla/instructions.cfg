CONSTANTS
  Radix = 4
  DW = 4
  Instances <- MCInstances
SPECIFICATION Spec
INVARIANTS TypeOK Sound NeverAborts Settled Covered Addressed Computed
PROPERTIES Keeps
CHECK_DEADLOCK FALSE
