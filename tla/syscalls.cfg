CONSTANT Calls <- MCCalls
SPECIFICATION Spec
INVARIANTS TypeOK WritesCovered Consistent
PROPERTIES NothingDropped Unblocked
CHECK_DEADLOCK FALSE
