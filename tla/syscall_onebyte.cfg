CONSTANT Calls <- OneByte
SPECIFICATION Spec
PROPERTY ResolvedOnce
CHECK_DEADLOCK FALSE
