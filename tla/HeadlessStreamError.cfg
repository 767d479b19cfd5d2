SPECIFICATION Spec
INVARIANT StreamErrorExitsNonZero
CHECK_DEADLOCK FALSE
