SPECIFICATION Spec
INVARIANTS DrainedBeforeReport FailureHasItsCause
PROPERTIES HostGoneStops StreamFailureStops
CHECK_DEADLOCK FALSE
