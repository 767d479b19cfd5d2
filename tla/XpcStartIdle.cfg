SPECIFICATION Spec
CONSTANTS
  Clients = {c1, c2}
  NoClient = NoClient
  MaxRuns = 2
  MaxTerminations = 0
INVARIANT StartOnlyWhenIdle
CHECK_DEADLOCK FALSE
