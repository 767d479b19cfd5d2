SPECIFICATION Spec
CONSTANTS
  Clients = {c1, c2}
  NoClient = NoClient
  MaxRuns = 2
  MaxTerminations = 1
INVARIANTS
  TransactionCoversRun
  MonitorTakesOwnRun
  EventsReachStarter
PROPERTIES
  ImplementsOwner
  HandlerFinishes
  FailedEngineDrains
CHECK_DEADLOCK FALSE
