SPECIFICATION Spec
CONSTANTS
  Clients = {c1, c2, c3}
  NoClient = NoClient
  max_clients = 2
  Rejected = {2}
  MaxFrames = 3
INVARIANTS
  SlotsConserved
PROPERTIES
  ImplementsLatestValue
  AdmissionEnds
  ServerStops
  LatestReachesClients
CHECK_DEADLOCK FALSE
