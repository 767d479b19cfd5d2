SPECIFICATION Spec
CONSTANTS
  Sources = {"hardware"}
  MidiKinds = {"device"}
  OutputLists <- LiveOutputs
  MaxHung = 1
PROPERTIES WorkersStop ShutdownReturns
CHECK_DEADLOCK FALSE
