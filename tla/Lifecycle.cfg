SPECIFICATION Spec
CONSTANTS
  Sources = {"hardware", "calibration"}
  MidiKinds = {"none", "clock", "device"}
  OutputLists <- SafetyOutputs
  MaxHung = 0
INVARIANTS NothingLeftBehind NoEarlyExit CaptureDrained
CHECK_DEADLOCK FALSE
