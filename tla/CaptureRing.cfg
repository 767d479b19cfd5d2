SPECIFICATION Spec
CONSTANTS
  Producers = {"all", "selected", "generator"}
  Hw = 5
  Selected <- MCSelected
  Capacity = 8
  ChunkFrames = 2
  MaxDelivery = 2
  MaxFrames = 4
INVARIANTS ChannelAligned NothingLost DrainedAtExit
PROPERTIES DrainEnds
CHECK_DEADLOCK FALSE
