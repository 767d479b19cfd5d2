SPECIFICATION Spec
CONSTANTS
  LastBand = 1
  Cleared = 0
  channels = 2
  Chunks <- MCChunks
  MaxFrames = 2
  MaxEvents = 2
INVARIANTS
  DatagramIsOneFrame
  BandRecovers
  BangsNotRepeated
PROPERTIES
  LatestReachesReceiver
