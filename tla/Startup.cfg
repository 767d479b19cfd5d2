SPECIFICATION StartSpec
CONSTANTS
  BlankNames <- MCBlankNames
  Containing <- MCContaining
  SameLetters <- MCSameLetters
  RingBits = 30
  Hosts = {"terminal", "headless", "service"}
  Launches <- MCLaunches
  Messages <- MCMessages
  Hardware <- MCHardware
INVARIANTS
  ResolvedIsValid
  SettingsLayered
  AcceptsWhatItLists
  RunningIsSound
