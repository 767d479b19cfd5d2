SPECIFICATION Spec
CONSTANTS
  MIDI_CLOCK_TICKS_PER_STEP = 2
  WordBits = 1
  MaxBytes = 4
INVARIANTS StepsCountTicks StartHasItsSteps NoEventLost FrameFieldsAgree
