SPECIFICATION Spec
CONSTANTS
  Readers = {r1}
  Words = {w1, w2}
  FloatWords = {w1, w2}
  Values = {0, 1, 2}
  NonFinite = {2}
  Zero = 0
  READ_ATTEMPTS = 3
  MaxPublish = 2
INVARIANTS
  SeqlockInv
  NoTornFrame
  NoNonFiniteServed
PROPERTY
  ImplementsRegister
