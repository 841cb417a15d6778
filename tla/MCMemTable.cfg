SPECIFICATION Spec
CONSTANTS
  None = None
  Key = {k1, k2}
  NumWriteBuffers = 3
  WriteBufferSize = 24
  KeyLen = 1
  ValueLens = {2, 15}
  MaxEpoch = 2
  MaxWrites = 4
INVARIANTS
  NeverStale
  KeptUntilCleared
