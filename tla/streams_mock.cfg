SPECIFICATION Spec
CONSTANTS
  Key = {k1, k2}
  Channel = {c1}
  Kind = {"live", "playback"}
  IdemKey = {i1, i2}
  Zlm = FALSE
  ZlmFaults = FALSE
  Lossy = FALSE
  Resets = TRUE
  NoKey = NoKey
  NoRequest = NoRequest
  NoEntry = NoEntry
SYMMETRY KeySymmetry
INVARIANTS
  TypeOK
  NoAbandonedSession
PROPERTIES
  ImplementsContract
CHECK_DEADLOCK FALSE
