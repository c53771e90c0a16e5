SPECIFICATION Spec
CONSTANTS
  Key = {k1, k2}
  Channel = {c1}
  Kind = {"live", "playback"}
  IdemKey = {i1, i2}
  Zlm = TRUE
  ZlmFaults = TRUE
  Lossy = TRUE
  Resets = TRUE
  NoKey = NoKey
  NoRequest = NoRequest
  NoEntry = NoEntry
SYMMETRY KeySymmetry
INVARIANTS
  ActiveLiveIndexed
  RetryFindsItsStream
PROPERTIES
  ImplementsContract
CHECK_DEADLOCK FALSE
