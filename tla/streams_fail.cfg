SPECIFICATION Spec
CONSTANTS
  Key = {k1, k2}
  Channel = {c1}
  Kind = {"live"}
  IdemKey = {i1}
  Zlm = TRUE
  ZlmFaults = FALSE
  Lossy = FALSE
  Resets = FALSE
  NoKey = NoKey
  NoRequest = NoRequest
  NoEntry = NoEntry
INVARIANTS
  NoAbandonedSession
CHECK_DEADLOCK FALSE
