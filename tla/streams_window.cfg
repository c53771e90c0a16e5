SPECIFICATION FairSpec
CONSTANTS
  Key = {k1, k2}
  Channel = {c1}
  Kind = {"live"}
  IdemKey = {i1}
  Zlm = TRUE
  ZlmFaults = FALSE
  Lossy = FALSE
  Resets = TRUE
  NoKey = NoKey
  NoRequest = NoRequest
  NoEntry = NoEntry
PROPERTIES
  StartingConverges
CHECK_DEADLOCK FALSE
