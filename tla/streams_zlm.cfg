SPECIFICATION FairSpec
CONSTANTS
  Key = {k1, k2}
  Channel = {c1}
  Kind = {"live", "playback"}
  IdemKey = {i1}
  Zlm = TRUE
  ZlmFaults = TRUE
  Lossy = FALSE
  Resets = FALSE
  NoKey = NoKey
  NoRequest = NoRequest
  NoEntry = NoEntry
INVARIANTS
  StreamingIsServed
CHECK_DEADLOCK FALSE
PROPERTIES
  TornDownCallEnds
  StartingConverges
