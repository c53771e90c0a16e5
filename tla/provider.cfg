SPECIFICATION ProviderSpec
CONSTANTS
  Devices = {d1, d2}
  Tasks = {t1}
  Maintenance = maint
  Expires = 11
  Margin = 4
  Timeout = 1
  NonceTTL = 1
  MaxTries = 2
  Inventory = {d1, d2}
  Tokens = {k1}
  Injectors = {i1}
  MaxSeq = 1
  Streams = {s1, s2, s3}
  Low = 1
  High = 4
SYMMETRY ProviderSymmetry
INVARIANTS
  ProviderTypeOK
  LoneFlowAgrees
  RefreshedInTime
  BusyHasFlow
  TokenMeansUnchanged
  PortsAreDistinct
