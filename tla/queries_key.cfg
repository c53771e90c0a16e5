SPECIFICATION Spec
CONSTANTS
  Op = {o1, o2}
  IdemKey = {k1, k2}
  c1 = c1
  c2 = c2
  Catalog <- TwoChannels
  Shown <- BothOrFirst
  Seeded <- NoneKnown
  Window <- TwoWindows
  Hour = 2
  Kind = {"record"}
  MaxResets = 0
  NoOp = NoOp
  NoRequest = NoRequest
  NoEntry = NoEntry
INVARIANTS
  RecordKeysBindIntervals
CHECK_DEADLOCK FALSE
