SPECIFICATION FairSpec
CONSTANTS
  Op = {o1, o2}
  IdemKey = {k1, k2}
  c1 = c1
  c2 = c2
  Catalog <- TwoChannels
  Shown <- BothOrFirst
  Seeded <- NoneKnown
  Window <- LongWindow
  Hour = 2
  Kind = {"catalog", "record"}
  MaxResets = 1
  NoOp = NoOp
  NoRequest = NoRequest
  NoEntry = NoEntry
INVARIANTS
  TypeOK
  LoneQueryIsRegistered
  ResultIsHonest
  RetriesFindOperations
  StuckOnlyByReset
PROPERTIES
  ImplementsOperations
  QueriesEnd
CHECK_DEADLOCK FALSE
