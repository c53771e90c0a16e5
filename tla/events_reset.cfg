SPECIFICATION Spec
CONSTANTS
  Token = {t1}
  NoToken = NoToken
  DefaultUrl = "sink"
  DefaultToken = t1
  MaxAttempts = 1
  Script = {}
  None = None
  MaxEvents = 1
  MaxResets = 1
INVARIANTS
  NoOldEventAfterReset
CHECK_DEADLOCK FALSE
