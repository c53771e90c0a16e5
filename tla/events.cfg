SPECIFICATION FairSpec
CONSTANTS
  Token = {t1}
  NoToken = NoToken
  DefaultUrl = "none"
  DefaultToken = NoToken
  MaxAttempts = 2
  Script = {"scripted", "error"}
  None = None
  MaxEvents = 2
  MaxResets = 1
INVARIANTS
  TypeOK
  AnswerHasItsEvent
  DeliveredWasReceived
PROPERTIES
  FinalStaysFinal
  EventsSettle
  ResetReturnsInTheEnd
CHECK_DEADLOCK FALSE
