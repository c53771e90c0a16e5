SPECIFICATION OneDeviceSpec
CONSTANTS
  Devices = {d1}
  Tasks = {t1}
  Maintenance = maint
  Expires = 5
  Margin = 1
  Timeout = 1
  NonceTTL = 1
  MaxTries = 2
  Interval = 1
  KeepTimeout = 3
  ReplyWait = 3
  Injectors = {i1}
  Disturbances = 4
  Calls = {c1}
  Troubles = 4
  FrameSizes = {1, 2, 4, 7}
  FixtureFrames = 2
  Mtus = {2, 3}
  AudioSizes = {0, 3, 4, 5}
  AudioStep = 3
  ClockStep = 5
  SeqRange = 8
  StampRange = 128
  SizeRange = 19
  Octet = 4
  Septet = 2
INVARIANTS
  DeviceTypeOK
  LastEventTells
  DropsAreTolerated
  MediaHasSession
  ClosedIsOver
  WaitingHasACause
  FrameIsWhole
  PtsReadsBack
PROPERTIES
  FlowsEnd
  StatusConverges
  ByeEndsSession
  StreamGoesOn
CHECK_DEADLOCK FALSE
