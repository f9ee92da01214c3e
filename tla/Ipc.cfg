SPECIFICATION FairSpec
CONSTANTS
  Calls = {1, 2, 3}
  NoCall = 0
  Failed = 99
  IdMod = 2
  ChannelCap = 1
  RawCap = 1
  MaxStreamFrames = 1
INVARIANTS TypeOK OwnAnswer AnswerComes NothingLeftBehind
PROPERTIES CallsReturn
CHECK_DEADLOCK FALSE
