SPECIFICATION CallsSpec
CONSTANTS
  MaxPayloads = 9
  Garbled = {2}
  Unencodable = {1}
  ChanCap = 1
  RecvCap = 1
  WireCap = 1
INVARIANTS TypeOK ArrivesInOrder ResponsesComplete ResponseIsOfAll NilHasACause
PROPERTIES GoroutinesEnd
CHECK_DEADLOCK FALSE
