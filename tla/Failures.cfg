SPECIFICATION Spec
CONSTANTS
  Openers = {"host"}
  Handlers = {"plugin"}
  Closers = {"host"}
  Blocking = {}
  Routes = {TRUE}
  MaxStreams = 1
  MaxSends <- HostTwo
  MaxRaw <- None
  MaxCloses <- One
  MaxHalfCloses <- None
  MaxFaults = 1
  Cancels = TRUE
  RecvCap = 1
  AcceptCap = 1
  RawCap = 1
  WireCap = 2
INVARIANTS NoPanic InOrder EOFAfterAll
PROPERTIES StreamsKeepPromises
CHECK_DEADLOCK FALSE
