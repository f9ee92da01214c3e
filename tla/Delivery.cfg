SPECIFICATION FairSpec
CONSTANTS
  Openers = {"host", "plugin"}
  Handlers = {}
  Closers = {}
  Blocking = {}
  Routes = {FALSE}
  MaxStreams = 1
  MaxSends <- HostTwo
  MaxRaw <- None
  MaxCloses <- None
  MaxHalfCloses <- HostOne
  MaxFaults = 0
  Cancels = FALSE
  RecvCap = 1
  AcceptCap = 1
  RawCap = 1
  WireCap = 1
INVARIANTS NoCollision
PROPERTIES Delivered
CHECK_DEADLOCK FALSE
