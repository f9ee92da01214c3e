SPECIFICATION ClosingSpec
CONSTANTS
  Openers = {"host"}
  Handlers = {}
  Closers = {"host", "plugin"}
  Blocking = {"plugin"}
  Routes = {FALSE}
  MaxStreams = 1
  MaxSends <- HostOne
  MaxRaw <- HostTwo
  MaxCloses <- HostOne
  MaxHalfCloses <- None
  MaxFaults = 0
  Cancels = FALSE
  RecvCap = 1
  AcceptCap = 1
  RawCap = 1
  WireCap = 1
INVARIANTS RawInOrder
PROPERTIES CallsReturn CloseReachesPeer CloseEndsLoops CloseEndsStreams
CHECK_DEADLOCK FALSE
