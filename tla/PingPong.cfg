SPECIFICATION FairSpec
CONSTANTS
  Openers = {"host"}
  Handlers = {}
  Closers = {}
  Blocking = {}
  Routes = {FALSE}
  MaxStreams = 1
  MaxSends <- None
  MaxRaw <- None
  MaxCloses <- One
  MaxHalfCloses <- None
  MaxFaults = 0
  Cancels = FALSE
  RecvCap = 1
  AcceptCap = 1
  RawCap = 1
  WireCap = 1
PROPERTIES ClosedIsQuiet
CHECK_DEADLOCK FALSE
