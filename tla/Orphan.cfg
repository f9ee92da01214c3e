SPECIFICATION Spec
CONSTANTS
  Openers = {"host"}
  Handlers = {}
  Closers = {}
  Blocking = {}
  Routes = {FALSE}
  MaxStreams = 1
  MaxSends <- None
  MaxRaw <- None
  MaxCloses <- One
  MaxHalfCloses <- None
  MaxFaults = 1
  Cancels = FALSE
  RecvCap = 1
  AcceptCap = 1
  RawCap = 1
  WireCap = 2
INVARIANTS NoStreamAfterCrash
CHECK_DEADLOCK FALSE
