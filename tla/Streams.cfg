SPECIFICATION Spec
CONSTANTS
  Openers = {"host"}
  Handlers = {}
  Closers = {}
  Blocking = {}
  Routes = {FALSE}
  MaxStreams = 1
  MaxSends <- HostTwo
  MaxRaw <- None
  MaxCloses <- One
  MaxHalfCloses <- HostOne
  MaxFaults = 0
  Cancels = FALSE
  RecvCap = 1
  AcceptCap = 1
  RawCap = 1
  WireCap = 2
INVARIANTS TypeOK NoLoss EOFMeansAll RejectsOnlyEnded NoErrorOnLive
CHECK_DEADLOCK FALSE
