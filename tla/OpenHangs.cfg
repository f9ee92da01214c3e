\* A handshake with a timeout over the socket pair of plugin_unix.go.
SPECIFICATION FairSpec
CONSTANTS
  Writers <- None
  Steps = 3
  Timed <- JustOpen
  Cancellable <- None
  Kinds <- File
PROPERTY HandshakeEnds
CHECK_DEADLOCK FALSE
