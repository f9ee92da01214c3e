\* Three calls of the handshake and two of the connection, over a channel whose
\* SetDeadline works or that has none.
SPECIFICATION FairSpec
CONSTANTS
  Writers <- Two
  Steps = 3
  Timed <- Ending
  Cancellable <- Ending
  Kinds <- PollOrPipe
INVARIANTS TypeOK HandoverIsClean NoTimerOutlivesCall FramesAreWhole
PROPERTIES HandshakeEnds WriteEnds
CHECK_DEADLOCK FALSE
