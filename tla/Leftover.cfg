\* One write with a timeout, after the handshake.
SPECIFICATION FairSpec
CONSTANTS
  Writers <- JustTimed
  Steps = 1
  Timed <- JustTimed
  Cancellable <- None
  Kinds <- Poll
PROPERTY NoLeftover
CHECK_DEADLOCK FALSE
