\* A packet at the verbosity that echoes lines as they arrive.
CONSTANTS
  Data <- MCData
  Frames <- MCFrames
  InBufSize = 4
  Verbosities = {2}
  MaxSent = 2
  MaxDebug = 1
  MaxWire = 2
  MaxLost = 0
SPECIFICATION FairSpec
INVARIANTS EchoTakesNothing
CHECK_DEADLOCK FALSE
