\* The decoder on a line that loses bytes, between debug output.
CONSTANTS
  Data <- MCData
  Frames <- MCFrames
  InBufSize = 4
  Verbosities = {1}
  MaxSent = 2
  MaxDebug = 2
  MaxWire = 2
  MaxLost = 2
SPECIFICATION FairSpec
INVARIANTS TypeOK IntactHandled
PROPERTIES IsPacketPipe EventuallyHandled
\* Everything the bounds allow has been sent, or the bridge exited.
CHECK_DEADLOCK FALSE
