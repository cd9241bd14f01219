\* The output queue: short writes, EAGAIN, overflow, errors and the pause.
CONSTANTS
  Data = {"d"}
  BufSize = 8
  MaxPackets = 3
  CopyOrders = {"forward", "backward"}
  Payloads <- MCPayloads
SPECIFICATION FairSpec
INVARIANTS TypeOK BufferOK InOrder
PROPERTIES IsPacketPipe EverySent
\* err(1) ends the process, and MaxPackets the behaviour.
CHECK_DEADLOCK FALSE
