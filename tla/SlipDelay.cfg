\* The pause slip-dev.c:346 promises between any two packets.
CONSTANTS
  Data = {"d"}
  BufSize = 8
  MaxPackets = 3
  CopyOrders = {"forward"}
  Payloads <- MCPayloads
SPECIFICATION FairSpec
PROPERTIES DelayBetweenPackets
CHECK_DEADLOCK FALSE
