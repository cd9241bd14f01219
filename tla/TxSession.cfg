\* Both rings go round, with losses, a radio reset and a restart of the bridge.
CONSTANTS
  MAX_CALLBACKS = 2
  RadioSlots = 2
  Window = 2
  MaxSends = 5
  MaxLost = 2
  MaxRestarts = 1
SPECIFICATION FairSpec
INVARIANTS TypeOK RightCallback
PROPERTIES KeepsPromise Answered
\* Packets that are lost leave the MAC layer waiting for ever.
CHECK_DEADLOCK FALSE
