\* Two blocks, as in project-conf.h, for three connections.
CONSTANTS
  CONNS = 2
  UIP_CONNS = 3
  Neighbors = 2
  Routes = 2
  Sensors = 1
  Full = 2
  MaxOpened = 3
SPECIFICATION Spec
INVARIANTS TypeOK NoLeak OneOwner PageWhole
PROPERTIES BlocksComeFree
CHECK_DEADLOCK FALSE
