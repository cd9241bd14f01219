\* Two pages at once, one of them lost in part.
CONSTANTS
  CONNS = 2
  UIP_CONNS = 2
  Neighbors = 2
  Routes = 2
  Sensors = 1
  Full = 2
  MaxOpened = 2
SPECIFICATION Spec
PROPERTY SentAgainAsItWas
CHECK_DEADLOCK FALSE
