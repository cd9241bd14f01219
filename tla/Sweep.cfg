\* Two kills, anywhere, and one server whose times are missing.
CONSTANTS
  FirstOf <- FirstValues
  LastOf <- LastValues
  Requests = 1
  MaxKills = 2
  MaxUntimed = 1
SPECIFICATION Spec
INVARIANTS TypeOK NothingSkipped KillsCostLittle
PROPERTIES OnlyBrokenLinesCostTheFile
