\* At home with one client; in the lab a router, two bridges and two clients.
CONSTANTS
  Nodes = 3
  Suffix <- MCSuffix
  Requests = 1
  MaxCuts = 2
  MaxLate = 1
SPECIFICATION FairSpec
INVARIANTS TypeOK NothingLeft TimesAreOwn CountsAreOwn
PROPERTIES ServersEnd
CHECK_DEADLOCK FALSE
