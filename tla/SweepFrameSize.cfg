\* One kill is enough: nothing else goes wrong.
CONSTANTS
  FirstOf <- FirstValues
  LastOf <- LastValues
  Requests = 1
  MaxKills = 1
  MaxUntimed = 0
SPECIFICATION Spec
INVARIANT FrameSizesResume
