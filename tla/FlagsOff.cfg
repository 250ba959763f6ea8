SPECIFICATION Spec
CONSTANTS
  Index = {1, 2, 3}
  MaxListed = 3
  MaxCalls = 3
CHECK_DEADLOCK FALSE
INVARIANT OffKeepsListedOff
