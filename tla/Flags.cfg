SPECIFICATION SpecProcess
CONSTANTS
  Index = {1, 2}
  MaxListed = 3
  MaxCalls = 2
CHECK_DEADLOCK FALSE
INVARIANTS TypeOK FirstCallObeys OnNeverAddsFlags ShowsCalls
