SPECIFICATION Spec
CONSTANTS
  Seeds = {s1, s2}
  Index = {1, 2}
  s1 = s1
  s2 = s2
  Programs <- Two
  MaxLate = 0
CHECK_DEADLOCK FALSE
INVARIANT RemainingPassSeeds
