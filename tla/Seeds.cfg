SPECIFICATION MCSpec
CONSTANTS
  s1 = s1
  s2 = s2
  Seeds = {s1, s2}
  Index = {1, 2, 3}
  Programs <- MCPrograms
  MaxLate = 1
CHECK_DEADLOCK FALSE
INVARIANT TypeOK
INVARIANT MuteJustified
INVARIANT CrashExplained
INVARIANT ExitBlamesProgram
INVARIANT LastSeedPasses
INVARIANT MonotonePassSeeds
PROPERTY ImplementsFilter
PROPERTY FruitlessForEver
PROPERTY Terminates
