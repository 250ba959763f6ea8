SPECIFICATION Spec
CONSTANTS
  MaxClauses = 4
CHECK_DEADLOCK FALSE
INVARIANT TypeOK
INVARIANT TriggeredIffDiverged
INVARIANT OffPreserves
INVARIANT ExecCheckSafe
