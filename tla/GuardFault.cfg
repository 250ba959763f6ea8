SPECIFICATION Spec
CONSTANTS
  MaxClauses = 4
CHECK_DEADLOCK FALSE
INVARIANT VisitLogged
