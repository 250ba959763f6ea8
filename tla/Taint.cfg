SPECIFICATION SinkSpec
CONSTANTS
  Programs <- MCPrograms
  Rounds <- MCRounds
CHECK_DEADLOCK FALSE
INVARIANTS TypeOK DereferencesFound LeaksBlamed LeaksExact LeaksFollow MarkedIffSinkUnder GuardedDereferencesFound
