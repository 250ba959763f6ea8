SPECIFICATION SinkSpec
CONSTANTS
  Programs <- MCGlobalPrograms
  Rounds <- MCRounds
CHECK_DEADLOCK FALSE
INVARIANT GlobalDereferencesFound
