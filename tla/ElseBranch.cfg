SPECIFICATION Spec
CONSTANTS
  Ints = 8
  Longs = 64
  Rules <- TestGrammar
  Sources <- NestedSources
  Statements <- StatementsOf
  Lines <- LinesOf
  Words <- WordsOf
CHECK_DEADLOCK FALSE
INVARIANT TriageReads
