SPECIFICATION Spec
CONSTANTS
  Ints = 8
  Longs = 64
  Rules <- TestGrammar
  Sources <- MCSources
  Statements <- StatementsOf
  Lines <- LinesOf
  Words <- WordsOf
CHECK_DEADLOCK FALSE
INVARIANTS TypeOK PositionsOK EditsApart MatchedIffDerivable OneParse OneInjectionPerStatement
  TextsOfClauses EveryInjectionDrops SignedLiteralKept SmallNumbersKept BuildsRead
