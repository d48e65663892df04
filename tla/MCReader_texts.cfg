CONSTANTS
  MaxNarrow = 65535
  Garbage <- NoGarbage
  Texts <- NoTexts
  IntHalf = 512
  MaxOverrun = 2
  MaxTexts = 2
  Programs <- ReaderPrograms
SPECIFICATION ReaderSpec
INVARIANTS
  TokensTile
  LongestMatch
  SymbolsAreTheirText
  LiteralsFit
  OneReport
  ParsesGrammar
  NoSilentHole
  CrashesExplained
PROPERTIES
  LexingEnds
CHECK_DEADLOCK FALSE
