SPECIFICATION MatchSpec
CONSTANTS
  PatternChars = {"a", "b", "?", "*"}
  TextChars = {"a", "b"}
  MaxPattern = 4
  MaxText = 4
INVARIANTS
  AnswersGlob
  PrefixMatches
PROPERTIES
  Terminates
CHECK_DEADLOCK FALSE
