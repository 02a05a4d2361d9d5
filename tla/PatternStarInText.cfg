SPECIFICATION MatchSpec
CONSTANTS
  PatternChars = {"a", "b", "*"}
  TextChars = {"a", "b", "*"}
  MaxPattern = 2
  MaxText = 3
INVARIANTS
  AnswersGlob
CHECK_DEADLOCK FALSE
