SPECIFICATION JsonSpec
CONSTANTS
  MaxParseDepth = 2
  Strings = {"a", "b"}
  Others = {"1"}
  Texts <- MCTexts
\* A text is parsed once.
CHECK_DEADLOCK FALSE
INVARIANT ParsesGrammar
