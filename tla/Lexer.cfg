SPECIFICATION LexerSpec
CONSTANTS
  Chars <- AllChars
  Texts <- LexerTexts
  Modulus <- Width
  CodePoints <- Valid
INVARIANTS
  LexerTypeOK
  PositionsRight
  EmptyLineSound
  LongestPunctuator
  NumbersWellFormed
  LiteralsClosed
  EscapesRight
PROPERTIES
  NewlineFlag
  Answered
