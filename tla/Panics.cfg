SPECIFICATION LexerSpec
CONSTANTS
  Chars <- AllChars
  Texts <- PanicTexts
  Modulus <- Width
  CodePoints <- Valid
INVARIANT RereadFindsChar
