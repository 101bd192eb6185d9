SPECIFICATION Spec
CONSTANTS
  Decimal = {"0", "1", "8"}
  HexLetters = {"a", "b"}
  OtherLetters = {"x", "s", "u", "m", "i", "n", "o", "v", "e", "r", "h", "l", "p"}
  MAX_IDENT_LENGTH = 4
  MaxLen = 5
  Characters = {"0", "1", "8", "b", "x", " ", "*", ".", "+"}
  Texts <- MCTexts
INVARIANT TypeOK
INVARIANT LongestMatch
INVARIANT SpacesOnlySeparateWords
CHECK_DEADLOCK FALSE
