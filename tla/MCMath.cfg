SPECIFICATION Spec
CONSTANTS
  Width = 15
  IntWidth = 8
  Garbage = 101
  Beef = 77
  MaxLines = 4
  Lines <- MCLines
  Numbers = {0, 3}
  Words5 = {"LPAREN", "RPAREN", "MINUS", "DIVIDE"}
  Words3 = {"PLUS", "BIT_AND", "ASSIGN", "KW_SUM", "KW_IN", "KW_HELP", "ILLEGAL"}
INVARIANT SessionAgrees
 
INVARIANT UndefinedIsRefused
INVARIANT AnsweredIsDerived
CHECK_DEADLOCK FALSE
