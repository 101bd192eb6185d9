SPECIFICATION Spec
CONSTANTS
  NONE = NONE
  ABSENT = NONE
  Keys <- MCKeys
  hash <- MCHash
  Values = {0, 1}
  Buckets = 1
  MaxIndex = 4
  MaxWords = 2
  NoSub = NoSub
INVARIANTS ArraysOK TablesOK PipestatusIsLast
PROPERTY IsDictionary
CHECK_DEADLOCK FALSE
