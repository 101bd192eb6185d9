SPECIFICATION Spec
CONSTANTS
  Names = {x}
  Values = {v1, v2}
  NoValue = NoValue
  Absent = Absent
  Unset = Unset
  Unknown = Unknown
  MaxCalls = 3
  MaxCommands = 5
INVARIANT ContextsOK
PROPERTIES OutOfDateOnlyThere 
CHECK_DEADLOCK FALSE
SYMMETRY Swaps
