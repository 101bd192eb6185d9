SPECIFICATION Spec
CONSTANTS
  MaxFd = 7
  SHELL_FD_BASE = 4
  CLOSED = CLOSED
  UserFds = {1, 2}
  Files = {f}
  MaxCalls = 2
  MaxRedirs = 3
  Disturbing = {}
INVARIANTS HeldOnce UndoneOnce
PROPERTY GivesBack
CHECK_DEADLOCK FALSE
