SPECIFICATION Spec
CONSTANTS
  MaxFd = 7
  SHELL_FD_BASE = 4
  CLOSED = CLOSED
  UserFds = {1, 2}
  Files = {f}
  MaxCalls = 3
  MaxRedirs = 2
  Disturbing = {"handler"}
PROPERTY GivesBack
CHECK_DEADLOCK FALSE
