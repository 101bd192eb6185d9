SPECIFICATION HSpec
CONSTANTS
  NSIG = 5
  SIGINT = 1
  SIGCHLD = 3
  SIGWINCH = 4
  Fatal = {1, 2}
  Commands = {a}
  MaxDepth = 4
  MaxEvents = 3
INVARIANT CaughtUntilRun
CHECK_DEADLOCK FALSE
