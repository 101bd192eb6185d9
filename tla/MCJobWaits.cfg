SPECIFICATION Spec
CONSTANTS
  Pids = {p1, p2}
  Statuses = {3, 137}
  Signaled = {137}
  JOB_SLOTS = 2
  MAX_JOBS_IN_ARRAY = 2
  CHILD_MAX = 1
  MaxForks = 3
PROPERTY WaitReturns
