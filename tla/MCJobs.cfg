SPECIFICATION HSpec
CONSTANTS
  Pids = {p1, p2, p3}
  Statuses = {3, 137}
  Signaled = {137}
  JOB_SLOTS = 1
  MAX_JOBS_IN_ARRAY = 2
  CHILD_MAX = 1
  MaxForks = 3
SYMMETRY PidSymmetry
INVARIANTS TypeOK IndicesExact CurrentExists RunningIsChild   NoticedUnlessQueued
