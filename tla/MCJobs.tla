------------------------------- MODULE MCJobs -------------------------------
EXTENDS JobsHistory, TLC

PidSymmetry == Permutations(Pids)
=============================================================================
