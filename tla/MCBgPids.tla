------------------------------ MODULE MCBgPids ------------------------------
(* BgPidsHistory for TLC: three pids, two of which share a bucket. *)
EXTENDS BgPidsHistory

MCHash == [pid \in Pids |-> pid % 2]
=============================================================================
