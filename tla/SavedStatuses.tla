---------------------------- MODULE SavedStatuses ----------------------------
(***************************************************************************)
(* What the table of saved background statuses promises the rest of the    *)
(* shell, whatever buffer it is kept in: a list in the order the statuses  *)
(* were saved, one status for a pid, from which a new process takes away   *)
(* only the status of its own pid and a save pushes out at most one entry, *)
(* the oldest.                                                             *)
(***************************************************************************)
EXTENDS SequencesExt

CONSTANTS Pids, Statuses

VARIABLES
    saved,      \* the statuses, oldest first
    children    \* children not disposed of yet

vars == <<saved, children>>

Without(pid) ==
    LET places == {k \in DOMAIN saved : saved[k].pid = pid}
    IN  IF places = {} THEN saved ELSE RemoveAt(saved, CHOOSE k \in places : TRUE)

Init == saved = <<>> /\ children = {}

Fork(pid) ==
    /\ children' = children \union {pid}
    /\ saved' = Without(pid)

Save(pid, status) ==
    /\ pid \in children
    /\ children' = children \ {pid}
    /\ \/ saved' = Append(saved, [pid |-> pid, status |-> status])
       \/ /\ saved # <<>>
          /\ saved' = Append(Tail(saved), [pid |-> pid, status |-> status])

Discard(pid) ==
    /\ pid \in children
    /\ children' = children \ {pid}
    /\ UNCHANGED saved

Forget(pid) ==
    /\ UNCHANGED children
    /\ saved' = Without(pid)

Clear ==
    /\ UNCHANGED children
    /\ saved' = <<>>

Next ==
    \/ \E pid \in Pids :
        \/ Fork(pid)
        \/ \E status \in Statuses : Save(pid, status)
        \/ Discard(pid)
        \/ Forget(pid)
    \/ Clear

Spec == Init /\ [][Next]_vars
=============================================================================
