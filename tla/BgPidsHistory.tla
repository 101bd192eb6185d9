---------------------------- MODULE BgPidsHistory ----------------------------
(***************************************************************************)
(* BgPids seen as an ordered list, and with a history of the saves: how    *)
(* many statuses have been saved since a pid's own.                        *)
(***************************************************************************)
EXTENDS BgPids

VARIABLES
    age,     \* saves since the status of a pid was saved, or NotSaved
    settled  \* the limit has not changed since a status was first saved

NotSaved == -1

historyVars == <<vars, age, settled>>

-----------------------------------------------------------------------------
(* The refinement: the live cells in the order of the buffer, from head.   *)

NotAfter(b, i) == {j \in Live(b) : Position(b, j) <= Position(b, i)}

InOrder(b) ==
    [k \in 1..Cardinality(Live(b)) |->
        CHOOSE i \in Live(b) : Cardinality(NotAfter(b, i)) = k]

ListOf(b) ==
    LET Entry(c) == [pid |-> c.pid, status |-> c.status]
        cells == InOrder(b)
    IN  [k \in DOMAIN cells |-> Entry(b.storage[cells[k]])]

SavedList == ListOf(bgpids)

List == INSTANCE SavedStatuses WITH saved <- SavedList

(* The circular buffer with its hash chains behaves as the ordered list:   *)
(* a fork drops only its own pid's status and a save at most the oldest.   *)
ImplementsList == List!Spec

-----------------------------------------------------------------------------
HistoryInit == Init /\ age = [pid \in Pids |-> NotSaved] /\ settled = TRUE

Older == [pid \in Pids |->
            IF age[pid] = NotSaved \/ age[pid] > MaxChildMax THEN age[pid]
            ELSE age[pid] + 1]

(* A new limit promises nothing about statuses that are already gone. *)
StillSaved == [pid \in Pids |->
                IF Search(bgpids, pid) = NoIndex THEN NotSaved ELSE age[pid]]

HistoryNext ==
    \/ \E pid \in Pids :
        \/ /\ Fork(pid) \/ Forget(pid)
           /\ age' = [age EXCEPT ![pid] = NotSaved] /\ UNCHANGED settled
        \/ /\ \E status \in Statuses : Save(pid, status)
           /\ age' = [Older EXCEPT ![pid] = 0] /\ UNCHANGED settled
        \/ Discard(pid) /\ UNCHANGED <<age, settled>>
    \/ Clear /\ age' = [pid \in Pids |-> NotSaved] /\ settled' = TRUE
    \/ \E n \in Requests :
        /\ SetMaxChild(n) /\ age' = StillSaved
        /\ settled' = (settled /\ (childmax' = childmax \/ bgpids.nalloc = 0))

HistorySpec == HistoryInit /\ [][HistoryNext]_historyVars

Keeps(pid) ==
    (age[pid] # NotSaved /\ age[pid] < childmax /\ childmax <= MaxChildMax)
        => Search(bgpids, pid) # NoIndex

(* "The ordered list Posix requires": while the limit stays what it was    *)
(* when the first status was saved, and is at most the cap, wait can still *)
(* report the last js.c_childmax statuses that were saved and neither      *)
(* forgotten nor taken over by a new process.                              *)
KeepsLastStatuses == settled => \A pid \in Pids : Keeps(pid)
=============================================================================
