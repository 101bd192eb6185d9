------------------------------- MODULE BgPids -------------------------------
(***************************************************************************)
(* The table of saved background statuses of jobs.c: what `wait PID'       *)
(* answers for a child whose job is already gone.                          *)
(*                                                                         *)
(* All statuses live in one circular buffer (bgpids.storage); the cells    *)
(* of the pids that hash alike are chained, newest first, through          *)
(* bucket_next and bucket_prev, and pidstat_table holds the first cell of  *)
(* each chain.  The buffer starts empty, is allocated by the first save,   *)
(* doubles while it is smaller than js.c_childmax, and wraps around.       *)
(*                                                                         *)
(* The shell calls every operation here with SIGCHLD blocked, so each one  *)
(* is a single action.                                                     *)
(***************************************************************************)
EXTENDS Integers, FiniteSets

CONSTANTS
    Pids,           \* process ids the kernel hands out
    Statuses,       \* exit statuses
    Buckets,        \* indexes of pidstat_table
    Hash,           \* pshash_getbucket, as a function of the pid
    TableSize,      \* BGPIDS_TABLE_SZ, the first size of the buffer
    MaxChildMax,    \* MAX_CHILD_MAX, the hard cap on its size
    DefaultLimit,   \* lmaxchild: what sysconf reports
    Requests,       \* the values users assign to CHILD_MAX
    MaxNpid         \* bound on the counter npid

NoPid == -1         \* (pid_t)-1
NoIndex == -1       \* NO_PIDSTAT

ASSUME PidsAssumption == Pids \subseteq Nat
ASSUME StatusesAssumption == Statuses \subseteq Nat
ASSUME HashAssumption == Hash \in [Pids -> Buckets]
ASSUME SizesAssumption ==
    /\ TableSize \in Nat \ {0} /\ MaxChildMax \in Nat
    /\ TableSize <= MaxChildMax
    /\ DefaultLimit \in Nat \ {0}
    /\ Requests \subseteq Int
    /\ MaxNpid \in Nat

VARIABLES
    bgpids,     \* the buffer, its head and counter, and pidstat_table
    childmax,   \* js.c_childmax, -1 until the first set_maxchild
    children    \* children the shell forked and has not disposed of yet

vars == <<bgpids, childmax, children>>

-----------------------------------------------------------------------------
(* The buffer and its chains. *)

Cell == [pid : Pids \union {NoPid}, status : Statuses \union {NoIndex},
         next : Int, prev : Int]

CellOf(pid, status, next, prev) ==
    [pid |-> pid, status |-> status, next |-> next, prev |-> prev]

BlankCell == CellOf(NoPid, NoIndex, NoIndex, NoIndex)

EmptyTable == [k \in Buckets |-> NoIndex]

Buffer(storage, nalloc, head, npid, table) ==
    [storage |-> storage, nalloc |-> nalloc, head |-> head,
     npid |-> npid, table |-> table]

(* Before the first save, and after a clear. *)
NoStorage(table) == Buffer([i \in {} |-> BlankCell], 0, 0, 0, table)

Live(b) == {i \in DOMAIN b.storage : b.storage[i].pid # NoPid}

(* pshash_delindex: take cell i off its chain. *)
Unlink(b, i) ==
    LET c == b.storage[i]
        relinked == [j \in DOMAIN b.storage |->
            IF j = i THEN CellOf(NoPid, c.status, NoIndex, NoIndex)
            ELSE CellOf(b.storage[j].pid, b.storage[j].status,
                        IF j = c.prev THEN c.next ELSE b.storage[j].next,
                        IF j = c.next THEN c.prev ELSE b.storage[j].prev)]
        table == IF c.prev = NoIndex THEN [b.table EXCEPT ![Hash[c.pid]] = c.next]
                 ELSE b.table
    IN  IF c.pid = NoPid THEN b
        ELSE Buffer(relinked, b.nalloc, b.head, b.npid, table)

(* The doublings of a size that stay within the cap. *)
Doublings(size) ==
    {n \in size..MaxChildMax : \E k \in 0..15 : n = size * 2^k}

(* The size bgp_resize asks for: doubled until it holds goal, then capped. *)
Grown(size, goal) ==
    LET enough == {n \in Doublings(size) : n >= goal}
    IN  IF enough = {} THEN MaxChildMax
        ELSE CHOOSE n \in enough : \A m \in enough : n <= m

Enlarged(b, nsize) ==
    [i \in 0..(nsize - 1) |-> IF i < b.nalloc THEN b.storage[i] ELSE BlankCell]

Goal == IF childmax < 0 THEN MaxChildMax ELSE childmax

(* Two mutants of Resize: one keeps the old pidstat_table for the new      *)
(* storage, one continues in the new cells when the storage grows.         *)
ResizeKeepsTable(b) ==
    LET nsize == Grown(IF b.nalloc = 0 THEN TableSize ELSE b.nalloc, Goal)
    IN  IF b.nalloc < Goal /\ b.nalloc < MaxChildMax
        THEN Buffer(Enlarged(b, nsize), nsize, b.head, b.npid, b.table)
        ELSE Buffer(b.storage, b.nalloc, IF b.head >= b.nalloc THEN 0 ELSE b.head,
                    b.npid, b.table)

ResizeJumps(b) ==
    LET nsize == Grown(IF b.nalloc = 0 THEN TableSize ELSE b.nalloc, Goal)
    IN  IF b.nalloc < Goal /\ b.nalloc < MaxChildMax
        THEN Buffer(Enlarged(b, nsize), nsize, b.nalloc, b.npid,
                    IF b.nalloc = 0 THEN EmptyTable ELSE b.table)
        ELSE Buffer(b.storage, b.nalloc, IF b.head >= b.nalloc THEN 0 ELSE b.head,
                    b.npid, b.table)

(* bgp_resize: allocate (pidstat_table is invalidated), grow, or wrap      *)
(* around.                                                                 *)
Resize(b) ==
    LET fresh == b.nalloc = 0
        nsize == Grown(IF fresh THEN TableSize ELSE b.nalloc, Goal)
        head == IF fresh THEN 0 ELSE b.head
        table == IF fresh THEN EmptyTable ELSE b.table
    IN  IF b.nalloc < Goal /\ b.nalloc < MaxChildMax
        THEN Buffer(Enlarged(b, nsize), nsize, head, b.npid, table)
        ELSE Buffer(b.storage, b.nalloc, IF head >= b.nalloc THEN 0 ELSE head,
                    b.npid, table)

ReadyStillLinked(b) ==
    IF b.nalloc < childmax \/ b.head >= b.nalloc THEN Resize(b) ELSE b

(* bgp_getindex: the state in which cell head is ready to be filled, with  *)
(* head not advanced yet.                                                  *)
ReadyForNext(b) ==
    LET r == IF b.nalloc < childmax \/ b.head >= b.nalloc THEN Resize(b) ELSE b
    IN  Unlink(r, r.head)

(* bgp_add: fill the cell at head, which bgp_getindex made ready, put it   *)
(* first on its chain and advance head.                                    *)
Fill(r, pid, status) ==
    LET psi == r.head
        first == r.table[Hash[pid]]
        storage == [j \in DOMAIN r.storage |->
            IF j = psi THEN CellOf(pid, status, first, NoIndex)
            ELSE IF j = first
                 THEN CellOf(r.storage[j].pid, r.storage[j].status, r.storage[j].next, psi)
            ELSE r.storage[j]]
    IN  Buffer(storage, r.nalloc, psi + 1, r.npid + 1, [r.table EXCEPT ![Hash[pid]] = psi])

(* The cell is the first of the chain of pid: bgp_add skips it. *)
HeadsChain(r, pid) == r.table[Hash[pid]] = r.head

Skipped(r) ==
    LET c == r.storage[r.head]
    IN  Buffer([r.storage EXCEPT ![r.head] = CellOf(NoPid, c.status, c.next, c.prev)],
               r.nalloc, r.head + 1, r.npid, r.table)

AddPid(b, pid, status) ==
    LET r == ReadyForNext(b)
    IN  Fill(IF HeadsChain(r, pid) THEN ReadyForNext(Skipped(r)) ELSE r, pid, status)

FindFirstOnly(b, pid) ==
    LET i == b.table[Hash[pid]]
    IN  IF b.nalloc # 0 /\ b.npid # 0 /\ i # NoIndex /\ b.storage[i].pid = pid
        THEN i ELSE NoIndex

(* The cells of the chain of pid in their order, then NoIndex: as far as   *)
(* bgp_search and bgp_delete may walk, the storage has no more cells.      *)
Walk(b, pid) ==
    LET visit[k \in 0..b.nalloc] ==
            IF k = 0 THEN b.table[Hash[pid]]
            ELSE IF visit[k - 1] \in DOMAIN b.storage THEN b.storage[visit[k - 1]].next
            ELSE NoIndex
    IN  visit

(* The walk of bgp_search and bgp_delete along the chain of pid: the cell  *)
(* found, or NoIndex at the end of the chain or when the chain comes back  *)
(* to its first cell.                                                      *)
Find(b, pid) ==
    LET visit == Walk(b, pid)
        hits == {k \in 0..b.nalloc : visit[k] \in DOMAIN b.storage
                                      /\ b.storage[visit[k]].pid = pid}
        loops == {k \in 0..b.nalloc : visit[k] \in DOMAIN b.storage
                                       /\ b.storage[visit[k]].next = visit[0]}
        found == {visit[k] : k \in {n \in hits :
                        \A m \in 0..(n - 1) : m \notin hits /\ m \notin loops}}
    IN  IF b.nalloc = 0 \/ b.npid = 0 \/ found = {} THEN NoIndex
        ELSE CHOOSE i \in found : TRUE

(* bgp_search, which answers -1 when there is no status. *)
Search(b, pid) ==
    IF Find(b, pid) = NoIndex THEN NoIndex ELSE b.storage[Find(b, pid)].status

DeleteChain(b, pid) ==
    Buffer(b.storage, b.nalloc, b.head, b.npid, [b.table EXCEPT ![Hash[pid]] = NoIndex])

(* bgp_delete *)
DeletePid(b, pid) ==
    LET u == Unlink(b, Find(b, pid))
    IN  IF Find(b, pid) = NoIndex THEN b
        ELSE Buffer(u.storage, u.nalloc, u.head, u.npid - 1, u.table)

-----------------------------------------------------------------------------
Init ==
    /\ bgpids = NoStorage(EmptyTable)
    /\ childmax = -1
    /\ children = {}

ForkKeepsStatus(pid) ==
    /\ children' = children \union {pid}
    /\ UNCHANGED <<bgpids, childmax>>

(* make_child: a pid comes back from the kernel; any dead job that still   *)
(* holds it (delete_old_job) and any status saved for it are dropped.      *)
Fork(pid) ==
    /\ bgpids' = DeletePid(bgpids, pid)
    /\ children' = children \union {pid}
    /\ UNCHANGED childmax

(* A dead asynchronous job leaves the jobs table (delete_job), or a        *)
(* finished process substitution leaves its list (procsub_delete,          *)
(* procsub_prune): the status is saved.                                    *)
Save(pid, status) ==
    /\ pid \in children
    /\ bgpids.npid < MaxNpid
    /\ bgpids' = AddPid(bgpids, pid, status)
    /\ children' = children \ {pid}
    /\ UNCHANGED childmax

(* A foreground job leaves the jobs table: nothing is saved. *)
Discard(pid) ==
    /\ pid \in children
    /\ children' = children \ {pid}
    /\ UNCHANGED <<bgpids, childmax>>

(* wait_for_single_pid in posix mode forgets the status it returned. *)
Forget(pid) ==
    /\ bgpids' = DeletePid(bgpids, pid)
    /\ UNCHANGED <<childmax, children>>

(* bgp_clear, at the end of `wait' without arguments: the storage is       *)
(* freed, pidstat_table is left as it was.                                 *)
Clear ==
    /\ bgpids.nalloc # 0
    /\ bgpids' = NoStorage(bgpids.table)
    /\ UNCHANGED <<childmax, children>>

ClampedAbove(n) == IF n > MaxChildMax THEN MaxChildMax ELSE n

(* What set_maxchild stores for a requested limit. *)
Clamped(n) ==
    IF n < DefaultLimit THEN DefaultLimit
    ELSE IF n > MaxChildMax THEN MaxChildMax
    ELSE n

(* set_maxchild, from initialize_job_control and from CHILD_MAX=n. *)
SetMaxChild(n) ==
    /\ childmax' = Clamped(n)
    /\ UNCHANGED <<bgpids, children>>

Next ==
    \/ \E pid \in Pids :
        \/ Fork(pid)
        \/ \E status \in Statuses : Save(pid, status)
        \/ Discard(pid)
        \/ Forget(pid)
    \/ Clear
    \/ \E n \in Requests : SetMaxChild(n)

Spec == Init /\ [][Next]_vars

-----------------------------------------------------------------------------
(* The shape of the table: nalloc cells, the head at most one past them.   *)
WellFormed(b) ==
    /\ b = Buffer(b.storage, b.nalloc, b.head, b.npid, b.table)
    /\ b.nalloc \in 0..MaxChildMax
    /\ b.head \in 0..b.nalloc
    /\ b.npid \in Int
    /\ b.storage \in [0..(b.nalloc - 1) -> Cell]
    /\ b.table \in [Buckets -> Int]

(* The buffer never exceeds the cap and its head never passes its end, and *)
(* the limit is positive once it is set (struct bgpids, set_maxchild).     *)
TypeOK ==
    /\ WellFormed(bgpids)
    /\ childmax \in {-1} \union (Nat \ {0})
    /\ children \subseteq Pids

(* The cell a live cell names as its next is live, names it back and       *)
(* hashes alike.                                                           *)
NextLinked(b) ==
    \A i \in Live(b) : b.storage[i].next # NoIndex =>
        /\ b.storage[i].next \in Live(b)
        /\ b.storage[b.storage[i].next].prev = i
        /\ Hash[b.storage[b.storage[i].next].pid] = Hash[b.storage[i].pid]

(* A live cell is the first of its bucket, or the next of its previous.    *)
PrevLinked(b) ==
    \A i \in Live(b) :
        IF b.storage[i].prev = NoIndex
        THEN b.table[Hash[b.storage[i].pid]] = i
        ELSE b.storage[i].prev \in Live(b) /\ b.storage[b.storage[i].prev].next = i

(* pidstat_table names live cells that are first and hash there.           *)
TableLinked(b) ==
    \A k \in Buckets : b.table[k] # NoIndex =>
        /\ b.table[k] \in Live(b)
        /\ b.storage[b.table[k]].prev = NoIndex
        /\ Hash[b.storage[b.table[k]].pid] = k

(* How long ago cell i was filled, in positions after head: the buffer     *)
(* read from head is in the order the statuses were saved.                 *)
Position(b, i) == IF i >= b.head THEN i - b.head ELSE i - b.head + b.nalloc

(* Chains run from newer to older cells, so a walk can neither loop nor    *)
(* meet an older status of a pid before a newer one.                       *)
NewestFirst(b) ==
    \A i \in Live(b) : b.storage[i].next # NoIndex =>
        Position(b, b.storage[i].next) < Position(b, i)

(* The chains of an allocated table are doubly linked and ordered, through *)
(* any sequence of saves, deletions, wraps, growths and clears.            *)
Linked(b) == NextLinked(b) /\ PrevLinked(b) /\ TableLinked(b) /\ NewestFirst(b)

LinksOK == bgpids.nalloc # 0 => Linked(bgpids)

(* The case bgp_add asks about in a comment, "what if psi == *bucket?",    *)
(* never happens: the cell it is about to fill has left its chain.         *)
NeverSkips == \A pid \in children : ~HeadsChain(ReadyForNext(bgpids), pid)

(* bgp_search finds a status exactly for the pids that have a live cell,   *)
(* although npid counts cells that were overwritten: the early return on   *)
(* npid == 0 and the loop check never hide a status.  A pid has one cell.  *)
SearchFindsAll ==
    \A pid \in Pids :
        LET cells == {i \in Live(bgpids) : bgpids.storage[i].pid = pid}
        IN  cells = (IF Find(bgpids, pid) = NoIndex THEN {} ELSE {Find(bgpids, pid)})

(* A child that has not been disposed of has no saved status: a status     *)
(* that survived its pid's reuse would be reported for the new process.    *)
NoStaleStatus == \A pid \in children : Search(bgpids, pid) = NoIndex
=============================================================================
