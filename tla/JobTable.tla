------------------------------ MODULE JobTable ------------------------------
(***************************************************************************)
(* The job table of jobs.c and the functions that change it, as operators  *)
(* on a record js: the array jobs (a function whose domain is the slots    *)
(* in use), the members of struct jobstats that index it, and the statuses *)
(* saved for deleted jobs.  The saved statuses are kept here without their *)
(* limit, which module BgPids is about.                                    *)
(*                                                                         *)
(* The shell runs a script: interactive, interactive_shell, job_control,   *)
(* startup_state and posixly_correct are 0, no process stops, and the list *)
(* is never frozen.  Each operator runs with SIGCHLD blocked or queued.    *)
(***************************************************************************)
EXTENDS Integers, Sequences, FiniteSetsExt, Functions

CONSTANTS
  Pids,
  Statuses,            \* exit statuses, 128 + n for a death by signal n
  Signaled,            \* the statuses of processes killed by a signal
  JOB_SLOTS,
  MAX_JOBS_IN_ARRAY,
  CHILD_MAX            \* js.c_childmax

ASSUME PidsAssumption == Pids \cap {0, -1} = {}
ASSUME StatusesAssumption == Statuses \subseteq Nat /\ Signaled \subseteq Statuses
ASSUME SizesAssumption ==
  /\ JOB_SLOTS \in Nat \ {0}
  /\ MAX_JOBS_IN_ARRAY \in Nat
  /\ CHILD_MAX \in Nat

NO_JOB == -1
NoStatus == -1

\* A process whose pid went to a newer one is left in its job as pid 0.
Processes == [pid : Pids \cup {0}, running : BOOLEAN, status : Statuses \cup {0}]

\* J_ASYNC and J_FOREGROUND are complementary here; a job that is not dead runs.
Jobs == [procs : Seq(Processes), dead : BOOLEAN, async : BOOLEAN, notified : BOOLEAN]

Child(pid) == [pid |-> pid, running |-> TRUE, status |-> 0]
AnyRunning(procs) == \E k \in DOMAIN procs : procs[k].running

NewJob(procs, async) ==
  [procs |-> procs, dead |-> ~AnyRunning(procs), async |-> async, notified |-> FALSE]

find_last_proc(job) == job.procs[Len(job.procs)]
find_last_pid(job) == find_last_proc(job).pid

\* Mutant of job_exit_status: the first process decides.
FirstExitStatus(job) == job.procs[1].status

job_exit_status(job) == find_last_proc(job).status

NoSaved == [pid \in Pids \cup {0} |-> NoStatus]

\* init_job_stats
InitialTable ==
  [slots |-> 0, jobs |-> <<>>, firstj |-> 0, lastj |-> 0, njobs |-> 0,
   current |-> NO_JOB, previous |-> NO_JOB, saved |-> NoSaved]

Indices(js) == DOMAIN js.jobs
Running(js) == {i \in Indices(js) : ~js.jobs[i].dead}
Dead(js) == {i \in Indices(js) : js.jobs[i].dead}
Notified(js) == {i \in Indices(js) : js.jobs[i].notified}
Background(js) == {i \in Indices(js) : js.jobs[i].async}

(***************************************************************************)
(* Finding processes                                                       *)
(***************************************************************************)
At(procs, pid) == {k \in DOMAIN procs : procs[k].pid = pid}
AliveAt(procs, pid) == {k \in At(procs, pid) : procs[k].running}

find_job(js, pid) ==
  LET holding == {i \in Indices(js) : At(js.jobs[i].procs, pid) # {}}
  IN IF holding = {} THEN NO_JOB ELSE Min(holding)

find_live_job(js, pid) ==
  LET holding == {i \in Indices(js) : AliveAt(js.jobs[i].procs, pid) # {}}
  IN IF holding = {} THEN NO_JOB ELSE Min(holding)

(***************************************************************************)
(* Deleting jobs                                                           *)
(***************************************************************************)
\* With nothing stopped, the newest running job is the current one and the
\* next older running job, if there is one, the previous one.
reset_current(js) ==
  LET newest == Max(Running(js))
      older == {i \in Running(js) : i < newest}
  IN IF Running(js) = {} THEN [js EXCEPT !.current = NO_JOB, !.previous = NO_JOB]
     ELSE [js EXCEPT !.current = newest,
                     !.previous = IF older = {} THEN newest ELSE Max(older)]

NextIndex(used, i) ==
  LET after == {k \in used : k > i} IN Min(IF after = {} THEN used ELSE after)

PreviousIndex(used, i) ==
  LET before == {k \in used : k < i} IN Max(IF before = {} THEN used ELSE before)

\* Mutant of reset_job_indices: j_lastj is left alone.
ResetFirst(js) ==
  LET used == Indices(js)
  IN IF used = {} THEN [js EXCEPT !.firstj = 0, !.lastj = 0]
     ELSE [js EXCEPT !.firstj = IF @ \in used THEN @ ELSE NextIndex(used, @)]

reset_job_indices(js) ==
  LET used == Indices(js)
  IN IF used = {} THEN [js EXCEPT !.firstj = 0, !.lastj = 0]
     ELSE [js EXCEPT
             !.firstj = IF @ \in used THEN @ ELSE NextIndex(used, @),
             !.lastj = IF @ \in used THEN @ ELSE PreviousIndex(used, @)]

\* Mutant of Saved: no status is saved.
NothingSaved(js, gone) == js.saved

\* bgp_add for the last process of each asynchronous job, in slot order.
Saved(js, gone) ==
  [pid \in DOMAIN js.saved |->
     LET from == {i \in gone \cap Background(js) : find_last_pid(js.jobs[i]) = pid}
     IN IF from = {} THEN js.saved[pid] ELSE job_exit_status(js.jobs[Max(from)])]

\* Mutant of Deleted: the current job alone is looked at.
DeletedCurrent(js, gone, saved) ==
  LET left == reset_job_indices(
                [js EXCEPT !.jobs = Restrict(@, Indices(js) \ gone),
                           !.njobs = @ - Cardinality(gone),
                           !.saved = saved])
  IN IF js.current \notin gone THEN left ELSE reset_current(left)

Deleted(js, gone, saved) ==
  LET left == reset_job_indices(
                [js EXCEPT !.jobs = Restrict(@, Indices(js) \ gone),
                           !.njobs = @ - Cardinality(gone),
                           !.saved = saved])
  IN IF {js.current, js.previous} \cap gone = {} THEN left ELSE reset_current(left)

delete_jobs(js, gone) == Deleted(js, gone, Saved(js, gone))

cleanup_dead_jobs(js) == delete_jobs(js, Dead(js) \cap Notified(js))

\* Mutant of delete_old_job: the old job keeps the pid.
KeepOldJob(js, pid) == js

\* DEL_NOBGPID for a dead job of the old process; in a running job the old
\* process loses its pid.
delete_old_job(js, pid) ==
  LET job == find_job(js, pid)
      old == Min(At(js.jobs[job].procs, pid))
  IN CASE job = NO_JOB -> js
       [] job # NO_JOB /\ js.jobs[job].dead -> Deleted(js, {job}, js.saved)
       [] OTHER -> [js EXCEPT !.jobs[job].procs[old].pid = 0]

\* What make_child does to the table for the child it forked.
make_child(js, pid) ==
  [delete_old_job(js, pid) EXCEPT !.saved[pid] = NoStatus]

(***************************************************************************)
(* Notification                                                            *)
(***************************************************************************)
Notify(js, told) ==
  [js EXCEPT !.jobs = [i \in DOMAIN @ |-> IF i \in told
                                          THEN [@[i] EXCEPT !.notified = TRUE]
                                          ELSE @[i]]]

\* A script is told nothing of a background job that exits: such a job stays
\* unnotified and in the table.
notify_of_job_status(js) ==
  Notify(js, {i \in Dead(js) : \/ i \notin Background(js)
                               \/ job_exit_status(js.jobs[i]) \in Signaled})

notify_and_cleanup(js) == cleanup_dead_jobs(notify_of_job_status(js))

DeadProcesses(js, set) ==
  LET Size(i) == Len(js.jobs[i].procs) IN MapThenSumSet(Size, Dead(js) \cap set)

\* Without force, slot by slot, as long as more than CHILD_MAX dead processes
\* stay unmarked.  The job of last_asynchronous_pid is spared.
mark_dead_jobs_as_notified(js, force, last_asynchronous_pid) ==
  LET free == {i \in Dead(js) : find_last_pid(js.jobs[i]) # last_asynchronous_pid}
      Left(i) == DeadProcesses(js, Indices(js))
                   - DeadProcesses(js, {k \in free : k <= i})
  IN Notify(js, IF force THEN free ELSE {i \in free : Left(i) > CHILD_MAX})

reap_dead_jobs(js, last_asynchronous_pid) ==
  cleanup_dead_jobs(mark_dead_jobs_as_notified(js, FALSE, last_asynchronous_pid))

(***************************************************************************)
(* Adding jobs                                                             *)
(***************************************************************************)
RoundedSize(n) ==
  ((n + JOB_SLOTS - 1) \div JOB_SLOTS) * JOB_SLOTS
    + (IF n % JOB_SLOTS = 0 \/ n % JOB_SLOTS > JOB_SLOTS \div 2 THEN JOB_SLOTS ELSE 0)

realloc_jobs_list(js) ==
  LET Place(i) == Cardinality({k \in Indices(js) : k < i})
      n == Cardinality(Indices(js))
      moved == [js EXCEPT
        !.slots = RoundedSize(js.njobs),
        !.jobs = [to \in 0 .. n - 1 |->
                    js.jobs[CHOOSE i \in Indices(js) : Place(i) = to]],
        !.firstj = 0,
        !.lastj = IF n > 0 THEN n - 1 ELSE 0,
        !.njobs = n,
        !.current = IF @ \in Indices(js) THEN Place(@) ELSE @,
        !.previous = IF @ \in Indices(js) THEN Place(@) ELSE @]
  IN IF \/ NO_JOB \in {moved.current, moved.previous}
        \/ moved.current > moved.lastj
        \/ moved.previous > moved.lastj
     THEN reset_current(moved)
     ELSE moved

compact_jobs_list(js, last_asynchronous_pid) ==
  realloc_jobs_list(reap_dead_jobs(js, last_asynchronous_pid))

\* The search for a free slot does not wrap around.
FreeSlot(js) ==
  LET from == IF js.lastj # 0 THEN js.lastj + 1 ELSE 0
      free == {i \in from .. js.slots - 1 : i \notin Indices(js)}
  IN IF free = {} THEN js.slots ELSE Min(free)

WithRoom(js, last_asynchronous_pid) ==
  LET clean == cleanup_dead_jobs(js)
      some == IF clean.slots = 0 THEN [clean EXCEPT !.slots = JOB_SLOTS] ELSE clean
      full == FreeSlot(some) = some.slots
      compact == IF full /\ some.slots >= MAX_JOBS_IN_ARRAY
                 THEN compact_jobs_list(some, last_asynchronous_pid)
                 ELSE some
  IN IF FreeSlot(compact) = compact.slots
     THEN [compact EXCEPT !.slots = @ + JOB_SLOTS]
     ELSE compact

stop_pipeline(js, the_pipeline, async, last_asynchronous_pid) ==
  LET room == WithRoom(js, last_asynchronous_pid)
      i == FreeSlot(room)
      job == NewJob(the_pipeline, async)
      added == [room EXCEPT
                  !.jobs = [k \in DOMAIN @ \cup {i} |-> IF k = i THEN job ELSE @[k]],
                  !.lastj = i,
                  !.njobs = @ + 1]
  IN IF async THEN reset_current(added) ELSE added

(***************************************************************************)
(* What waitchld records for a child it reaped                             *)
(***************************************************************************)
Exited(procs, pid, status) ==
  LET k == Min(AliveAt(procs, pid))
  IN [procs EXCEPT ![k].running = FALSE, ![k].status = status]

set_job_status_and_cleanup(job) ==
  [job EXCEPT !.notified = FALSE, !.dead = @ \/ ~AnyRunning(job.procs)]

RecordExit(js, pid, status) ==
  LET i == find_live_job(js, pid)
      exited == [js.jobs[i] EXCEPT !.procs = Exited(@, pid, status)]
  IN IF i = NO_JOB THEN js
     ELSE [js EXCEPT !.jobs[i] = set_job_status_and_cleanup(exited)]

mark_all_jobs_as_dead(js) ==
  [js EXCEPT !.jobs = [i \in DOMAIN @ |-> [@[i] EXCEPT !.dead = TRUE]]]

\* print_job for every job: printing sets J_NOTIFIED, of running jobs too.
list_all_jobs(js) == Notify(js, Indices(js))
=============================================================================
