---------------------------- MODULE JobsHistory ----------------------------
(***************************************************************************)
(* Jobs with a history variable, and the properties of the shell and its   *)
(* children.                                                               *)
(***************************************************************************)
EXTENDS Jobs

VARIABLES
  owed,    \* what wait must answer for each pid the script has had in $!
  unseen   \* a SIGCHLD was only counted, and waitpid has not been empty since

allVars == <<vars, owed, unseen>>

Due == -2    \* the process runs

HInit == Init /\ owed = [pid \in Pids |-> NoStatus] /\ unseen = FALSE

Forked == living' \ living

\* A command was started in the background.
InBackground == pc' = "ready" \/ task'.async

\* The pids whose jobs a new process takes out of the table: make_child saves
\* no status for these.
Displaced ==
  LET jobs == {find_job(js, pid) : pid \in Forked}
  IN {find_last_pid(js.jobs[i]) : i \in jobs \cap Dead(js)}

Remember ==
  owed' = [pid \in Pids |->
    CASE pid \in Forked -> IF last_asynchronous_pid' = pid /\ InBackground
                           THEN Due ELSE NoStatus
      [] pid \in living \ living' /\ owed[pid] = Due -> zombies'[pid]
      [] \/ pid \in Displaced \ Forked
         \/ pc = "clear" /\ pc' # pc -> IF owed[pid] = Due THEN Due ELSE NoStatus
      [] OTHER -> owed[pid]]

HKernel == Kernel /\ Remember /\ UNCHANGED unseen
HExecute == Execute /\ Remember /\ UNCHANGED unseen

EmptyWaitpid == pc \in {"waitpid", "unqueueing"} /\ zombies = <<>>
HContinue == Continue /\ Remember /\ unseen' = (unseen /\ ~EmptyWaitpid)

HHandler ==
  /\ \/ sigchld_handler /\ unseen' = (unseen \/ queue_sigchld > 0)
     \/ HandlerReaps /\ UNCHANGED unseen
     \/ HandlerReturns /\ unseen' = FALSE
  /\ UNCHANGED owed

HNext == HExecute \/ HContinue \/ HHandler \/ HKernel

HSpec == HInit /\ [][HNext]_allVars

----------------------------------------------------------------------------
Places == {"ready", "made", "start", "check", "waitpid", "waited", "scan", "clear",
           "answered", "any", "looked", "no children", "cleanup", "queueing", "queued",
           "unqueued", "unqueueing", "reaped", "list", "notifying"}

TableOK ==
  /\ js.slots \in Nat
  /\ Indices(js) \subseteq 0 .. js.slots - 1
  /\ \A i \in Indices(js) : js.jobs[i] \in Jobs /\ js.jobs[i].procs # <<>>
  /\ {js.firstj, js.lastj, js.njobs} \subseteq Nat
  /\ {js.current, js.previous} \subseteq {NO_JOB} \cup 0 .. js.slots - 1
  /\ js.saved \in [Pids \cup {0} -> Statuses \cup {0, NoStatus}]

\* The steps between which queue_sigchld is raised.
Queueing == {"waitpid", "notifying", "queued", "unqueueing", "reaped"}

\* The type invariant.  queue_sigchld is never more than 1, for the functions
\* that raise it do not nest, and 0 when they are done.
TypeOK ==
  /\ living \subseteq Pids
  /\ DOMAIN zombies \subseteq Pids \ living
  /\ \A pid \in DOMAIN zombies : zombies[pid] \in Statuses
  /\ pending \in BOOLEAN
  /\ TableOK
  /\ the_pipeline \in Seq(Processes)
  /\ last_asynchronous_pid \in Pids \cup {NO_PID}
  /\ c_totforked \in 0 .. MaxForks
  /\ sigchld \in Nat /\ handling \in BOOLEAN
  /\ queue_sigchld = IF pc \in Queueing THEN 1 ELSE 0
  /\ pc \in Places /\ task \in Tasks /\ pstat \in Answers
  /\ owed \in [Pids -> Statuses \cup {NoStatus, Due}]

\* js.j_firstj, js.j_lastj and js.j_njobs describe the jobs array exactly,
\* through deletions in any order, growth and compaction: stop_pipeline looks
\* for a free slot above j_lastj only and never overwrites a job.
IndicesExact ==
  /\ js.njobs = Cardinality(Indices(js))
  /\ IF Indices(js) = {} THEN js.firstj = 0 /\ js.lastj = 0
     ELSE js.firstj = Min(Indices(js)) /\ js.lastj = Max(Indices(js))

\* The current and the previous job exist, also after the array was compacted,
\* and there is a current job whenever a background job runs.
CurrentExists ==
  /\ {js.current, js.previous} \subseteq {NO_JOB} \cup Indices(js)
  /\ js.current = NO_JOB <=> js.previous = NO_JOB
  /\ Running(js) \cap Background(js) # {} => js.current # NO_JOB

RunningProcs == {pid \in Pids : \/ AliveAt(the_pipeline, pid) # {}
                                \/ find_live_job(js, pid) # NO_JOB}

\* The table and the kernel agree: a process the shell believes to run is a
\* child it has not waited for, every such child is in the table, once, and a
\* job is dead exactly when none of its processes runs.  So no child is reaped
\* unrecorded, not one that exits before its job exists either, and waitpid
\* cannot answer ECHILD while a job runs.
RunningIsChild ==
  /\ RunningProcs = living \cup DOMAIN zombies
  /\ \A i, k \in Indices(js), pid \in Pids :
       At(js.jobs[i].procs, pid) # {} /\ At(js.jobs[k].procs, pid) # {} => i = k
  /\ \A i \in Indices(js) : js.jobs[i].dead <=> ~AnyRunning(js.jobs[i].procs)

\* Where the status of a process that exited is to be found.
Recorded(pid, status) ==
  \/ pid \in DOMAIN zombies /\ zombies[pid] = status
  \/ \E k \in At(the_pipeline, pid) : the_pipeline[k].status = status
  \/ \E i \in Indices(js) : /\ find_last_pid(js.jobs[i]) = pid
                            /\ job_exit_status(js.jobs[i]) = status
  \/ js.saved[pid] = status

\* From the exit of a process that the script has had in $! to the next wait
\* without arguments, or the reuse of a pid of its job, its status is kept: in
\* the kernel, the pipeline, the table or the saved statuses, whatever deletes
\* its job in between.
StatusKept == \A pid \in Pids : owed[pid] \in Statuses => Recorded(pid, owed[pid])

\* When wait PID answers for such a process the answer is that status.
WaitAnswersOwed ==
  pc = "answered" /\ pstat.pid \in Pids /\ owed[pstat.pid] # NoStatus =>
    pstat.status = owed[pstat.pid]

LookingForChildren == handling \/ pc = "unqueueing"

\* A child that has exited is noticed: SIGCHLD is pending, or the handler or
\* cleanup_dead_jobs is in waitchld.  The exception is a child whose SIGCHLD
\* came while queue_sigchld was raised, and it is overlooked at most until some
\* waitchld goes on until waitpid finds nobody.
NoticedUnlessQueued ==
  zombies # <<>> => pending \/ LookingForChildren \/ unseen

----------------------------------------------------------------------------
\* The comment in wait_for_any_job where it begins to wait: "At this point, we
\* have no dead jobs in the jobs table.  Wait until we get one".  So wait -n
\* does not sleep while there is a dead job it has not reported.
WaitAnySleepsOnlyForNews ==
  (pc = "waitpid" /\ task.pid = ANY_PID /\ sigchld = 0 /\ zombies = <<>> /\ living # {})
    => Dead(js) \subseteq Notified(js)
=============================================================================
