-------------------------------- MODULE Jobs --------------------------------
(***************************************************************************)
(* The shell and its children: commands fork processes and put them in the *)
(* job table, children exit at any time, and their exits are recorded by   *)
(* waitchld, which runs in three places: in the SIGCHLD handler, which may *)
(* interrupt the shell between any two steps where the signal is not       *)
(* blocked; in wait_for, with SIGCHLD blocked; and at the end of           *)
(* cleanup_dead_jobs, for a SIGCHLD that arrived while queue_sigchld kept  *)
(* the handler away from the table.  A step of the shell that runs with    *)
(* SIGCHLD blocked is one action; the kernel is an external part.          *)
(*                                                                         *)
(* MaxForks bounds the number of processes.                                *)
(***************************************************************************)
EXTENDS JobTable

CONSTANT MaxForks

ASSUME MaxForksAssumption == MaxForks \in Nat

VARIABLES
  living,     \* the kernel: children that run
  zombies,    \* the kernel: exited children not waited for, and their statuses
  pending,    \* the kernel: SIGCHLD is pending
  js,         \* the job table
  the_pipeline,            \* processes forked and not in a job yet
  last_asynchronous_pid,   \* $!
  c_totforked,             \* processes so far
  sigchld,                 \* SIGCHLDs whose children waitchld has not looked for
  queue_sigchld,           \* the handler is to leave the table alone
  handling,   \* the shell is in waitchld, called by sigchld_handler
  pc,         \* where the shell is
  task,       \* what it is doing there
  pstat       \* what the wait builtin answers

kernel == <<living, zombies, pending>>
table == <<js, the_pipeline, last_asynchronous_pid, c_totforked>>
signals == <<sigchld, queue_sigchld, handling>>
vars == <<kernel, table, signals, pc, task, pstat>>

NO_PID == -1
ANY_PID == -1
NOT_FOUND == 127

Ops == {"none", "command", "pipeline", "wait", "wait all", "wait any", "jobs",
        "loop", "line"}

\* pid is the child waited for, os what cleanup_dead_jobs read from sigchld,
\* reaped whether waitchld has found a child.
Tasks == [op : Ops, async : BOOLEAN, pid : Pids \cup {0, ANY_PID},
          os : Nat, reaped : BOOLEAN]

Task(op, pid, async) ==
  [op |-> op, async |-> async, pid |-> pid, os |-> 0, reaped |-> FALSE]

NoTask == Task("none", 0, FALSE)

Answers == [pid : Pids \cup {0, ANY_PID}, status : Statuses \cup {0, NOT_FOUND, NoStatus}]
Answer(pid, status) == [pid |-> pid, status |-> status]
NoAnswer == Answer(0, NoStatus)

Init ==
  /\ living = {} /\ zombies = <<>> /\ pending = FALSE
  /\ js = InitialTable
  /\ the_pipeline = <<>> /\ last_asynchronous_pid = NO_PID /\ c_totforked = 0
  /\ sigchld = 0 /\ queue_sigchld = 0 /\ handling = FALSE
  /\ pc = "ready" /\ task = NoTask /\ pstat = NoAnswer

\* The shell itself runs, not its SIGCHLD handler.
Mainline(where) == pc = where /\ ~handling

\* Back to the script.
Done == pc' = "ready" /\ task' = NoTask

\* BLOCK_CHILD is in force between two steps only inside wait_for.
Blocked == pc \in {"check", "waitpid"}

(***************************************************************************)
(* The kernel                                                              *)
(***************************************************************************)
Exit(pid, status) ==
  /\ pid \in living
  /\ living' = living \ {pid}
  /\ zombies' = [p \in DOMAIN zombies \cup {pid} |->
                   IF p = pid THEN status ELSE zombies[p]]
  /\ pending' = TRUE
  /\ UNCHANGED <<table, signals, pc, task, pstat>>

Unused(pid) == pid \notin living \cup DOMAIN zombies

Fork(new) ==
  /\ \A pid \in new : Unused(pid)
  /\ c_totforked + Cardinality(new) <= MaxForks
  /\ c_totforked' = c_totforked + Cardinality(new)
  /\ living' = living \cup new
  /\ UNCHANGED <<zombies, pending>>

(***************************************************************************)
(* waitchld                                                                *)
(***************************************************************************)
\* WNOHANG is on whenever sigchld is not 0.
CountDown == sigchld' = IF sigchld > 0 THEN sigchld - 1 ELSE 0

\* One round of the loop: waitpid returns a child, which is in the pipeline
\* being built or in a job.
Reap(pid) ==
  /\ pid \in DOMAIN zombies
  /\ zombies' = Restrict(zombies, DOMAIN zombies \ {pid})
  /\ CountDown
  /\ the_pipeline' = IF AliveAt(the_pipeline, pid) = {} THEN the_pipeline
                     ELSE Exited(the_pipeline, pid, zombies[pid])
  /\ js' = IF AliveAt(the_pipeline, pid) = {} THEN RecordExit(js, pid, zombies[pid])
           ELSE js
  /\ UNCHANGED <<living, pending, last_asynchronous_pid, c_totforked, pstat>>

\* waitpid with WNOHANG returns 0, or -1 with ECHILD.
FindNobody ==
  /\ zombies = <<>>
  /\ CountDown
  /\ UNCHANGED <<kernel, table, pstat>>

(***************************************************************************)
(* The SIGCHLD handler                                                     *)
(***************************************************************************)
sigchld_handler ==
  /\ pending /\ ~handling /\ ~Blocked
  /\ pending' = FALSE
  /\ sigchld' = sigchld + 1
  /\ handling' = (queue_sigchld = 0)
  /\ UNCHANGED <<living, zombies, table, queue_sigchld, pc, task, pstat>>

\* Mutant of HandlerReaps: the handler flushes one child and returns.
HandlerReapsOne ==
  /\ handling
  /\ \E pid \in DOMAIN zombies : Reap(pid)
  /\ handling' = FALSE
  /\ UNCHANGED <<queue_sigchld, pc, task>>

HandlerReaps ==
  /\ handling
  /\ \E pid \in DOMAIN zombies : Reap(pid)
  /\ UNCHANGED <<queue_sigchld, handling, pc, task>>

HandlerReturns ==
  /\ handling
  /\ FindNobody
  /\ handling' = FALSE
  /\ UNCHANGED <<queue_sigchld, pc, task>>

Handler == sigchld_handler \/ HandlerReaps \/ HandlerReturns

(***************************************************************************)
(* Running commands                                                        *)
(***************************************************************************)
\* One process, started in the background or not.  SIGCHLD is blocked during
\* make_child and again during stop_pipeline, not between them.
MakeChild(pid, async) ==
  /\ Mainline("ready")
  /\ Fork({pid})
  /\ the_pipeline' = <<Child(pid)>>
  /\ js' = make_child(js, pid)
  /\ last_asynchronous_pid' = IF async THEN pid ELSE last_asynchronous_pid
  /\ pc' = "made"
  /\ task' = Task("command", pid, async)
  /\ UNCHANGED <<signals, pstat>>

StopPipeline ==
  /\ Mainline("made")
  /\ js' = stop_pipeline(js, the_pipeline, task.async, last_asynchronous_pid)
  /\ the_pipeline' = <<>>
  /\ IF task.async THEN Done ELSE pc' = "start" /\ UNCHANGED task
  /\ UNCHANGED <<kernel, last_asynchronous_pid, c_totforked, signals, pstat>>

\* execute_pipeline keeps SIGCHLD blocked until the pipeline is in the table,
\* or, in the foreground, until wait_for has returned.
Pipeline(first, last, async) ==
  /\ Mainline("ready")
  /\ first # last
  /\ Fork({first, last})
  /\ last_asynchronous_pid' = IF async THEN last ELSE last_asynchronous_pid
  /\ js' = stop_pipeline(make_child(make_child(js, first), last),
                         <<Child(first), Child(last)>>, async,
                         last_asynchronous_pid')
  /\ pc' = IF async THEN "ready" ELSE "check"
  /\ task' = IF async THEN NoTask ELSE Task("pipeline", last, async)
  /\ UNCHANGED <<the_pipeline, signals, pstat>>

(***************************************************************************)
(* wait_for.  The job of the child waited for is in the table, for its     *)
(* status is not known to waitchld's callers otherwise, and waitpid's      *)
(* ECHILD can only be the answer to ANY_PID: see RunningIsChild.           *)
(***************************************************************************)
BlockChild ==
  /\ Mainline("start")
  /\ pc' = "check"
  /\ UNCHANGED <<kernel, table, signals, task, pstat>>

WaitedJob == find_job(js, task.pid)

\* The child's job runs, or any child will do.
GoOnWaiting ==
  /\ Mainline("check")
  /\ task.pid # ANY_PID => WaitedJob \in Running(js)
  /\ queue_sigchld' = 1
  /\ pc' = "waitpid"
  /\ UNCHANGED <<kernel, table, sigchld, handling, task, pstat>>

ReturnFromWaitchld(nobody) ==
  /\ queue_sigchld' = 0
  /\ task' = [task EXCEPT !.reaped = FALSE]
  /\ pc' = CASE task.pid # ANY_PID -> "check"
             [] task.pid = ANY_PID /\ nobody -> "no children"
             [] OTHER -> "looked"
  /\ UNCHANGED handling

\* Mutant of WaitReaps: waitchld always goes on to the next child.
WaitReapsAll ==
  /\ Mainline("waitpid")
  /\ \E pid \in DOMAIN zombies : Reap(pid)
  /\ task' = [task EXCEPT !.reaped = TRUE]
  /\ UNCHANGED <<queue_sigchld, handling, pc>>

\* A blocking waitchld goes on for as long as sigchld is not 0.
WaitReaps ==
  /\ Mainline("waitpid")
  /\ \E pid \in DOMAIN zombies : Reap(pid)
  /\ IF sigchld' > 0
     THEN task' = [task EXCEPT !.reaped = TRUE] /\ UNCHANGED <<queue_sigchld, handling, pc>>
     ELSE ReturnFromWaitchld(FALSE)

\* waitpid blocks unless sigchld put WNOHANG on or there are no children.
WaitFindsNobody ==
  /\ Mainline("waitpid")
  /\ sigchld > 0 \/ living = {}
  /\ FindNobody
  /\ ReturnFromWaitchld(living = {} /\ ~task.reaped)

EndWaitFor ==
  /\ Mainline("check")
  /\ task.pid # ANY_PID
  /\ WaitedJob \in Dead(js)
  /\ js' = notify_and_cleanup(js)
  /\ IF task.op \in {"command", "pipeline"}
     THEN Done /\ UNCHANGED pstat
     ELSE /\ pc' = "waited"
          /\ pstat' = Answer(task.pid, job_exit_status(js.jobs[WaitedJob]))
          /\ UNCHANGED task
  /\ UNCHANGED <<kernel, the_pipeline, last_asynchronous_pid, c_totforked, signals>>

(***************************************************************************)
(* wait PID                                                                *)
(***************************************************************************)
WaitForPid(pid) ==
  /\ Mainline("ready")
  /\ IF find_job(js, pid) # NO_JOB
     THEN pc' = "start" /\ UNCHANGED pstat
     ELSE /\ pc' = "answered"
          /\ pstat' = Answer(pid, IF js.saved[pid] # NoStatus THEN js.saved[pid]
                                                              ELSE NOT_FOUND)
  /\ task' = Task("wait", pid, FALSE)
  /\ UNCHANGED <<kernel, table, signals>>

\* The end of wait_for_single_pid.
MarkWaited ==
  /\ Mainline("waited")
  /\ js' = Notify(js, {WaitedJob} \cap Dead(js))
  /\ pc' = IF task.op = "wait" THEN "answered" ELSE "scan"
  /\ UNCHANGED <<kernel, the_pipeline, last_asynchronous_pid, c_totforked, signals,
                 task, pstat>>

(***************************************************************************)
(* wait: for each running background job in turn, until there is none      *)
(***************************************************************************)
RunningInBackground == Running(js) \cap Background(js)

\* Before the first job these builtins change nothing.
Begin(op, where) ==
  /\ Mainline("ready")
  /\ js.slots > 0
  /\ pc' = where
  /\ task' = Task(op, 0, FALSE)
  /\ UNCHANGED <<kernel, signals, pstat>>

WaitForAll == Begin("wait all", "scan") /\ UNCHANGED table

WaitForNext ==
  /\ Mainline("scan")
  /\ RunningInBackground # {}
  /\ task' = [task EXCEPT !.pid = find_last_pid(js.jobs[Min(RunningInBackground)])]
  /\ pc' = "start"
  /\ UNCHANGED <<kernel, table, signals, pstat>>

NoneLeft ==
  /\ Mainline("scan")
  /\ RunningInBackground = {}
  /\ js' = mark_dead_jobs_as_notified(js, TRUE, last_asynchronous_pid)
  /\ pc' = "cleanup"
  /\ UNCHANGED <<kernel, the_pipeline, last_asynchronous_pid, c_totforked, signals,
                 task, pstat>>

BgpClear ==
  /\ Mainline("clear")
  /\ js' = [js EXCEPT !.saved = NoSaved]
  /\ pc' = "answered"
  /\ UNCHANGED <<kernel, the_pipeline, last_asynchronous_pid, c_totforked, signals,
                 task, pstat>>

\* The end of the wait builtin.
Return ==
  /\ Mainline("answered")
  /\ Done
  /\ pstat' = NoAnswer
  /\ UNCHANGED <<kernel, table, signals>>

(***************************************************************************)
(* wait -n                                                                 *)
(***************************************************************************)
\* return_job of wait_for_any_job
ReturnJob(among) ==
  LET i == Min(among)
  IN /\ pstat' = Answer(find_last_pid(js.jobs[i]), job_exit_status(js.jobs[i]))
     /\ js' = delete_jobs(notify_of_job_status(js), {i})
     /\ pc' = "answered"
     /\ UNCHANGED <<kernel, the_pipeline, last_asynchronous_pid, c_totforked, signals>>

WaitForAny ==
  /\ Mainline("ready")
  /\ task' = Task("wait any", ANY_PID, FALSE)
  /\ LET unnotified == Dead(js) \ Notified(js)
     IN IF unnotified # {} THEN ReturnJob(unnotified)
        ELSE pc' = "any" /\ UNCHANGED <<kernel, table, signals, pstat>>

\* There must be a background job to wait for.
LookForJob ==
  /\ Mainline("any")
  /\ IF RunningInBackground # {} THEN pc' = "start" /\ UNCHANGED pstat
     ELSE pc' = "answered" /\ pstat' = Answer(ANY_PID, NOT_FOUND)
  /\ UNCHANGED <<kernel, table, signals, task>>

MarkAllDead ==
  /\ Mainline("no children")
  /\ js' = mark_all_jobs_as_dead(js)
  /\ pc' = "looked"
  /\ UNCHANGED <<kernel, the_pipeline, last_asynchronous_pid, c_totforked, signals,
                 task, pstat>>

LookForDeadJob ==
  /\ Mainline("looked")
  /\ IF Dead(js) # {} THEN ReturnJob(Dead(js))
     ELSE pc' = "any" /\ UNCHANGED <<kernel, table, signals, pstat>>
  /\ UNCHANGED task

(***************************************************************************)
(* cleanup_dead_jobs where SIGCHLD is not blocked, between QUEUE_SIGCHLD   *)
(* and UNQUEUE_SIGCHLD                                                     *)
(***************************************************************************)
ReadSigchld ==
  /\ Mainline("cleanup")
  /\ task' = [task EXCEPT !.os = sigchld]
  /\ pc' = "queueing"
  /\ UNCHANGED <<kernel, table, signals, pstat>>

\* From here on the handler only counts.
QueueAndClean ==
  /\ Mainline("queueing")
  /\ queue_sigchld' = queue_sigchld + 1
  /\ js' = cleanup_dead_jobs(js)
  /\ pc' = "queued"
  /\ UNCHANGED <<kernel, the_pipeline, last_asynchronous_pid, c_totforked, sigchld,
                 handling, task, pstat>>

Unqueue ==
  /\ Mainline("queued")
  /\ queue_sigchld' = queue_sigchld - 1
  /\ pc' = "unqueued"
  /\ UNCHANGED <<kernel, table, sigchld, handling, task, pstat>>

AfterCleanup ==
  CASE task.op = "jobs" -> pc' = "list" /\ task' = [task EXCEPT !.os = 0]
    [] task.op = "wait all" -> pc' = "clear" /\ task' = [task EXCEPT !.os = 0]
    [] OTHER -> Done

TestSigchld ==
  /\ Mainline("unqueued")
  /\ IF task.os # sigchld
     THEN queue_sigchld' = 1 /\ pc' = "unqueueing" /\ UNCHANGED task
     ELSE AfterCleanup /\ UNCHANGED queue_sigchld
  /\ UNCHANGED <<kernel, table, sigchld, handling, pstat>>

UnqueueReaps ==
  /\ Mainline("unqueueing")
  /\ \E pid \in DOMAIN zombies : Reap(pid)
  /\ UNCHANGED <<queue_sigchld, handling, pc, task>>

UnqueueFindsNobody ==
  /\ Mainline("unqueueing")
  /\ FindNobody
  /\ pc' = "reaped"
  /\ UNCHANGED <<queue_sigchld, handling, task>>

EndUnqueue ==
  /\ Mainline("reaped")
  /\ queue_sigchld' = 0
  /\ AfterCleanup
  /\ UNCHANGED <<kernel, table, sigchld, handling, pstat>>

(***************************************************************************)
(* The builtin jobs, an iteration of a loop, and the next input line       *)
(***************************************************************************)
ListJobs == Begin("jobs", "cleanup") /\ UNCHANGED table

PrintJobs ==
  /\ Mainline("list")
  /\ js' = list_all_jobs(js)
  /\ Done
  /\ UNCHANGED <<kernel, the_pipeline, last_asynchronous_pid, c_totforked, signals,
                 pstat>>

\* REAP
ReapInLoop ==
  /\ Begin("loop", "cleanup")
  /\ js' = mark_dead_jobs_as_notified(js, FALSE, last_asynchronous_pid)
  /\ UNCHANGED <<the_pipeline, last_asynchronous_pid, c_totforked>>

\* notify_and_cleanup, called by shell_getc; notify_of_job_status raises
\* queue_sigchld and lowers it without a look at sigchld.
ReadLine ==
  /\ Mainline("ready")
  /\ js.slots > 0
  /\ queue_sigchld' = queue_sigchld + 1
  /\ js' = notify_of_job_status(js)
  /\ pc' = "notifying"
  /\ task' = Task("line", 0, FALSE)
  /\ UNCHANGED <<kernel, the_pipeline, last_asynchronous_pid, c_totforked, sigchld,
                 handling, pstat>>

\* Mutant of EndNotify: queue_sigchld stays raised.
EndNotifyQueued ==
  /\ Mainline("notifying")
  /\ pc' = "cleanup"
  /\ UNCHANGED <<kernel, table, signals, task, pstat>>

EndNotify ==
  /\ Mainline("notifying")
  /\ queue_sigchld' = queue_sigchld - 1
  /\ pc' = "cleanup"
  /\ UNCHANGED <<kernel, table, sigchld, handling, task, pstat>>

----------------------------------------------------------------------------
Execute ==
  \/ \E pid \in Pids, async \in BOOLEAN : MakeChild(pid, async)
  \/ \E first, last \in Pids, async \in BOOLEAN : Pipeline(first, last, async)
  \/ \E pid \in Pids : WaitForPid(pid)
  \/ WaitForAll \/ WaitForAny \/ ListJobs \/ ReapInLoop \/ ReadLine

WaitForStep == BlockChild \/ GoOnWaiting \/ WaitReaps \/ WaitFindsNobody \/ EndWaitFor
WaitStep == MarkWaited \/ WaitForNext \/ NoneLeft \/ BgpClear \/ Return
AnyStep == LookForJob \/ MarkAllDead \/ LookForDeadJob
CleanupStep == \/ ReadSigchld \/ QueueAndClean \/ Unqueue \/ TestSigchld
               \/ UnqueueReaps \/ UnqueueFindsNobody \/ EndUnqueue

\* The shell goes on with what it has begun.
Continue == \/ StopPipeline \/ WaitForStep \/ WaitStep \/ AnyStep \/ CleanupStep
            \/ PrintJobs \/ EndNotify

Kernel == \E pid \in Pids, status \in Statuses : Exit(pid, status)

Next == Execute \/ Continue \/ Handler \/ Kernel

\* Where Continue has a step.  waitpid sleeps while children run and none has
\* exited, unless sigchld put WNOHANG on.
CanContinue ==
  /\ ~handling
  /\ pc # "ready"
  /\ pc = "waitpid" => zombies # <<>> \/ sigchld > 0 \/ living = {}

CanHandle == handling \/ (pending /\ ~Blocked)

\* Weak fairness of Continue and of Handler, their enabling conditions written
\* out: the shell and its handler are scheduled.  Children need not exit and
\* the script need not go on.
Fairness ==
  /\ []<>~CanContinue \/ []<><<Continue>>_vars
  /\ []<>~CanHandle \/ []<><<Handler>>_vars

Spec == Init /\ [][Next]_vars /\ Fairness

WaitsFor(pid) == pc \in {"start", "check", "waitpid"} /\ task.pid = pid

JobGone(pid) ==
  LET i == find_job(js, pid)
  IN i # NO_JOB /\ \A k \in DOMAIN js.jobs[i].procs : js.jobs[i].procs[k].pid \notin living

\* wait_for returns when all the processes of the job have exited, whichever
\* of them, in whatever order, the handler or wait_for itself reaps.
WaitReturns == \A pid \in Pids : (WaitsFor(pid) /\ JobGone(pid)) ~> ~WaitsFor(pid)
=============================================================================
