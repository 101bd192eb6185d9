----------------------------- MODULE JobsProofs -----------------------------
(***************************************************************************)
(* What the functions of jobs.c do to the job table, for every set of pids *)
(* and statuses and every size of the table: its counters stay exact, no   *)
(* running process and no status that may be asked for gets lost; and from *)
(* that the safety properties of JobsHistory, for every number of forks.   *)
(* NeverOverlooked needs an invariant of its own; the others follow from   *)
(* JobsInv, whose part about the table alone is proved of each operation   *)
(* of JobTable first.                                                      *)
(***************************************************************************)
EXTENDS JobsHistory, NatLemmas, FiniteSetTheorems, TLAPS

(***************************************************************************)
(* Least and greatest elements                                             *)
(***************************************************************************)
LEMMA MinOfNat ==
  ASSUME NEW S, S \subseteq Nat, S # {}
  PROVE  /\ Min(S) \in S
         /\ \A x \in S : Min(S) <= x
         /\ \A m \in S : (\A x \in S : m <= x) => m = Min(S)
<1>1. \E m \in S : \A x \in S : m <= x
  BY LeastNat, Zenon
<1>2. Min(S) \in S /\ \A x \in S : Min(S) <= x
  BY <1>1, Zenon DEF Min
<1>3. ASSUME NEW m \in S, \A x \in S : m <= x
      PROVE  m = Min(S)
  <2>1. m \in Nat /\ Min(S) \in Nat
    BY <1>2
  <2>2. m <= Min(S) /\ Min(S) <= m
    BY <1>2, <1>3
  <2> QED
    BY <2>1, <2>2
<1> QED
  BY <1>2, <1>3

LEMMA MaxOfNat ==
  ASSUME NEW S, NEW n \in Nat, S \subseteq 0 .. n, S # {}
  PROVE  /\ Max(S) \in S
         /\ \A x \in S : Max(S) >= x
         /\ \A m \in S : (\A x \in S : m >= x) => m = Max(S)
<1> DEFINE below == {n - x : x \in S}
<1>0. \A x \in S : x \in Nat
  OBVIOUS
<1>1. below \subseteq Nat /\ below # {}
  <2>1. \A x \in S : n - x \in Nat
    OBVIOUS
  <2> QED
    BY <2>1
<1>2. PICK d \in below : \A e \in below : d <= e
  BY ONLY <1>1, LeastNat
<1>3. \E m \in S : \A x \in S : m >= x
  <2>1. PICK m \in S : d = n - m
    BY <1>2
  <2>2. \A x \in S : d <= n - x
    BY <1>2
  <2> QED
    BY <2>1, <2>2
<1>4. Max(S) \in S /\ \A x \in S : Max(S) >= x
  BY <1>3, Zenon DEF Max
<1>5. ASSUME NEW m \in S, \A x \in S : m >= x
      PROVE  m = Max(S)
  <2>1. m \in Nat /\ Max(S) \in Nat
    BY <1>0, <1>4
  <2>2. m >= Max(S) /\ Max(S) >= m
    BY <1>4, <1>5
  <2> QED
    BY <2>1, <2>2
<1> QED
  BY <1>4, <1>5

(***************************************************************************)
(* Tables                                                                  *)
(***************************************************************************)
Fields == {"slots", "jobs", "firstj", "lastj", "njobs", "current", "previous", "saved"}

Shape(jt) ==
  /\ DOMAIN jt = Fields
  /\ jt.slots \in Nat
  /\ Indices(jt) \subseteq 0 .. jt.slots - 1
  /\ \A i \in Indices(jt) : jt.jobs[i] \in Jobs /\ jt.jobs[i].procs # <<>>
  /\ jt.saved \in [Pids \cup {0} -> Statuses \cup {0, NoStatus}]

IndicesOK(jt) ==
  /\ jt.njobs = Cardinality(Indices(jt))
  /\ IF Indices(jt) = {} THEN jt.firstj = 0 /\ jt.lastj = 0
     ELSE jt.firstj = Min(Indices(jt)) /\ jt.lastj = Max(Indices(jt))

CurrentOK(jt) ==
  /\ {jt.current, jt.previous} \subseteq {NO_JOB} \cup Indices(jt)
  /\ jt.current = NO_JOB <=> jt.previous = NO_JOB
  /\ Running(jt) \cap Background(jt) # {} => jt.current # NO_JOB

\* A process that runs has a pid, and none twice.
ProcsOK(procs) ==
  /\ \A k \in DOMAIN procs : procs[k].running => procs[k].pid \in Pids
  /\ \A k, l \in DOMAIN procs : procs[k].pid = procs[l].pid /\ procs[k].pid # 0 => k = l

\* A job is dead when none of its processes runs, and no two have the same pid.
ContentsOK(jt) ==
  /\ \A i \in Indices(jt) : ProcsOK(jt.jobs[i].procs)
  /\ \A i \in Indices(jt) : jt.jobs[i].dead <=> ~AnyRunning(jt.jobs[i].procs)
  /\ \A i, k \in Indices(jt), pid \in Pids :
       At(jt.jobs[i].procs, pid) # {} /\ At(jt.jobs[k].procs, pid) # {} => i = k

TableInv(jt) == Shape(jt) /\ IndicesOK(jt) /\ CurrentOK(jt) /\ ContentsOK(jt)

Holds(jt, pid) == \E i \in Indices(jt) : At(jt.jobs[i].procs, pid) # {}

Alive(jt) == {pid \in Pids : \E i \in Indices(jt) : AliveAt(jt.jobs[i].procs, pid) # {}}

\* A job that has the process started last and in the background, which runs or
\* has exited with st.
Keeper(job, pid, st) ==
  /\ job.async
  /\ find_last_pid(job) = pid
  /\ find_last_proc(job).running \/ job_exit_status(job) = st

\* The status of pid, when it has exited, is st: nothing else can be found.
Kept(jt, pid, st) ==
  /\ \A i \in Indices(jt) : At(jt.jobs[i].procs, pid) # {} => Keeper(jt.jobs[i], pid, st)
  /\ Holds(jt, pid) \/ jt.saved[pid] = st

\* A change of the table that loses nothing.
Improves(t, u) ==
  /\ TableInv(u)
  /\ Alive(u) = Alive(t)
  /\ \A pid \in Pids : Holds(u, pid) => Holds(t, pid)
  /\ \A pid \in Pids : \A st : Kept(t, pid, st) => Kept(u, pid, st)

LEMMA ImprovesTransitive ==
  ASSUME NEW t, NEW u, NEW v, Improves(t, u), Improves(u, v)
  PROVE  Improves(t, v)
BY DEF Improves

\* The last process of a job is one of its processes.
LEMMA LastProcess ==
  ASSUME NEW job \in Jobs, job.procs # <<>>
  PROVE  /\ Len(job.procs) \in DOMAIN job.procs
         /\ DOMAIN job.procs = 1 .. Len(job.procs)
         /\ \A k \in DOMAIN job.procs : job.procs[k] \in Processes
         /\ find_last_proc(job) = job.procs[Len(job.procs)]
         /\ find_last_proc(job) \in Processes
         /\ find_last_pid(job) \in Pids \cup {0}
         /\ job_exit_status(job) \in Statuses \cup {0}
         /\ Len(job.procs) \in At(job.procs, find_last_pid(job))
<1>1. job.procs \in Seq(Processes) /\ Len(job.procs) \in Nat /\ Len(job.procs) # 0
  BY DEF Jobs
<1>2. /\ Len(job.procs) \in DOMAIN job.procs /\ DOMAIN job.procs = 1 .. Len(job.procs)
      /\ \A k \in DOMAIN job.procs : job.procs[k] \in Processes
  BY <1>1
<1>3. find_last_proc(job) = job.procs[Len(job.procs)] /\ find_last_proc(job) \in Processes
  BY <1>2 DEF find_last_proc
<1> QED
  BY <1>2, <1>3 DEF find_last_pid, job_exit_status, Processes, At

\* The indices form a finite set of natural numbers below slots.
LEMMA IndicesFinite ==
  ASSUME NEW jt, Shape(jt)
  PROVE  /\ Indices(jt) \subseteq Nat /\ IsFiniteSet(Indices(jt))
         /\ Cardinality(Indices(jt)) \in Nat
         /\ \A S \in SUBSET Indices(jt) : IsFiniteSet(S) /\ Cardinality(S) \in Nat
         /\ \A i \in Indices(jt) : i < jt.slots
         /\ \A i \in Indices(jt) : i # NO_JOB
         /\ Indices(jt) \subseteq 0 .. jt.slots
<1>1. Indices(jt) \subseteq 0 .. jt.slots - 1 /\ jt.slots \in Nat
  BY DEF Shape
<1>2. IsFiniteSet(0 .. jt.slots - 1)
  BY <1>1, FS_Interval
<1>3. IsFiniteSet(Indices(jt))
  BY <1>1, <1>2, FS_Subset
<1>4. \A S \in SUBSET Indices(jt) : IsFiniteSet(S) /\ Cardinality(S) \in Nat
  BY <1>3, FS_Subset, FS_CardinalityType
<1> QED
  BY <1>1, <1>3, <1>4 DEF NO_JOB

(***************************************************************************)
(* reset_current                                                           *)
(***************************************************************************)
LEMMA ResetCurrent ==
  ASSUME NEW jt, Shape(jt)
  PROVE  LET u == reset_current(jt)
         IN  /\ DOMAIN u = Fields /\ u.slots = jt.slots /\ u.jobs = jt.jobs
             /\ u.firstj = jt.firstj /\ u.lastj = jt.lastj /\ u.njobs = jt.njobs
             /\ u.saved = jt.saved
             /\ CurrentOK(u)
<1> DEFINE u == reset_current(jt)
           newest == Max(Running(jt))
           older == {i \in Running(jt) : i < newest}
<1>1. DOMAIN jt = Fields /\ Running(jt) \subseteq Indices(jt) /\ Indices(jt) \subseteq 0 .. jt.slots
  BY IndicesFinite DEF Shape, Running
<1>2. CASE Running(jt) = {}
  <2>1. u = [jt EXCEPT !.current = NO_JOB, !.previous = NO_JOB]
    BY <1>2 DEF reset_current
  <2> QED
    BY <1>1, <1>2, <2>1 DEF CurrentOK, Running, Indices, Fields
<1>3. CASE Running(jt) # {}
  <2>1. newest \in Running(jt)
    BY <1>1, <1>3, MaxOfNat DEF Shape
  <2>2. older # {} => Max(older) \in Running(jt)
    <3>1. older \subseteq 0 .. jt.slots /\ jt.slots \in Nat /\ older \subseteq Running(jt)
      BY <1>1 DEF Shape
    <3> QED
      BY <3>1, MaxOfNat
  <2>3. PICK p \in Running(jt) : u = [jt EXCEPT !.current = newest, !.previous = p]
    <3>1. u = [jt EXCEPT !.current = newest, !.previous = IF older = {} THEN newest ELSE Max(older)]
      BY <1>3 DEF reset_current
    <3> QED
      BY <2>1, <2>2, <3>1
  <2>4. newest # NO_JOB /\ p # NO_JOB /\ newest \in Indices(jt) /\ p \in Indices(jt)
    BY <1>1, <2>1, <2>3, IndicesFinite
  <2> HIDE DEF u, newest, older
  <2>5. u.current = newest /\ u.previous = p /\ u.jobs = jt.jobs
    BY <1>1, <2>3 DEF Fields
  <2> QED
    BY <1>1, <2>3, <2>4, <2>5 DEF CurrentOK, Indices, Fields, u
<1> QED
  BY <1>2, <1>3

(***************************************************************************)
(* Deleting jobs                                                           *)
(***************************************************************************)
\* What two tables have in common that differ in their indices only.
SameJobs(t, u) ==
  /\ DOMAIN u = Fields
  /\ u.slots = t.slots /\ u.jobs = t.jobs /\ u.saved = t.saved

\* The first and last index of jobs some of which are gone are found again.
LEMMA ResetIndices ==
  ASSUME NEW jt, Shape(jt), jt.njobs = Cardinality(Indices(jt)),
         NEW before \in SUBSET Nat, Indices(jt) \subseteq before, before \subseteq 0 .. jt.slots,
         before # {} => jt.firstj = Min(before) /\ jt.lastj = Max(before)
  PROVE  LET u == reset_job_indices(jt)
         IN  /\ SameJobs(jt, u) /\ IndicesOK(u)
             /\ u.current = jt.current /\ u.previous = jt.previous
<1> DEFINE used == Indices(jt)
           u == reset_job_indices(jt)
<1>1. DOMAIN jt = Fields /\ jt.slots \in Nat /\ used \subseteq Nat /\ used \subseteq 0 .. jt.slots
  BY IndicesFinite DEF Shape
<1>2. CASE used = {}
  <2>1. u = [jt EXCEPT !.firstj = 0, !.lastj = 0]
    BY <1>2 DEF reset_job_indices
  <2> HIDE DEF u
  <2>2. /\ SameJobs(jt, u) /\ u.firstj = 0 /\ u.lastj = 0 /\ u.njobs = jt.njobs
        /\ u.current = jt.current /\ u.previous = jt.previous
    BY <1>1, <2>1 DEF SameJobs, Fields
  <2>3. Indices(u) = Indices(jt)
    BY <2>2 DEF SameJobs, Indices
  <2> QED
    BY <1>2, <2>2, <2>3 DEF IndicesOK, u
<1>3. CASE used # {}
  <2> DEFINE first == IF jt.firstj \in used THEN jt.firstj ELSE NextIndex(used, jt.firstj)
             last == IF jt.lastj \in used THEN jt.lastj ELSE PreviousIndex(used, jt.lastj)
  <2>1. u = [jt EXCEPT !.firstj = first, !.lastj = last]
    BY <1>3 DEF reset_job_indices
  <2>2. /\ jt.firstj \in before /\ \A x \in before : jt.firstj <= x
        /\ jt.lastj \in before /\ \A x \in before : jt.lastj >= x
    <3>1. /\ before \subseteq Nat /\ before # {} /\ before \subseteq 0 .. jt.slots
          /\ jt.firstj = Min(before) /\ jt.lastj = Max(before)
      BY <1>3
    <3>2. Min(before) \in before /\ \A x \in before : Min(before) <= x
      BY ONLY <3>1, MinOfNat
    <3>3. Max(before) \in before /\ \A x \in before : Max(before) >= x
      BY ONLY <1>1, <3>1, MaxOfNat
    <3> QED
      BY <3>1, <3>2, <3>3
  <2>3. first = Min(used)
    <3>1. CASE jt.firstj \in used
      BY <1>1, <1>3, <2>2, <3>1, MinOfNat
    <3>2. CASE jt.firstj \notin used
      <4>1. {k \in used : k > jt.firstj} = used
        <5>1. \A k \in used : k \in Nat /\ jt.firstj \in Nat /\ jt.firstj <= k /\ k # jt.firstj
          BY <1>1, <2>2, <3>2
        <5> QED
          BY <5>1
      <4> QED
        BY <1>3, <3>2, <4>1 DEF NextIndex
    <3> QED
      BY <3>1, <3>2
  <2>4. last = Max(used)
    <3>1. CASE jt.lastj \in used
      BY <1>1, <1>3, <2>2, <3>1, MaxOfNat
    <3>2. CASE jt.lastj \notin used
      <4>1. {k \in used : k < jt.lastj} = used
        <5>1. \A k \in used : k \in Nat /\ jt.lastj \in Nat /\ jt.lastj >= k /\ k # jt.lastj
          BY <1>1, <2>2, <3>2
        <5> QED
          BY <5>1
      <4> QED
        BY <1>3, <3>2, <4>1 DEF PreviousIndex
    <3> QED
      BY <3>1, <3>2
  <2> HIDE DEF u, first, last
  <2>5. /\ SameJobs(jt, u) /\ u.firstj = first /\ u.lastj = last /\ u.njobs = jt.njobs
        /\ u.current = jt.current /\ u.previous = jt.previous
    BY <1>1, <2>1 DEF SameJobs, Fields
  <2>6. Indices(u) = used
    BY <2>5 DEF SameJobs, Indices
  <2> HIDE DEF used
  <2> QED
    BY <1>3, <2>3, <2>4, <2>5, <2>6 DEF IndicesOK, u, used
<1> QED
  BY <1>2, <1>3

\* Tables with the same jobs have the same contents.
LEMMA SameContents ==
  ASSUME NEW t, NEW u, Indices(u) = Indices(t), u.jobs = t.jobs
  PROVE  /\ ContentsOK(t) <=> ContentsOK(u)
         /\ Alive(u) = Alive(t)
         /\ \A pid : Holds(u, pid) <=> Holds(t, pid)
         /\ Running(u) = Running(t) /\ Background(u) = Background(t) /\ Dead(u) = Dead(t)
BY DEF ContentsOK, Alive, Holds, Running, Background, Dead

LEMMA CardinalityLeft ==
  ASSUME NEW S, NEW T, IsFiniteSet(S), S \cap T = T
  PROVE  Cardinality(S \ T) = Cardinality(S) - Cardinality(T)
BY FS_Difference

\* delete_job of the jobs that are gone, with what is saved of them.
LEMMA DeletedTable ==
  ASSUME NEW jt, TableInv(jt), NEW gone \in SUBSET Indices(jt),
         NEW saved \in [Pids \cup {0} -> Statuses \cup {0, NoStatus}]
  PROVE  LET u == Deleted(jt, gone, saved)
         IN  /\ TableInv(u)
             /\ u.slots = jt.slots
             /\ Indices(u) = Indices(jt) \ gone
             /\ \A i \in Indices(u) : u.jobs[i] = jt.jobs[i]
             /\ u.saved = saved
<1> DEFINE cut == [jt EXCEPT !.jobs = Restrict(@, Indices(jt) \ gone),
                             !.njobs = @ - Cardinality(gone),
                             !.saved = saved]
           left == reset_job_indices(cut)
           u == Deleted(jt, gone, saved)
<1>1. Shape(jt) /\ IndicesOK(jt) /\ CurrentOK(jt) /\ ContentsOK(jt) /\ DOMAIN jt = Fields
  BY DEF TableInv, Shape
<1>2. /\ DOMAIN cut = Fields /\ cut.slots = jt.slots /\ cut.saved = saved
      /\ cut.njobs = jt.njobs - Cardinality(gone)
      /\ cut.firstj = jt.firstj /\ cut.lastj = jt.lastj
      /\ cut.current = jt.current /\ cut.previous = jt.previous
      /\ cut.jobs = Restrict(jt.jobs, Indices(jt) \ gone)
  BY <1>1 DEF Fields
<1> HIDE DEF cut
<1>3. Indices(cut) = Indices(jt) \ gone /\ \A i \in Indices(cut) : cut.jobs[i] = jt.jobs[i]
  BY <1>2 DEF Indices, Restrict
<1>4. Shape(cut)
  BY <1>1, <1>2, <1>3 DEF Shape
<1>5. cut.njobs = Cardinality(Indices(cut))
  <2>1. /\ IsFiniteSet(Indices(jt)) /\ Indices(jt) \cap gone = gone
        /\ jt.njobs = Cardinality(Indices(jt))
    BY <1>1, IndicesFinite DEF IndicesOK
  <2>2. Cardinality(Indices(jt) \ gone) = Cardinality(Indices(jt)) - Cardinality(gone)
    BY <2>1, CardinalityLeft, Zenon
  <2> QED
    BY <1>2, <1>3, <2>1, <2>2
<1>6. /\ SameJobs(cut, left) /\ IndicesOK(left)
      /\ left.current = jt.current /\ left.previous = jt.previous
  <2>1. Indices(jt) \in SUBSET Nat /\ Indices(jt) \subseteq 0 .. cut.slots
    BY <1>1, <1>2, IndicesFinite
  <2>2. Indices(jt) # {} => cut.firstj = Min(Indices(jt)) /\ cut.lastj = Max(Indices(jt))
    BY <1>1, <1>2 DEF IndicesOK
  <2> QED
    BY <1>2, <1>3, <1>4, <1>5, <2>1, <2>2, ResetIndices
<1> HIDE DEF left
<1>7. /\ Indices(left) = Indices(cut) /\ left.jobs = cut.jobs /\ left.saved = saved
      /\ left.slots = jt.slots /\ DOMAIN left = Fields
  BY <1>2, <1>6 DEF SameJobs, Indices
<1>8. Shape(left)
  BY <1>2, <1>4, <1>7 DEF Shape
<1>9. ContentsOK(left)
  BY <1>1, <1>3, <1>7 DEF ContentsOK
<1>10. CASE {jt.current, jt.previous} \cap gone = {}
  <2>1. u = left
    BY <1>10 DEF Deleted, left, cut
  <2>2. CurrentOK(left)
    <3>1. Running(left) \cap Background(left) \subseteq Running(jt) \cap Background(jt)
      BY <1>3, <1>7 DEF Running, Background
    <3> QED
      BY <1>1, <1>3, <1>6, <1>7, <1>10, <3>1 DEF CurrentOK
  <2> QED
    BY <1>3, <1>6, <1>7, <1>8, <1>9, <2>1, <2>2 DEF TableInv
<1>11. CASE {jt.current, jt.previous} \cap gone # {}
  <2>1. u = reset_current(left)
    BY <1>11 DEF Deleted, left, cut
  <2> HIDE DEF u
  <2>2. /\ SameJobs(left, u) /\ u.firstj = left.firstj /\ u.lastj = left.lastj
        /\ u.njobs = left.njobs /\ CurrentOK(u)
    BY <1>8, <2>1, ResetCurrent DEF SameJobs
  <2>3. Indices(u) = Indices(left) /\ u.jobs = left.jobs
    BY <2>2 DEF SameJobs, Indices
  <2>4. Shape(u) /\ IndicesOK(u) /\ ContentsOK(u)
    BY <1>6, <1>8, <1>9, <2>2, <2>3, SameContents DEF Shape, IndicesOK, SameJobs
  <2> QED
    BY <1>3, <1>7, <2>2, <2>3, <2>4 DEF TableInv, SameJobs, u
<1> QED
  BY <1>10, <1>11

\* bgp_add for the jobs that are gone saves statuses.
LEMMA SavedType ==
  ASSUME NEW jt, Shape(jt), NEW gone \in SUBSET Indices(jt)
  PROVE  /\ Saved(jt, gone) \in [Pids \cup {0} -> Statuses \cup {0, NoStatus}]
         /\ \A pid \in Pids \cup {0} :
              \/ /\ Saved(jt, gone)[pid] = jt.saved[pid]
                 /\ \A i \in gone \cap Background(jt) : find_last_pid(jt.jobs[i]) # pid
              \/ \E i \in gone \cap Background(jt) :
                   /\ find_last_pid(jt.jobs[i]) = pid
                   /\ Saved(jt, gone)[pid] = job_exit_status(jt.jobs[i])
<1> DEFINE From(pid) == {i \in gone \cap Background(jt) : find_last_pid(jt.jobs[i]) = pid}
<1>1. /\ jt.saved \in [Pids \cup {0} -> Statuses \cup {0, NoStatus}]
      /\ jt.slots \in Nat /\ Indices(jt) \subseteq 0 .. jt.slots
  BY IndicesFinite DEF Shape
<1>2. Saved(jt, gone) = [pid \in Pids \cup {0} |->
                           IF From(pid) = {} THEN jt.saved[pid]
                           ELSE job_exit_status(jt.jobs[Max(From(pid))])]
  BY <1>1 DEF Saved
<1>3. ASSUME NEW pid \in Pids \cup {0}, From(pid) # {}
      PROVE  \E i \in gone \cap Background(jt) :
               /\ i = Max(From(pid)) /\ find_last_pid(jt.jobs[i]) = pid
               /\ job_exit_status(jt.jobs[i]) \in Statuses \cup {0}
  <2>1. From(pid) \subseteq 0 .. jt.slots
    BY <1>1
  <2>2. PICK i \in From(pid) : i = Max(From(pid))
    BY ONLY <1>1, <1>3, <2>1, MaxOfNat
  <2>3. jt.jobs[i] \in Jobs /\ jt.jobs[i].procs # <<>>
    BY <2>2 DEF Shape
  <2> QED
    BY <2>2, <2>3, LastProcess
<1> HIDE DEF From
<1>4. ASSUME NEW pid \in Pids \cup {0}, From(pid) = {}
      PROVE  \A i \in gone \cap Background(jt) : find_last_pid(jt.jobs[i]) # pid
  BY <1>4 DEF From
<1>5. ASSUME NEW pid \in Pids \cup {0}
      PROVE  /\ Saved(jt, gone)[pid] \in Statuses \cup {0, NoStatus}
             /\ \/ /\ Saved(jt, gone)[pid] = jt.saved[pid]
                   /\ \A i \in gone \cap Background(jt) : find_last_pid(jt.jobs[i]) # pid
                \/ \E i \in gone \cap Background(jt) :
                     /\ find_last_pid(jt.jobs[i]) = pid
                     /\ Saved(jt, gone)[pid] = job_exit_status(jt.jobs[i])
  <2>1. Saved(jt, gone)[pid] = IF From(pid) = {} THEN jt.saved[pid]
                               ELSE job_exit_status(jt.jobs[Max(From(pid))])
    BY <1>2
  <2>2. CASE From(pid) = {}
    BY <1>1, <1>4, <2>1, <2>2
  <2>3. CASE From(pid) # {}
    <3>1. PICK i \in gone \cap Background(jt) :
            /\ i = Max(From(pid)) /\ find_last_pid(jt.jobs[i]) = pid
            /\ job_exit_status(jt.jobs[i]) \in Statuses \cup {0}
      BY <1>3, <2>3
    <3> QED
      BY <2>1, <2>3, <3>1
  <2> QED
    BY <2>2, <2>3
<1>6. DOMAIN Saved(jt, gone) = Pids \cup {0} /\ Saved(jt, gone) = [pid \in Pids \cup {0} |-> Saved(jt, gone)[pid]]
  BY <1>2
<1> QED
  BY <1>5, <1>6

\* Deleting jobs that are dead, in the way bgp_add remembers them, loses nothing.
LEMMA DeleteImproves ==
  ASSUME NEW jt, TableInv(jt), NEW gone \in SUBSET Dead(jt)
  PROVE  LET u == delete_jobs(jt, gone)
         IN  /\ Improves(jt, u)
             /\ u.slots = jt.slots
             /\ Indices(u) = Indices(jt) \ gone
             /\ \A i \in Indices(u) : u.jobs[i] = jt.jobs[i]
<1>1. gone \in SUBSET Indices(jt)
  BY DEF Dead
<1>2. Shape(jt) /\ ContentsOK(jt)
  BY DEF TableInv
<1>3. PICK u : u = delete_jobs(jt, gone)
  OBVIOUS
<1>4. /\ TableInv(u) /\ u.slots = jt.slots /\ Indices(u) = Indices(jt) \ gone
      /\ \A i \in Indices(u) : u.jobs[i] = jt.jobs[i]
      /\ u.saved = Saved(jt, gone)
  <2>1. Saved(jt, gone) \in [Pids \cup {0} -> Statuses \cup {0, NoStatus}]
    BY <1>1, <1>2, SavedType
  <2> QED
    BY <1>1, <1>3, <2>1, DeletedTable DEF delete_jobs
<1>5. \A i \in gone : jt.jobs[i].dead /\ \A k \in DOMAIN jt.jobs[i].procs : ~jt.jobs[i].procs[k].running
  BY <1>1, <1>2 DEF Dead, ContentsOK, AnyRunning
<1>6. Alive(u) = Alive(jt)
  <2>1. \A pid \in Pids : \A i \in gone : AliveAt(jt.jobs[i].procs, pid) = {}
    BY <1>5 DEF AliveAt, At
  <2> QED
    BY <1>4, <2>1 DEF Alive
<1>7. ASSUME NEW pid, Holds(u, pid)
      PROVE  Holds(jt, pid)
  BY <1>4, <1>7 DEF Holds
<1>8. ASSUME NEW pid \in Pids, NEW st, Kept(jt, pid, st)
      PROVE  Kept(u, pid, st)
  <2>1. \A i \in Indices(u) : At(u.jobs[i].procs, pid) # {} => Keeper(u.jobs[i], pid, st)
    BY <1>4, <1>8 DEF Kept
  <2>2. ASSUME NEW i \in gone, At(jt.jobs[i].procs, pid) # {}
        PROVE  /\ find_last_pid(jt.jobs[i]) = pid /\ i \in Background(jt)
               /\ job_exit_status(jt.jobs[i]) = st
    <3>1. Keeper(jt.jobs[i], pid, st) /\ jt.jobs[i] \in Jobs /\ jt.jobs[i].procs # <<>>
      BY <1>1, <1>2, <1>8, <2>2 DEF Kept, Shape
    <3>2. ~find_last_proc(jt.jobs[i]).running
      BY <1>5, <3>1, LastProcess
    <3> QED
      BY <1>1, <3>1, <3>2 DEF Keeper, Background
  <2>3. ASSUME NEW i \in gone, find_last_pid(jt.jobs[i]) = pid
        PROVE  At(jt.jobs[i].procs, pid) # {}
    <3>1. jt.jobs[i] \in Jobs /\ jt.jobs[i].procs # <<>>
      BY <1>1, <1>2 DEF Shape
    <3> QED
      BY <2>3, <3>1, LastProcess
  <2>4. CASE \E i \in gone : At(jt.jobs[i].procs, pid) # {}
    <3>1. \E i \in gone \cap Background(jt) :
            /\ find_last_pid(jt.jobs[i]) = pid
            /\ u.saved[pid] = job_exit_status(jt.jobs[i])
      BY <1>1, <1>2, <1>4, <2>2, <2>4, SavedType
    <3>2. u.saved[pid] = st
      BY <2>2, <2>3, <3>1
    <3> QED
      BY <2>1, <3>2 DEF Kept
  <2>5. CASE \A i \in gone : At(jt.jobs[i].procs, pid) = {}
    <3>1. u.saved[pid] = jt.saved[pid]
      <4>1. \A i \in gone \cap Background(jt) : find_last_pid(jt.jobs[i]) # pid
        BY <2>3, <2>5
      <4>2. \/ Saved(jt, gone)[pid] = jt.saved[pid]
            \/ \E i \in gone \cap Background(jt) : find_last_pid(jt.jobs[i]) = pid
        BY <1>1, <1>2, <1>8, SavedType
      <4> QED
        BY <1>4, <4>1, <4>2
    <3>2. Holds(jt, pid) => Holds(u, pid)
      BY <1>4, <2>5 DEF Holds
    <3> QED
      BY <1>8, <2>1, <3>1, <3>2 DEF Kept
  <2> QED
    BY <2>4, <2>5
<1> QED
  BY <1>3, <1>4, <1>6, <1>7, <1>8 DEF Improves

(***************************************************************************)
(* Notification                                                            *)
(***************************************************************************)
\* Jobs that differ in what the user was told only.
SameButTold(job, new) ==
  new.procs = job.procs /\ new.dead = job.dead /\ new.async = job.async

LEMMA TellingImproves ==
  ASSUME NEW t, TableInv(t), NEW u, DOMAIN u = Fields,
         \A f \in Fields \ {"jobs"} : u[f] = t[f],
         Indices(u) = Indices(t),
         \A i \in Indices(t) : u.jobs[i] \in Jobs /\ SameButTold(t.jobs[i], u.jobs[i])
  PROVE  Improves(t, u)
<1>1. Shape(t) /\ IndicesOK(t) /\ CurrentOK(t) /\ ContentsOK(t)
  BY DEF TableInv
<1>2. /\ u.slots = t.slots /\ u.saved = t.saved /\ u.njobs = t.njobs
      /\ u.firstj = t.firstj /\ u.lastj = t.lastj
      /\ u.current = t.current /\ u.previous = t.previous
  BY DEF Fields
<1>3. Shape(u) /\ IndicesOK(u)
  BY <1>1, <1>2 DEF Shape, IndicesOK, SameButTold
<1>4. Running(u) = Running(t) /\ Background(u) = Background(t)
  BY DEF Running, Background, SameButTold
<1>5. CurrentOK(u) /\ ContentsOK(u)
  BY <1>1, <1>2, <1>4 DEF CurrentOK, ContentsOK, SameButTold
<1>6. Alive(u) = Alive(t) /\ \A pid : Holds(u, pid) <=> Holds(t, pid)
  BY DEF Alive, Holds, SameButTold
<1>7. ASSUME NEW pid \in Pids, NEW st, Kept(t, pid, st)
      PROVE  Kept(u, pid, st)
  <2>1. \A i \in Indices(t) : Keeper(t.jobs[i], pid, st) <=> Keeper(u.jobs[i], pid, st)
    BY DEF SameButTold, Keeper, find_last_pid, find_last_proc, job_exit_status
  <2> QED
    BY <1>2, <1>6, <1>7, <2>1 DEF Kept, SameButTold
<1> QED
  BY <1>3, <1>5, <1>6, <1>7 DEF Improves, TableInv

LEMMA NotifyImproves ==
  ASSUME NEW jt, TableInv(jt), NEW told
  PROVE  LET u == Notify(jt, told)
         IN  /\ Improves(jt, u)
             /\ u.slots = jt.slots /\ Indices(u) = Indices(jt)
             /\ \A i \in Indices(jt) : SameButTold(jt.jobs[i], u.jobs[i])
<1>1. Shape(jt) /\ IndicesOK(jt) /\ CurrentOK(jt) /\ ContentsOK(jt) /\ DOMAIN jt = Fields
  BY DEF TableInv, Shape
<1>2. PICK u : u = Notify(jt, told)
  OBVIOUS
<1>3. /\ DOMAIN u = Fields /\ u.slots = jt.slots /\ u.saved = jt.saved /\ u.njobs = jt.njobs
      /\ u.firstj = jt.firstj /\ u.lastj = jt.lastj
      /\ u.current = jt.current /\ u.previous = jt.previous
      /\ u.jobs = [i \in Indices(jt) |-> IF i \in told THEN [jt.jobs[i] EXCEPT !.notified = TRUE]
                                         ELSE jt.jobs[i]]
  BY <1>1, <1>2 DEF Notify, Fields, Indices
<1>4. Indices(u) = Indices(jt)
  BY <1>3 DEF Indices
<1>5. ASSUME NEW i \in Indices(jt)
      PROVE  u.jobs[i] \in Jobs /\ SameButTold(jt.jobs[i], u.jobs[i])
  <2>1. PICK job \in Jobs : job = jt.jobs[i]
    BY <1>1, <1>5 DEF Shape
  <2>2. u.jobs[i] = IF i \in told THEN [job EXCEPT !.notified = TRUE] ELSE job
    BY <1>3, <1>5, <2>1
  <2>3. CASE i \in told
    BY <2>1, <2>2, <2>3 DEF Jobs, SameButTold
  <2>4. CASE i \notin told
    BY <2>1, <2>2, <2>4 DEF SameButTold
  <2> QED
    BY <2>3, <2>4
<1>6. \A f \in Fields \ {"jobs"} : u[f] = jt[f]
  BY <1>3 DEF Fields
<1>7. Improves(jt, u)
  BY <1>3, <1>4, <1>5, <1>6, TellingImproves
<1> QED
  BY <1>2, <1>3, <1>4, <1>5, <1>7

\* The compositions of the two.
LEMMA CleanupImproves ==
  ASSUME NEW jt, TableInv(jt)
  PROVE  /\ Improves(jt, cleanup_dead_jobs(jt)) /\ cleanup_dead_jobs(jt).slots = jt.slots
         /\ Indices(cleanup_dead_jobs(jt)) \subseteq Indices(jt)
<1>1. Dead(jt) \cap Notified(jt) \in SUBSET Dead(jt)
  OBVIOUS
<1> QED
  BY <1>1, DeleteImproves DEF cleanup_dead_jobs

LEMMA NotifiedImproves ==
  ASSUME NEW jt, TableInv(jt)
  PROVE  /\ Improves(jt, notify_of_job_status(jt))
         /\ \A force, pid : Improves(jt, mark_dead_jobs_as_notified(jt, force, pid))
                            /\ mark_dead_jobs_as_notified(jt, force, pid).slots = jt.slots
         /\ Improves(jt, list_all_jobs(jt))
         /\ Improves(jt, notify_and_cleanup(jt))
         /\ \A pid : Improves(jt, reap_dead_jobs(jt, pid))
<1>1. \A told : Improves(jt, Notify(jt, told)) /\ Notify(jt, told).slots = jt.slots
  BY NotifyImproves
<1>2. /\ Improves(jt, notify_of_job_status(jt)) /\ Improves(jt, list_all_jobs(jt))
  BY <1>1 DEF notify_of_job_status, list_all_jobs
<1>3. ASSUME NEW force, NEW pid
      PROVE  /\ Improves(jt, mark_dead_jobs_as_notified(jt, force, pid))
             /\ mark_dead_jobs_as_notified(jt, force, pid).slots = jt.slots
  <2>1. \E told : mark_dead_jobs_as_notified(jt, force, pid) = Notify(jt, told)
    BY DEF mark_dead_jobs_as_notified
  <2> QED
    BY <1>1, <2>1
<1>4. ASSUME NEW u, Improves(jt, u)
      PROVE  Improves(jt, cleanup_dead_jobs(u))
  BY <1>4, CleanupImproves, ImprovesTransitive DEF Improves
<1> QED
  BY <1>2, <1>3, <1>4 DEF notify_and_cleanup, reap_dead_jobs

(***************************************************************************)
(* Compaction                                                              *)
(***************************************************************************)
\* The number of smaller elements is an isomorphism of a finite set of natural
\* numbers onto the numbers below its cardinality.
LEMMA RanksInOrder ==
  ASSUME NEW S \in SUBSET Nat, IsFiniteSet(S),
         NEW place, place = [i \in S |-> Cardinality({k \in S : k < i})]
  PROVE  /\ Cardinality(S) \in Nat
         /\ \A i \in S : place[i] \in 0 .. Cardinality(S) - 1
         /\ \A i, k \in S : place[i] = place[k] => i = k
         /\ \A to \in 0 .. Cardinality(S) - 1 : \E i \in S : place[i] = to
<1> DEFINE Below(i) == {k \in S : k < i}
           n == Cardinality(S)
<1>1. n \in Nat
  BY FS_CardinalityType
<1>2. ASSUME NEW i \in S
      PROVE  /\ IsFiniteSet(Below(i)) /\ Below(i) \in SUBSET S
             /\ place[i] = Cardinality(Below(i))
             /\ place[i] \in 0 .. n - 1
  <2>1. Below(i) \in SUBSET S
    OBVIOUS
  <2>2. /\ IsFiniteSet(Below(i)) /\ Cardinality(Below(i)) <= n
        /\ n = Cardinality(Below(i)) => S = Below(i)
    BY <2>1, FS_Subset
  <2>3. Cardinality(Below(i)) \in Nat
    BY <2>2, FS_CardinalityType
  <2>4. S # Below(i)
    BY <1>2
  <2> QED
    BY <1>1, <2>1, <2>2, <2>3, <2>4
<1>3. ASSUME NEW i \in S, NEW k \in S, i < k
      PROVE  place[i] # place[k]
  <2>1. Below(i) \in SUBSET Below(k) /\ i \in Below(k) /\ i \notin Below(i)
    <3>1. i \in Nat /\ k \in Nat /\ \A x \in S : x \in Nat
      OBVIOUS
    <3>2. \A x \in S : x < i => x < k
      BY <1>3, <3>1
    <3>3. \A x \in Below(i) : x \in Below(k)
      BY <3>2
    <3>4. i \in Below(k) /\ i \notin Below(i)
      BY <1>3, <3>1
    <3> HIDE DEF Below
    <3> QED
      BY <3>3, <3>4
  <2> HIDE DEF Below
  <2>2. Cardinality(Below(k)) = Cardinality(Below(i)) => Below(k) = Below(i)
    BY <1>2, <2>1, FS_Subset
  <2> QED
    BY <1>2, <2>1, <2>2
<1>4. \A i, k \in S : place[i] = place[k] => i = k
  <2>1. \A i, k \in S : i < k \/ k < i \/ i = k
    OBVIOUS
  <2> QED
    BY <1>3, <2>1
<1>5. place \in Injection(S, 0 .. n - 1)
  BY <1>2, <1>4 DEF Injection, IsInjective
<1>6. IsFiniteSet(0 .. n - 1) /\ Cardinality(0 .. n - 1) = n
  BY <1>1, FS_Interval
<1>7. place \in Surjection(S, 0 .. n - 1)
  BY <1>5, <1>6, FS_Injection
<1> QED
  BY <1>1, <1>2, <1>4, <1>7 DEF Surjection

LEMMA RoomForAll ==
  ASSUME NEW n \in Nat
  PROVE  RoundedSize(n) \in Nat /\ n <= RoundedSize(n)
<1>1. JOB_SLOTS \in Nat \ {0}
  BY SizesAssumption
<1>2. /\ ((n + JOB_SLOTS - 1) \div JOB_SLOTS) * JOB_SLOTS \in Nat
      /\ n <= ((n + JOB_SLOTS - 1) \div JOB_SLOTS) * JOB_SLOTS
  BY <1>1
<1> QED
  BY <1>1, <1>2 DEF RoundedSize

\* The jobs of t, each under another index.
Renumbered(t, u, from) ==
  /\ u.saved = t.saved
  /\ \A i \in Indices(u) : from[i] \in Indices(t) /\ u.jobs[i] = t.jobs[from[i]]
  /\ \A i, k \in Indices(u) : from[i] = from[k] => i = k
  /\ \A i \in Indices(t) : \E k \in Indices(u) : from[k] = i

LEMMA RenumberedContents ==
  ASSUME NEW t, NEW u, NEW from, Renumbered(t, u, from), ContentsOK(t)
  PROVE  /\ ContentsOK(u)
         /\ Alive(u) = Alive(t)
         /\ \A pid : Holds(u, pid) <=> Holds(t, pid)
         /\ \A pid, st : Kept(t, pid, st) => Kept(u, pid, st)
<1>1. /\ \A i \in Indices(u) : from[i] \in Indices(t) /\ u.jobs[i] = t.jobs[from[i]]
      /\ \A i \in Indices(t) : \E k \in Indices(u) : from[k] = i
      /\ \A i, k \in Indices(u) : from[i] = from[k] => i = k
      /\ u.saved = t.saved
  BY DEF Renumbered
<1>2. ContentsOK(u)
  <2>1. \A i \in Indices(u) : /\ ProcsOK(u.jobs[i].procs)
                              /\ u.jobs[i].dead <=> ~AnyRunning(u.jobs[i].procs)
    BY <1>1 DEF ContentsOK
  <2>2. ASSUME NEW i \in Indices(u), NEW k \in Indices(u), NEW pid \in Pids,
               At(u.jobs[i].procs, pid) # {}, At(u.jobs[k].procs, pid) # {}
        PROVE  i = k
    <3>1. PICK a \in Indices(t), b \in Indices(t) : a = from[i] /\ b = from[k]
      BY <1>1
    <3>2. At(t.jobs[a].procs, pid) # {} /\ At(t.jobs[b].procs, pid) # {}
      BY <1>1, <2>2, <3>1
    <3>3. a = b
      BY <3>2 DEF ContentsOK
    <3> QED
      BY <1>1, <3>1, <3>3
  <2> QED
    BY <2>1, <2>2 DEF ContentsOK
<1>3. Alive(u) = Alive(t)
  <2>1. ASSUME NEW pid
        PROVE  (\E i \in Indices(u) : AliveAt(u.jobs[i].procs, pid) # {})
                 <=> \E i \in Indices(t) : AliveAt(t.jobs[i].procs, pid) # {}
    <3>1. ASSUME NEW i \in Indices(u), AliveAt(u.jobs[i].procs, pid) # {}
          PROVE  \E k \in Indices(t) : AliveAt(t.jobs[k].procs, pid) # {}
      <4>1. from[i] \in Indices(t) /\ u.jobs[i] = t.jobs[from[i]]
        BY <1>1
      <4> QED
        BY <3>1, <4>1
    <3>2. ASSUME NEW i \in Indices(t), AliveAt(t.jobs[i].procs, pid) # {}
          PROVE  \E k \in Indices(u) : AliveAt(u.jobs[k].procs, pid) # {}
      <4>1. PICK k \in Indices(u) : from[k] = i
        BY <1>1
      <4>2. u.jobs[k] = t.jobs[i]
        BY <1>1, <4>1
      <4> QED
        BY <3>2, <4>2
    <3> QED
      BY <3>1, <3>2
  <2> QED
    BY <2>1 DEF Alive
<1>4. ASSUME NEW pid
      PROVE  Holds(u, pid) <=> Holds(t, pid)
  <2>1. (\E i \in Indices(u) : At(u.jobs[i].procs, pid) # {})
          <=> \E i \in Indices(t) : At(t.jobs[i].procs, pid) # {}
    <3>1. ASSUME NEW i \in Indices(u), At(u.jobs[i].procs, pid) # {}
          PROVE  \E k \in Indices(t) : At(t.jobs[k].procs, pid) # {}
      <4>1. from[i] \in Indices(t) /\ u.jobs[i] = t.jobs[from[i]]
        BY <1>1
      <4> QED
        BY <3>1, <4>1
    <3>2. ASSUME NEW i \in Indices(t), At(t.jobs[i].procs, pid) # {}
          PROVE  \E k \in Indices(u) : At(u.jobs[k].procs, pid) # {}
      <4>1. PICK k \in Indices(u) : from[k] = i
        BY <1>1
      <4>2. u.jobs[k] = t.jobs[i]
        BY <1>1, <4>1
      <4> QED
        BY <3>2, <4>2
    <3> QED
      BY <3>1, <3>2
  <2> QED
    BY <2>1 DEF Holds
<1>5. ASSUME NEW pid, NEW st, Kept(t, pid, st)
      PROVE  Kept(u, pid, st)
  BY <1>1, <1>4, <1>5 DEF Kept
<1> QED
  BY <1>2, <1>3, <1>4, <1>5

\* Compaction keeps the jobs, in fewer slots.
LEMMA ReallocImproves ==
  ASSUME NEW jt, TableInv(jt)
  PROVE  Improves(jt, realloc_jobs_list(jt))
<1> DEFINE S == Indices(jt)
           place == [i \in S |-> Cardinality({k \in S : k < i})]
           n == Cardinality(S)
           From(to) == CHOOSE i \in S : Cardinality({k \in S : k < i}) = to
           from == [to \in 0 .. n - 1 |-> From(to)]
           moved == [jt EXCEPT
             !.slots = RoundedSize(jt.njobs),
             !.jobs = [to \in 0 .. n - 1 |-> jt.jobs[From(to)]],
             !.firstj = 0,
             !.lastj = IF n > 0 THEN n - 1 ELSE 0,
             !.njobs = n,
             !.current = IF @ \in S THEN place[@] ELSE @,
             !.previous = IF @ \in S THEN place[@] ELSE @]
<1>1. Shape(jt) /\ IndicesOK(jt) /\ CurrentOK(jt) /\ ContentsOK(jt) /\ DOMAIN jt = Fields
  BY DEF TableInv, Shape
<1>2. /\ S \in SUBSET Nat /\ IsFiniteSet(S) /\ n \in Nat /\ jt.njobs = n
  BY <1>1, IndicesFinite DEF IndicesOK
<1>3. /\ \A i \in S : place[i] \in 0 .. n - 1
      /\ \A i, k \in S : place[i] = place[k] => i = k
      /\ \A to \in 0 .. n - 1 : \E i \in S : place[i] = to
  <2>1. PICK p : p = place
    OBVIOUS
  <2>2. /\ \A i \in S : p[i] \in 0 .. n - 1
        /\ \A i, k \in S : p[i] = p[k] => i = k
        /\ \A to \in 0 .. n - 1 : \E i \in S : p[i] = to
    BY ONLY <1>2, <2>1, RanksInOrder
  <2> QED
    BY <2>1, <2>2
<1>4. \A to \in 0 .. n - 1 : From(to) \in S /\ place[From(to)] = to
  <2>1. ASSUME NEW to \in 0 .. n - 1
        PROVE  From(to) \in S /\ Cardinality({k \in S : k < From(to)}) = to
    <3>1. \E i \in S : Cardinality({k \in S : k < i}) = to
      BY <1>3
    <3> QED
      BY <3>1, Zenon
  <2> HIDE DEF From
  <2> QED
    BY <2>1
<1>4a. \A i \in S : place[i] = Cardinality({k \in Indices(jt) : k < i})
  OBVIOUS
<1> HIDE DEF place
<1>5. \A i \in S : From(place[i]) = i
  <2> HIDE DEF From
  <2> QED
    BY <1>3, <1>4
<1>6. realloc_jobs_list(jt) = IF \/ NO_JOB \in {moved.current, moved.previous}
                                 \/ moved.current > moved.lastj
                                 \/ moved.previous > moved.lastj
                              THEN reset_current(moved) ELSE moved
  <2> DEFINE Place(i) == Cardinality({k \in Indices(jt) : k < i})
  <2>1. /\ (IF jt.current \in S THEN Place(jt.current) ELSE jt.current)
             = IF jt.current \in S THEN place[jt.current] ELSE jt.current
        /\ (IF jt.previous \in S THEN Place(jt.previous) ELSE jt.previous)
             = IF jt.previous \in S THEN place[jt.previous] ELSE jt.previous
    BY <1>4a
  <2> QED
    BY <2>1 DEF realloc_jobs_list
<1> HIDE DEF From
<1>7. /\ DOMAIN moved = Fields
      /\ moved.slots = RoundedSize(n) /\ moved.saved = jt.saved
      /\ moved.jobs = [to \in 0 .. n - 1 |-> jt.jobs[From(to)]]
      /\ moved.firstj = 0 /\ moved.lastj = (IF n > 0 THEN n - 1 ELSE 0) /\ moved.njobs = n
      /\ moved.current = (IF jt.current \in S THEN place[jt.current] ELSE jt.current)
      /\ moved.previous = (IF jt.previous \in S THEN place[jt.previous] ELSE jt.previous)
  BY <1>1, <1>2 DEF Fields
<1> HIDE DEF moved
<1>8. Indices(moved) = 0 .. n - 1
  BY <1>7 DEF Indices
<1>9. Shape(moved)
  <2>1. RoundedSize(n) \in Nat /\ n <= RoundedSize(n)
    BY <1>2, RoomForAll
  <2>2. Indices(moved) \subseteq 0 .. moved.slots - 1 /\ moved.slots \in Nat
    BY <1>2, <1>7, <1>8, <2>1
  <2>3. \A i \in Indices(moved) : moved.jobs[i] \in Jobs /\ moved.jobs[i].procs # <<>>
    <3>1. \A i \in S : jt.jobs[i] \in Jobs /\ jt.jobs[i].procs # <<>>
      BY <1>1 DEF Shape
    <3>2. ASSUME NEW i \in 0 .. n - 1
          PROVE  moved.jobs[i] \in Jobs /\ moved.jobs[i].procs # <<>>
      <4>1. moved.jobs[i] = jt.jobs[From(i)] /\ From(i) \in S
        BY <1>4, <1>7
      <4> QED
        BY <3>1, <4>1
    <3> QED
      BY <1>8, <3>2
  <2> QED
    BY <1>1, <1>7, <2>2, <2>3 DEF Shape
<1>10. IndicesOK(moved)
  <2>1. Cardinality(0 .. n - 1) = n
    BY <1>2, FS_Interval
  <2>2. 0 .. n - 1 # {} <=> n > 0
    BY <1>2
  <2>3. n > 0 => Min(0 .. n - 1) = 0
    <3>1. 0 .. n - 1 \subseteq Nat /\ \A x \in 0 .. n - 1 : 0 <= x
      BY <1>2
    <3> QED
      BY <1>2, <3>1, MinOfNat
  <2>4. n > 0 => Max(0 .. n - 1) = n - 1
    <3>1. 0 .. n - 1 \subseteq 0 .. n /\ \A x \in 0 .. n - 1 : n - 1 >= x
      BY <1>2
    <3> QED
      <4>1. PICK T : T = 0 .. n - 1
        OBVIOUS
      <4>2. n > 0 => n - 1 \in T
        BY <1>2, <4>1
      <4>3. T \subseteq 0 .. n /\ \A x \in T : n - 1 >= x
        BY <3>1, <4>1
      <4>4. n > 0 => n - 1 = Max(T)
        BY ONLY <1>2, <4>2, <4>3, MaxOfNat
      <4> QED
        BY <4>1, <4>4
  <2> QED
    BY <1>7, <1>8, <2>1, <2>2, <2>3, <2>4 DEF IndicesOK
<1>11. Renumbered(jt, moved, from)
  BY <1>3, <1>4, <1>5, <1>7, <1>8 DEF Renumbered
<1>12. /\ ContentsOK(moved) /\ Alive(moved) = Alive(jt)
       /\ \A pid : Holds(moved, pid) <=> Holds(jt, pid)
       /\ \A pid, st : Kept(jt, pid, st) => Kept(moved, pid, st)
  BY <1>1, <1>11, RenumberedContents
<1>13. CASE \/ NO_JOB \in {moved.current, moved.previous}
            \/ moved.current > moved.lastj
            \/ moved.previous > moved.lastj
  <2>1. PICK u : u = reset_current(moved) /\ u = realloc_jobs_list(jt)
    BY <1>6, <1>13
  <2>2. /\ SameJobs(moved, u) /\ u.firstj = moved.firstj /\ u.lastj = moved.lastj
        /\ u.njobs = moved.njobs /\ CurrentOK(u)
    BY <1>9, <2>1, ResetCurrent DEF SameJobs
  <2>3. Indices(u) = Indices(moved) /\ u.jobs = moved.jobs /\ u.saved = moved.saved
    BY <2>2 DEF SameJobs, Indices
  <2>4. Shape(u) /\ IndicesOK(u)
    BY <1>9, <1>10, <2>2, <2>3 DEF Shape, IndicesOK, SameJobs
  <2>5. ContentsOK(u) /\ Alive(u) = Alive(moved) /\ \A pid : Holds(u, pid) <=> Holds(moved, pid)
    BY <1>12, <2>3, SameContents
  <2>6. \A pid, st : Kept(moved, pid, st) => Kept(u, pid, st)
    BY <2>3, <2>5 DEF Kept
  <2> QED
    BY <1>12, <2>1, <2>2, <2>4, <2>5, <2>6 DEF Improves, TableInv
<1>14. CASE ~(\/ NO_JOB \in {moved.current, moved.previous}
              \/ moved.current > moved.lastj
              \/ moved.previous > moved.lastj)
  <2>1. moved = realloc_jobs_list(jt)
    BY <1>6, <1>14
  <2>2. CurrentOK(moved)
    <3>1. {jt.current, jt.previous} \subseteq {NO_JOB} \cup S
      BY <1>1 DEF CurrentOK
    <3>2. {moved.current, moved.previous} \subseteq {NO_JOB} \cup 0 .. n - 1
      BY <1>3, <1>7, <3>1
    <3> QED
      BY <1>8, <1>14, <3>2 DEF CurrentOK
  <2> QED
    BY <1>9, <1>10, <1>12, <2>1, <2>2 DEF Improves, TableInv
<1> QED
  BY <1>13, <1>14

(***************************************************************************)
(* Adding jobs                                                             *)
(***************************************************************************)
LEMMA GrowImproves ==
  ASSUME NEW jt, TableInv(jt), NEW n \in Nat, jt.slots <= n
  PROVE  /\ Improves(jt, [jt EXCEPT !.slots = n])
         /\ [jt EXCEPT !.slots = n].slots = n
         /\ Indices([jt EXCEPT !.slots = n]) = Indices(jt)
         /\ [jt EXCEPT !.slots = n].lastj = jt.lastj
<1>1. Shape(jt) /\ IndicesOK(jt) /\ CurrentOK(jt) /\ ContentsOK(jt) /\ DOMAIN jt = Fields
  BY DEF TableInv, Shape
<1>2. PICK u : u = [jt EXCEPT !.slots = n]
  OBVIOUS
<1>3. /\ DOMAIN u = Fields /\ u.slots = n /\ u.saved = jt.saved /\ u.njobs = jt.njobs
      /\ u.firstj = jt.firstj /\ u.lastj = jt.lastj
      /\ u.current = jt.current /\ u.previous = jt.previous
      /\ u.jobs = jt.jobs
  BY <1>1, <1>2 DEF Fields
<1>4. Indices(u) = Indices(jt)
  BY <1>3 DEF Indices
<1>5. Indices(u) \subseteq 0 .. n - 1
  <2>1. jt.slots \in Nat /\ Indices(jt) \subseteq 0 .. jt.slots - 1
    BY <1>1 DEF Shape
  <2> QED
    BY <1>4, <2>1
<1>6. Shape(u)
  BY <1>1, <1>3, <1>4, <1>5 DEF Shape
<1>7. IndicesOK(u) /\ CurrentOK(u)
  BY <1>1, <1>3, <1>4, SameContents DEF IndicesOK, CurrentOK
<1>8. ContentsOK(u) /\ Alive(u) = Alive(jt) /\ \A pid : Holds(u, pid) <=> Holds(jt, pid)
  BY <1>1, <1>3, <1>4, SameContents
<1>9. \A pid, st : Kept(jt, pid, st) => Kept(u, pid, st)
  BY <1>3, <1>4, <1>8 DEF Kept
<1> QED
  BY <1>2, <1>3, <1>4, <1>6, <1>7, <1>8, <1>9 DEF Improves, TableInv

LEMMA CompactImproves ==
  ASSUME NEW jt, TableInv(jt), NEW last_pid
  PROVE  Improves(jt, compact_jobs_list(jt, last_pid))
<1>1. PICK u : u = reap_dead_jobs(jt, last_pid)
  OBVIOUS
<1>2. Improves(jt, u)
  BY <1>1, NotifiedImproves
<1>3. Improves(u, realloc_jobs_list(u))
  BY <1>2, ReallocImproves DEF Improves
<1> QED
  BY <1>1, <1>2, <1>3, ImprovesTransitive DEF compact_jobs_list

\* The slot found lies above the last job, and in an empty table it is the first.
LEMMA FreeSlotAbove ==
  ASSUME NEW jt, TableInv(jt)
  PROVE  /\ FreeSlot(jt) \in 0 .. jt.slots
         /\ FreeSlot(jt) < jt.slots =>
              /\ \A i \in Indices(jt) : i < FreeSlot(jt)
              /\ Indices(jt) = {} => FreeSlot(jt) = 0
         /\ FreeSlot(jt) = jt.slots =>
              FreeSlot([jt EXCEPT !.slots = jt.slots + JOB_SLOTS]) < jt.slots + JOB_SLOTS
<1> DEFINE S == Indices(jt)
           from == IF jt.lastj # 0 THEN jt.lastj + 1 ELSE 0
           Free(n) == {i \in from .. n - 1 : i \notin S}
<1>1. Shape(jt) /\ IndicesOK(jt) /\ jt.slots \in Nat /\ S \subseteq 0 .. jt.slots - 1
  BY DEF TableInv, Shape
<1>2. /\ \A i \in S : i \in Nat /\ i < jt.slots /\ i <= jt.lastj
      /\ jt.lastj \in Nat
      /\ S = {} => jt.lastj = 0
      /\ jt.lastj = 0 \/ jt.lastj < jt.slots
  <2>1. CASE S = {}
    BY <1>1, <2>1 DEF IndicesOK
  <2>2. CASE S # {}
    <3>1. S \subseteq 0 .. jt.slots
      BY <1>1
    <3>2. jt.lastj \in S /\ \A i \in S : jt.lastj >= i
      BY <1>1, <2>2, <3>1, MaxOfNat DEF IndicesOK
    <3> QED
      BY <1>1, <2>2, <3>2
  <2> QED
    BY <2>1, <2>2
<1>3. from \in Nat /\ from <= jt.slots
  BY <1>1, <1>2
<1> HIDE DEF from
<1>4. ASSUME NEW n \in Nat, NEW u, Indices(u) = S, u.lastj = jt.lastj, u.slots = n
      PROVE  /\ Free(n) = {} => FreeSlot(u) = n
             /\ Free(n) # {} => /\ FreeSlot(u) \in Free(n)
                                /\ \A x \in Free(n) : FreeSlot(u) <= x
  <2>1. FreeSlot(u) = IF Free(n) = {} THEN n ELSE Min(Free(n))
    BY <1>4 DEF FreeSlot, from
  <2>2. Free(n) \subseteq Nat
    BY <1>3
  <2> HIDE DEF Free
  <2> QED
    BY <2>1, <2>2, MinOfNat
<1>5. /\ Free(jt.slots) = {} => FreeSlot(jt) = jt.slots
      /\ Free(jt.slots) # {} => /\ FreeSlot(jt) \in Free(jt.slots)
                                /\ \A x \in Free(jt.slots) : FreeSlot(jt) <= x
  BY <1>1, <1>4
<1>6. FreeSlot(jt) \in 0 .. jt.slots
  BY <1>1, <1>3, <1>5
<1>7. ASSUME FreeSlot(jt) < jt.slots
      PROVE  /\ \A i \in S : i < FreeSlot(jt)
             /\ S = {} => FreeSlot(jt) = 0
  <2>1. FreeSlot(jt) \in Free(jt.slots) /\ \A x \in Free(jt.slots) : FreeSlot(jt) <= x
    BY <1>1, <1>5, <1>7
  <2>2. FreeSlot(jt) \in Nat /\ from <= FreeSlot(jt) /\ FreeSlot(jt) \notin S
    BY <1>3, <2>1
  <2>3. ASSUME NEW i \in S
        PROVE  i < FreeSlot(jt)
    <3>1. i # FreeSlot(jt)
      BY <2>2, <2>3
    <3> QED
      BY <1>2, <2>2, <2>3, <3>1 DEF from
  <2>4. S = {} => FreeSlot(jt) = 0
    <3>1. S = {} => 0 \in Free(jt.slots)
      BY <1>1, <1>2, <1>6, <1>7 DEF from
    <3> QED
      BY <2>1, <2>2, <3>1
  <2> QED
    BY <2>3, <2>4
<1>8. ASSUME FreeSlot(jt) = jt.slots
      PROVE  FreeSlot([jt EXCEPT !.slots = jt.slots + JOB_SLOTS]) < jt.slots + JOB_SLOTS
  <2>1. PICK n \in Nat : n = jt.slots + JOB_SLOTS /\ jt.slots < n
    BY <1>1, SizesAssumption
  <2>2. PICK u : u = [jt EXCEPT !.slots = n]
    OBVIOUS
  <2>3. Indices(u) = S /\ u.lastj = jt.lastj /\ u.slots = n
    BY <2>1, <2>2, <1>1, GrowImproves
  <2>4. jt.slots \in Free(n)
    BY <1>1, <1>3, <2>1
  <2>5. FreeSlot(u) \in Free(n)
    BY <1>4, <2>3, <2>4
  <2>6. FreeSlot(u) < n
    BY <1>3, <2>1, <2>5
  <2> QED
    BY <2>1, <2>2, <2>6
<1> QED
  BY <1>6, <1>7, <1>8

\* The search of stop_pipeline for a slot ends with a free one.
LEMMA RoomIsMade ==
  ASSUME NEW jt, TableInv(jt), NEW last_pid
  PROVE  LET room == WithRoom(jt, last_pid)
         IN  Improves(jt, room) /\ FreeSlot(room) < room.slots
<1> DEFINE clean == cleanup_dead_jobs(jt)
           some == IF clean.slots = 0 THEN [clean EXCEPT !.slots = JOB_SLOTS] ELSE clean
           full == FreeSlot(some) = some.slots
           compact == IF full /\ some.slots >= MAX_JOBS_IN_ARRAY
                      THEN compact_jobs_list(some, last_pid)
                      ELSE some
           room == WithRoom(jt, last_pid)
<1>1. room = IF FreeSlot(compact) = compact.slots
             THEN [compact EXCEPT !.slots = compact.slots + JOB_SLOTS]
             ELSE compact
  BY DEF WithRoom
<1>2. Improves(jt, clean)
  BY CleanupImproves
<1> HIDE DEF clean
<1>3. Improves(jt, some)
  <2>1. clean.slots = 0 => Improves(clean, [clean EXCEPT !.slots = JOB_SLOTS])
    BY <1>2, GrowImproves, SizesAssumption DEF Improves
  <2> QED
    BY <1>2, <2>1, ImprovesTransitive
<1> HIDE DEF some
<1>4. Improves(jt, compact)
  <2>1. Improves(some, compact_jobs_list(some, last_pid))
    BY <1>3, CompactImproves DEF Improves
  <2> QED
    BY <1>3, <2>1, ImprovesTransitive
<1> HIDE DEF compact, room
<1>5. TableInv(compact) /\ compact.slots \in Nat /\ compact.slots + JOB_SLOTS \in Nat
      /\ compact.slots <= compact.slots + JOB_SLOTS
  <2>1. TableInv(compact) /\ compact.slots \in Nat
    BY <1>4 DEF Improves, TableInv, Shape
  <2> QED
    BY <2>1, SizesAssumption
<1>6. CASE FreeSlot(compact) = compact.slots
  <2>1. room = [compact EXCEPT !.slots = compact.slots + JOB_SLOTS]
    BY <1>1, <1>6
  <2>2. Improves(compact, room) /\ room.slots = compact.slots + JOB_SLOTS
    BY <1>5, <2>1, GrowImproves
  <2>3. FreeSlot(room) < compact.slots + JOB_SLOTS
    BY <1>5, <1>6, <2>1, FreeSlotAbove
  <2> QED
    BY <1>4, <2>2, <2>3, ImprovesTransitive DEF room
<1>7. CASE FreeSlot(compact) # compact.slots
  <2>1. room = compact
    BY <1>1, <1>7
  <2>2. FreeSlot(compact) \in 0 .. compact.slots
    BY <1>5, FreeSlotAbove
  <2>3. FreeSlot(compact) < compact.slots
    BY <1>5, <1>7, <2>2
  <2> QED
    BY <1>4, <2>1, <2>3 DEF room
<1> QED
  BY <1>6, <1>7

\* A job of new processes goes into a slot of its own; the other jobs stay.
LEMMA JobAdded ==
  ASSUME NEW jt, TableInv(jt), NEW last_pid,
         NEW pipe \in Seq(Processes), pipe # <<>>, ProcsOK(pipe),
         NEW async \in BOOLEAN,
         \A pid \in Pids : At(pipe, pid) # {} => ~Holds(jt, pid)
  PROVE  LET u == stop_pipeline(jt, pipe, async, last_pid)
         IN  /\ TableInv(u)
             /\ \A pid \in Pids :
                  pid \in Alive(u) <=> pid \in Alive(jt) \/ AliveAt(pipe, pid) # {}
             /\ \A pid \in Pids : Holds(u, pid) => Holds(jt, pid) \/ At(pipe, pid) # {}
             /\ \A pid \in Pids : \A st :
                  Kept(jt, pid, st) /\ At(pipe, pid) = {} => Kept(u, pid, st)
             /\ \A pid \in Pids : \A st :
                  Keeper(NewJob(pipe, async), pid, st) => Kept(u, pid, st)
<1> DEFINE room == WithRoom(jt, last_pid)
           i == FreeSlot(room)
           job == NewJob(pipe, async)
           added == [room EXCEPT
                       !.jobs = [k \in DOMAIN room.jobs \cup {i} |->
                                   IF k = i THEN job ELSE room.jobs[k]],
                       !.lastj = i,
                       !.njobs = room.njobs + 1]
           u == stop_pipeline(jt, pipe, async, last_pid)
<1>1. Improves(jt, room) /\ i < room.slots
  BY RoomIsMade
<1>2. u = IF async THEN reset_current(added) ELSE added
  BY DEF stop_pipeline
<1> HIDE DEF room, u
<1>3. /\ TableInv(room) /\ Shape(room) /\ IndicesOK(room) /\ CurrentOK(room) /\ ContentsOK(room)
      /\ DOMAIN room = Fields /\ room.slots \in Nat
      /\ Indices(room) \subseteq 0 .. room.slots - 1
      /\ IsFiniteSet(Indices(room)) /\ Indices(room) \subseteq Nat
  BY <1>1, IndicesFinite DEF Improves, TableInv, Shape
<1>4. /\ i \in 0 .. room.slots - 1 /\ i \notin Indices(room)
      /\ \A k \in Indices(room) : k < i
      /\ Indices(room) = {} => i = 0
  <2>1. /\ i \in 0 .. room.slots
        /\ \A k \in Indices(room) : k < i
        /\ Indices(room) = {} => i = 0
    BY <1>1, <1>3, FreeSlotAbove
  <2> QED
    BY <1>1, <1>3, <2>1
<1> HIDE DEF i
<1>5. /\ DOMAIN added = Fields /\ added.slots = room.slots /\ added.saved = room.saved
      /\ added.firstj = room.firstj /\ added.lastj = i /\ added.njobs = room.njobs + 1
      /\ added.current = room.current /\ added.previous = room.previous
      /\ added.jobs = [k \in DOMAIN room.jobs \cup {i} |->
                         IF k = i THEN job ELSE room.jobs[k]]
  BY <1>3 DEF Fields
<1> HIDE DEF added
<1>6. /\ Indices(added) = Indices(room) \cup {i}
      /\ added.jobs[i] = job
      /\ \A k \in Indices(room) : added.jobs[k] = room.jobs[k]
  BY <1>4, <1>5 DEF Indices
<1>7. /\ job \in Jobs /\ job.procs = pipe /\ job.async = async
      /\ job.dead = ~AnyRunning(pipe)
  BY DEF NewJob, Jobs, AnyRunning
<1> HIDE DEF job
<1>8. Shape(added)
  BY <1>3, <1>4, <1>5, <1>6, <1>7 DEF Shape
<1>9. IndicesOK(added)
  <2>1. added.njobs = Cardinality(Indices(added))
    <3>1. PICK S : S = Indices(room)
      OBVIOUS
    <3>2. IsFiniteSet(S) /\ i \notin S /\ room.njobs = Cardinality(S)
      BY <1>3, <1>4, <3>1 DEF IndicesOK
    <3>3. Cardinality(S \cup {i}) = Cardinality(S) + 1
      BY ONLY <3>2, FS_AddElement
    <3> QED
      BY <1>5, <1>6, <3>1, <3>2, <3>3
  <2>2. PICK T : T = Indices(added)
    OBVIOUS
  <2>3. /\ T \subseteq Nat /\ T \subseteq 0 .. room.slots /\ i \in T /\ T # {}
        /\ \A x \in T : i >= x
    BY <1>3, <1>4, <1>6, <2>2
  <2>4. i = Max(T)
    BY ONLY <1>3, <2>3, MaxOfNat
  <2>5. added.firstj \in T /\ \A x \in T : added.firstj <= x
    <3>1. CASE Indices(room) = {}
      BY <1>3, <1>4, <1>5, <1>6, <2>2, <3>1 DEF IndicesOK
    <3>2. CASE Indices(room) # {}
      <4>1. /\ added.firstj \in Indices(room)
            /\ \A x \in Indices(room) : added.firstj <= x
        BY <1>3, <1>5, <3>2, MinOfNat DEF IndicesOK
      <4>2. added.firstj <= i
        BY <1>3, <1>4, <4>1
      <4> QED
        BY <1>6, <2>2, <4>1, <4>2
    <3> QED
      BY <3>1, <3>2
  <2>6. added.firstj = Min(T)
    BY ONLY <2>3, <2>5, MinOfNat
  <2> QED
    BY <1>5, <2>1, <2>2, <2>3, <2>4, <2>6 DEF IndicesOK
<1>10. ContentsOK(added)
  <2>1. \A k \in Indices(added) : /\ ProcsOK(added.jobs[k].procs)
                                  /\ added.jobs[k].dead <=> ~AnyRunning(added.jobs[k].procs)
    BY <1>3, <1>6, <1>7 DEF ContentsOK
  <2>2. ASSUME NEW k \in Indices(added), NEW l \in Indices(added), NEW pid \in Pids,
               At(added.jobs[k].procs, pid) # {}, At(added.jobs[l].procs, pid) # {}
        PROVE  k = l
    <3>1. At(pipe, pid) # {} => ~Holds(room, pid)
      BY <1>1 DEF Improves
    <3>2. CASE k \in Indices(room) /\ l \in Indices(room)
      BY <1>3, <1>6, <2>2, <3>2 DEF ContentsOK
    <3>3. CASE k = i \/ l = i
      BY <1>6, <1>7, <2>2, <3>1, <3>3 DEF Holds
    <3> QED
      BY <1>6, <3>2, <3>3
  <2> QED
    BY <2>1, <2>2 DEF ContentsOK
<1>11. /\ Shape(u) /\ IndicesOK(u) /\ CurrentOK(u) /\ ContentsOK(u)
       /\ Indices(u) = Indices(added) /\ u.jobs = added.jobs /\ u.saved = room.saved
  <2>1. CASE async
    <3>1. u = reset_current(added)
      BY <1>2, <2>1
    <3>2. /\ SameJobs(added, u) /\ u.firstj = added.firstj /\ u.lastj = added.lastj
          /\ u.njobs = added.njobs /\ CurrentOK(u)
      BY <1>8, <3>1, ResetCurrent DEF SameJobs
    <3>3. Indices(u) = Indices(added) /\ u.jobs = added.jobs /\ u.saved = room.saved
      BY <1>5, <3>2 DEF SameJobs, Indices
    <3>4. Shape(u) /\ IndicesOK(u)
      BY <1>8, <1>9, <3>2, <3>3 DEF Shape, IndicesOK, SameJobs
    <3> QED
      BY <1>10, <3>2, <3>3, <3>4, SameContents
  <2>2. CASE ~async
    <3>1. u = added
      BY <1>2, <2>2
    <3>2. Running(added) \cap Background(added) \subseteq Running(room) \cap Background(room)
      BY <1>6, <1>7, <2>2 DEF Running, Background
    <3>3. CurrentOK(added)
      BY <1>3, <1>5, <1>6, <3>2 DEF CurrentOK
    <3> QED
      BY <1>5, <1>8, <1>9, <1>10, <3>1, <3>3
  <2> QED
    BY <2>1, <2>2
<1>12. /\ u.jobs[i] = job /\ \A k \in Indices(room) : u.jobs[k] = room.jobs[k]
       /\ Indices(u) = Indices(room) \cup {i}
  BY <1>6, <1>11
<1>13. ASSUME NEW pid \in Pids
       PROVE  /\ Holds(u, pid) <=> Holds(room, pid) \/ At(pipe, pid) # {}
              /\ (\E k \in Indices(u) : AliveAt(u.jobs[k].procs, pid) # {})
                   <=> \/ \E k \in Indices(room) : AliveAt(room.jobs[k].procs, pid) # {}
                       \/ AliveAt(pipe, pid) # {}
  BY <1>7, <1>12 DEF Holds
<1>14. \A pid \in Pids : pid \in Alive(u) <=> pid \in Alive(jt) \/ AliveAt(pipe, pid) # {}
  <2>1. \A pid \in Pids : pid \in Alive(u) <=> pid \in Alive(room) \/ AliveAt(pipe, pid) # {}
    BY <1>13 DEF Alive
  <2> QED
    BY <1>1, <2>1 DEF Improves
<1>15. ASSUME NEW pid \in Pids, NEW st, Kept(jt, pid, st), At(pipe, pid) = {}
       PROVE  Kept(u, pid, st)
  <2>1. Kept(room, pid, st)
    BY <1>1, <1>15 DEF Improves
  <2> QED
    BY <1>7, <1>11, <1>12, <1>13, <1>15, <2>1 DEF Kept
<1>16. ASSUME NEW pid \in Pids, NEW st, Keeper(job, pid, st)
       PROVE  Kept(u, pid, st)
  <2>1. At(pipe, pid) # {}
    BY <1>7, <1>16, LastProcess DEF Keeper
  <2>2. ~Holds(room, pid)
    BY <1>1, <2>1 DEF Improves
  <2> QED
    BY <1>12, <1>13, <1>16, <2>1, <2>2 DEF Kept, Holds
<1> QED
  BY <1>1, <1>11, <1>13, <1>14, <1>15, <1>16 DEF TableInv, Improves, u, job

(***************************************************************************)
(* New processes and exits                                                 *)
(***************************************************************************)
\* The searches find the one job that has the process, if there is one.
LEMMA FoundJob ==
  ASSUME NEW jt, TableInv(jt), NEW pid \in Pids
  PROVE  /\ Holds(jt, pid) => /\ find_job(jt, pid) \in Indices(jt)
                              /\ At(jt.jobs[find_job(jt, pid)].procs, pid) # {}
         /\ ~Holds(jt, pid) => find_job(jt, pid) = NO_JOB
         /\ pid \in Alive(jt) =>
              /\ find_live_job(jt, pid) \in Indices(jt)
              /\ AliveAt(jt.jobs[find_live_job(jt, pid)].procs, pid) # {}
         /\ pid \notin Alive(jt) => find_live_job(jt, pid) = NO_JOB
<1> DEFINE holding == {i \in Indices(jt) : At(jt.jobs[i].procs, pid) # {}}
           alive == {i \in Indices(jt) : AliveAt(jt.jobs[i].procs, pid) # {}}
<1>1. holding \subseteq Nat /\ alive \subseteq Nat
  BY IndicesFinite DEF TableInv
<1>2. /\ find_job(jt, pid) = IF holding = {} THEN NO_JOB ELSE Min(holding)
      /\ find_live_job(jt, pid) = IF alive = {} THEN NO_JOB ELSE Min(alive)
  BY DEF find_job, find_live_job
<1>3. (Holds(jt, pid) <=> holding # {}) /\ (pid \in Alive(jt) <=> alive # {})
  BY DEF Holds, Alive
<1>4. /\ holding # {} => Min(holding) \in holding
      /\ alive # {} => Min(alive) \in alive
  <2> HIDE DEF holding, alive
  <2> QED
    BY <1>1, MinOfNat
<1> QED
  BY <1>2, <1>3, <1>4

\* A process is found in its job once.
LEMMA FoundProcess ==
  ASSUME NEW procs \in Seq(Processes), ProcsOK(procs), NEW pid \in Pids
  PROVE  /\ At(procs, pid) # {} => At(procs, pid) = {Min(At(procs, pid))}
         /\ AliveAt(procs, pid) # {} => /\ AliveAt(procs, pid) = {Min(AliveAt(procs, pid))}
                                        /\ At(procs, pid) = {Min(AliveAt(procs, pid))}
<1>1. DOMAIN procs = 1 .. Len(procs) /\ Len(procs) \in Nat /\ At(procs, pid) \subseteq Nat
      /\ AliveAt(procs, pid) \subseteq At(procs, pid)
  BY DEF At, AliveAt
<1>2. \A k, l \in At(procs, pid) : k = l
  BY PidsAssumption DEF At, ProcsOK
<1>3. At(procs, pid) # {} => Min(At(procs, pid)) \in At(procs, pid)
  BY <1>1, MinOfNat
<1>4. AliveAt(procs, pid) # {} => Min(AliveAt(procs, pid)) \in AliveAt(procs, pid)
  BY <1>1, MinOfNat
<1> QED
  BY <1>1, <1>2, <1>3, <1>4

\* What becomes of a table when one job gets other processes.
Rewritten(t, u, job, new) ==
  /\ job \in Indices(t)
  /\ DOMAIN u = Fields
  /\ \A f \in Fields \ {"jobs"} : u[f] = t[f]
  /\ Indices(u) = Indices(t)
  /\ u.jobs[job] = new
  /\ \A i \in Indices(t) \ {job} : u.jobs[i] = t.jobs[i]

LEMMA RewrittenTable ==
  ASSUME NEW t, TableInv(t), NEW u, NEW job, NEW new \in Jobs, Rewritten(t, u, job, new),
         new.procs # <<>>, ProcsOK(new.procs),
         new.async = t.jobs[job].async,
         new.dead <=> ~AnyRunning(new.procs),
         t.jobs[job].dead => new.dead,
         \A pid \in Pids : At(new.procs, pid) # {} => At(t.jobs[job].procs, pid) # {}
  PROVE  TableInv(u) /\ \A pid \in Pids : Holds(u, pid) => Holds(t, pid)
<1>1. Shape(t) /\ IndicesOK(t) /\ CurrentOK(t) /\ ContentsOK(t)
  BY DEF TableInv
<1>2. /\ job \in Indices(t) /\ DOMAIN u = Fields
      /\ u.slots = t.slots /\ u.saved = t.saved /\ u.njobs = t.njobs
      /\ u.firstj = t.firstj /\ u.lastj = t.lastj
      /\ u.current = t.current /\ u.previous = t.previous
      /\ Indices(u) = Indices(t)
      /\ u.jobs[job] = new
      /\ \A i \in Indices(t) : i # job => u.jobs[i] = t.jobs[i]
  BY DEF Rewritten, Fields
<1>3. Shape(u) /\ IndicesOK(u)
  BY <1>1, <1>2 DEF Shape, IndicesOK
<1>4. CurrentOK(u)
  <2>1. \A i \in Indices(t) : /\ t.jobs[i].dead => u.jobs[i].dead
                              /\ u.jobs[i].async = t.jobs[i].async
    BY <1>2
  <2>2. Running(u) \cap Background(u) \subseteq Running(t) \cap Background(t)
    BY <1>2, <2>1 DEF Running, Background
  <2> QED
    BY <1>1, <1>2, <2>2 DEF CurrentOK
<1>5. ASSUME NEW i \in Indices(t), NEW pid \in Pids, At(u.jobs[i].procs, pid) # {}
      PROVE  At(t.jobs[i].procs, pid) # {}
  BY <1>2, <1>5
<1>6. ContentsOK(u)
  <2>1. \A i \in Indices(u) : /\ ProcsOK(u.jobs[i].procs)
                              /\ u.jobs[i].dead <=> ~AnyRunning(u.jobs[i].procs)
    BY <1>1, <1>2 DEF ContentsOK
  <2>2. ASSUME NEW i \in Indices(u), NEW k \in Indices(u), NEW pid \in Pids,
               At(u.jobs[i].procs, pid) # {}, At(u.jobs[k].procs, pid) # {}
        PROVE  i = k
    <3>1. At(t.jobs[i].procs, pid) # {} /\ At(t.jobs[k].procs, pid) # {}
      BY <1>2, <1>5, <2>2
    <3> QED
      BY <1>1, <1>2, <3>1 DEF ContentsOK
  <2> QED
    BY <2>1, <2>2 DEF ContentsOK
<1> QED
  BY <1>2, <1>3, <1>4, <1>5, <1>6 DEF TableInv, Holds

\* A new process takes its pid from the old one, whose job it may take out of
\* the table: the only process whose status gets lost is the last of that job.
LEMMA OldJobDeleted ==
  ASSUME NEW jt, TableInv(jt), NEW pid \in Pids, pid \notin Alive(jt)
  PROVE  LET u == delete_old_job(jt, pid)
         IN  /\ TableInv(u)
             /\ Alive(u) = Alive(jt)
             /\ ~Holds(u, pid)
             /\ \A q \in Pids : Holds(u, q) => Holds(jt, q)
             /\ \A i \in Dead(u) : i \in Dead(jt) /\ u.jobs[i] = jt.jobs[i]
             /\ \A q \in Pids \ {pid} : \A st :
                  /\ Kept(jt, q, st)
                  /\ find_job(jt, pid) \in Dead(jt) =>
                       find_last_pid(jt.jobs[find_job(jt, pid)]) # q
                  => Kept(u, q, st)
<1> DEFINE job == find_job(jt, pid)
           old == Min(At(jt.jobs[job].procs, pid))
           u == delete_old_job(jt, pid)
<1>1. Shape(jt) /\ ContentsOK(jt) /\ DOMAIN jt = Fields
      /\ jt.saved \in [Pids \cup {0} -> Statuses \cup {0, NoStatus}]
  BY DEF TableInv, Shape
<1>2. u = CASE job = NO_JOB -> jt
            [] job # NO_JOB /\ jt.jobs[job].dead -> Deleted(jt, {job}, jt.saved)
            [] OTHER -> [jt EXCEPT !.jobs[job].procs[old].pid = 0]
  BY DEF delete_old_job
<1>3. /\ Holds(jt, pid) => /\ job \in Indices(jt) /\ job # NO_JOB
                           /\ At(jt.jobs[job].procs, pid) # {}
      /\ ~Holds(jt, pid) => job = NO_JOB
  BY <1>1, FoundJob, IndicesFinite
<1>4. \A i \in Indices(jt) \ {job} : At(jt.jobs[i].procs, pid) = {}
  BY <1>1, <1>3 DEF Holds, ContentsOK
<1> HIDE DEF job, u
<1>5. CASE ~Holds(jt, pid)
  <2>1. u = jt
    BY <1>2, <1>3, <1>5
  <2> QED
    BY <1>5, <2>1 DEF u
<1>6. CASE Holds(jt, pid) /\ jt.jobs[job].dead
  <2>1. u = Deleted(jt, {job}, jt.saved)
    BY <1>2, <1>3, <1>6
  <2>2. /\ TableInv(u) /\ Indices(u) = Indices(jt) \ {job} /\ u.saved = jt.saved
        /\ \A i \in Indices(u) : u.jobs[i] = jt.jobs[i]
    <3>1. {job} \in SUBSET Indices(jt)
      BY <1>3, <1>6
    <3> QED
      BY <1>1, <2>1, <3>1, DeletedTable
  <2>3. \A q \in Pids : AliveAt(jt.jobs[job].procs, q) = {}
    BY <1>1, <1>3, <1>6 DEF ContentsOK, AnyRunning, AliveAt, At
  <2>4. Alive(u) = Alive(jt)
    BY <2>2, <2>3 DEF Alive
  <2>5. ~Holds(u, pid) /\ \A q \in Pids : Holds(u, q) => Holds(jt, q)
    BY <1>4, <2>2 DEF Holds
  <2>6. ASSUME NEW q \in Pids \ {pid}, NEW st, Kept(jt, q, st),
               job \in Dead(jt) => find_last_pid(jt.jobs[job]) # q
        PROVE  Kept(u, q, st)
    <3>1. find_last_pid(jt.jobs[job]) # q
      BY <1>3, <1>6, <2>6 DEF Dead
    <3>2. At(jt.jobs[job].procs, q) = {}
      BY <1>3, <1>6, <2>6, <3>1 DEF Kept, Keeper
    <3>3. Holds(jt, q) => Holds(u, q)
      BY <2>2, <3>2 DEF Holds
    <3> QED
      BY <2>2, <2>6, <3>3 DEF Kept
  <2> QED
    BY <2>2, <2>4, <2>5, <2>6 DEF u, job, Dead
<1>7. CASE Holds(jt, pid) /\ ~jt.jobs[job].dead
  <2>1. PICK j \in Jobs : j = jt.jobs[job] /\ j.procs # <<>>
    BY <1>1, <1>3, <1>7 DEF Shape
  <2>2. /\ j.procs \in Seq(Processes) /\ ProcsOK(j.procs) /\ At(j.procs, pid) # {}
        /\ j.dead <=> ~AnyRunning(j.procs)
    BY <1>1, <1>3, <1>7, <2>1 DEF Jobs, ContentsOK
  <2>3. PICK o \in DOMAIN j.procs : o = old /\ At(j.procs, pid) = {o}
    <3>1. At(j.procs, pid) = {Min(At(j.procs, pid))}
      BY <2>2, FoundProcess
    <3> QED
      BY <2>1, <3>1 DEF At
  <2> DEFINE procs == [j.procs EXCEPT ![o].pid = 0]
             new == [j EXCEPT !.procs = procs]
  <2>4. /\ j.procs[o] \in Processes /\ j.procs[o].pid = pid /\ ~j.procs[o].running
        /\ DOMAIN j.procs = 1 .. Len(j.procs)
        /\ \A k \in DOMAIN j.procs : j.procs[k] \in Processes
    <3>1. AliveAt(j.procs, pid) = {}
      BY <1>3, <1>7, <2>1 DEF Alive
    <3>2. o \in At(j.procs, pid) /\ o \notin AliveAt(j.procs, pid)
      BY <2>3, <3>1
    <3> QED
      BY <2>2, <3>2 DEF AliveAt, At
  <2>5. [j.procs[o] EXCEPT !.pid = 0] \in Processes
    BY <2>4 DEF Processes
  <2>6. /\ procs \in Seq(Processes) /\ procs # <<>> /\ Len(procs) = Len(j.procs)
        /\ DOMAIN procs = DOMAIN j.procs
    BY <2>1, <2>2, <2>3, <2>4, <2>5
  <2>7. /\ procs[o].pid = 0 /\ ~procs[o].running
        /\ \A k \in DOMAIN procs : k # o => procs[k] = j.procs[k]
    BY <2>3, <2>4, <2>6 DEF Processes
  <2> HIDE DEF procs
  <2>8. /\ new \in Jobs /\ new.procs = procs /\ new.async = j.async /\ new.dead = j.dead
    BY <2>1, <2>6 DEF Jobs
  <2> HIDE DEF new
  <2>9. ProcsOK(procs) /\ (AnyRunning(procs) <=> AnyRunning(j.procs))
    BY <2>2, <2>3, <2>4, <2>6, <2>7 DEF ProcsOK, AnyRunning
  <2>10. /\ At(procs, pid) = {}
         /\ \A q \in Pids \ {pid} : /\ At(procs, q) = At(j.procs, q)
                                    /\ AliveAt(procs, q) = AliveAt(j.procs, q)
    BY <2>3, <2>4, <2>6, <2>7, PidsAssumption DEF At, AliveAt
  <2>11. Rewritten(jt, u, job, new)
    <3>1. u = [jt EXCEPT !.jobs[job].procs[o].pid = 0]
      BY <1>2, <1>3, <1>7, <2>3
    <3>2. /\ DOMAIN u = Fields /\ Indices(u) = Indices(jt)
          /\ u.jobs = [jt.jobs EXCEPT ![job].procs[o].pid = 0]
          /\ \A f \in Fields \ {"jobs"} : u[f] = jt[f]
      BY <1>1, <3>1 DEF Fields, Indices
    <3>3. /\ u.jobs[job] = [jt.jobs[job] EXCEPT !.procs[o].pid = 0]
          /\ \A i \in Indices(jt) \ {job} : u.jobs[i] = jt.jobs[i]
      BY <1>3, <1>7, <3>2 DEF Indices
    <3>4. u.jobs[job] = new
      BY <2>1, <3>3 DEF new, procs, Jobs
    <3> QED
      BY <1>3, <1>7, <3>2, <3>3, <3>4 DEF Rewritten
  <2>12. /\ Indices(u) = Indices(jt) /\ job \in Indices(jt) /\ u.saved = jt.saved
         /\ u.jobs[job] = new
         /\ \A i \in Indices(jt) : i # job => u.jobs[i] = jt.jobs[i]
    BY <2>11 DEF Rewritten, Fields
  <2>13. TableInv(u) /\ \A q \in Pids : Holds(u, q) => Holds(jt, q)
    <3>1. \A q \in Pids : At(procs, q) # {} => At(j.procs, q) # {}
      BY <2>10
    <3> QED
      <4>1. /\ new \in Jobs /\ new.procs # <<>> /\ ProcsOK(new.procs)
            /\ new.async = jt.jobs[job].async
            /\ new.dead <=> ~AnyRunning(new.procs)
            /\ jt.jobs[job].dead => new.dead
            /\ \A q \in Pids : At(new.procs, q) # {} => At(jt.jobs[job].procs, q) # {}
        BY <2>1, <2>2, <2>6, <2>8, <2>9, <3>1
      <4> QED
        BY <2>11, <4>1, RewrittenTable
  <2>14. ~Holds(u, pid)
    BY <1>4, <2>8, <2>10, <2>12 DEF Holds
  <2>15. Alive(u) = Alive(jt)
    <3>1. AliveAt(procs, pid) = {} /\ AliveAt(j.procs, pid) = {}
      BY <1>3, <1>7, <2>1, <2>10 DEF Alive, AliveAt
    <3>2. \A q \in Pids : AliveAt(procs, q) = AliveAt(j.procs, q)
      BY <2>10, <3>1
    <3>3. \A q \in Pids : \A i \in Indices(jt) :
            AliveAt(u.jobs[i].procs, q) = AliveAt(jt.jobs[i].procs, q)
      BY <2>1, <2>8, <2>12, <3>2
    <3> QED
      BY <2>12, <3>3 DEF Alive
  <2>16. ASSUME NEW q \in Pids \ {pid}, NEW st, Kept(jt, q, st)
         PROVE  Kept(u, q, st)
    <3>1. \A i \in Indices(jt) : At(u.jobs[i].procs, q) = At(jt.jobs[i].procs, q)
      BY <2>1, <2>8, <2>10, <2>12
    <3>2. Keeper(j, q, st) => Keeper(new, q, st)
      <4>1. Len(j.procs) \in DOMAIN j.procs /\ Len(procs) = Len(j.procs)
        BY <2>1, <2>6, LastProcess
      <4>2. j.procs[Len(j.procs)].pid = q => procs[Len(procs)] = j.procs[Len(j.procs)]
        BY <2>4, <2>6, <2>7, <2>16, <4>1
      <4> QED
        BY <2>8, <4>2 DEF Keeper, find_last_pid, find_last_proc, job_exit_status
    <3>3. \A i \in Indices(jt) : Keeper(jt.jobs[i], q, st) => Keeper(u.jobs[i], q, st)
      BY <2>1, <2>12, <3>2
    <3> QED
      BY <2>12, <2>16, <3>1, <3>3 DEF Kept, Holds
  <2>17. \A i \in Dead(u) : i \in Dead(jt) /\ u.jobs[i] = jt.jobs[i]
    BY <1>7, <2>1, <2>8, <2>12 DEF Dead
  <2> QED
    BY <2>13, <2>14, <2>15, <2>16, <2>17 DEF u
<1> QED
  BY <1>5, <1>6, <1>7

LEMMA ChildMade ==
  ASSUME NEW jt, TableInv(jt), NEW pid \in Pids, pid \notin Alive(jt)
  PROVE  LET u == make_child(jt, pid)
         IN  /\ TableInv(u)
             /\ Alive(u) = Alive(jt)
             /\ ~Holds(u, pid)
             /\ \A q \in Pids : Holds(u, q) => Holds(jt, q)
             /\ \A i \in Dead(u) : i \in Dead(jt) /\ u.jobs[i] = jt.jobs[i]
             /\ \A q \in Pids \ {pid} : \A st :
                  /\ Kept(jt, q, st)
                  /\ find_job(jt, pid) \in Dead(jt) =>
                       find_last_pid(jt.jobs[find_job(jt, pid)]) # q
                  => Kept(u, q, st)
<1>1. PICK t : t = delete_old_job(jt, pid)
  OBVIOUS
<1>2. PICK u : u = [t EXCEPT !.saved[pid] = NoStatus] /\ u = make_child(jt, pid)
  BY <1>1 DEF make_child
<1>3. /\ TableInv(t) /\ Alive(t) = Alive(jt) /\ ~Holds(t, pid)
      /\ \A q \in Pids : Holds(t, q) => Holds(jt, q)
      /\ \A i \in Dead(t) : i \in Dead(jt) /\ t.jobs[i] = jt.jobs[i]
      /\ \A q \in Pids \ {pid} : \A st :
           /\ Kept(jt, q, st)
           /\ find_job(jt, pid) \in Dead(jt) =>
                find_last_pid(jt.jobs[find_job(jt, pid)]) # q
           => Kept(t, q, st)
  BY <1>1, OldJobDeleted
<1>4. Shape(t) /\ IndicesOK(t) /\ CurrentOK(t) /\ ContentsOK(t) /\ DOMAIN t = Fields
      /\ t.saved \in [Pids \cup {0} -> Statuses \cup {0, NoStatus}]
  BY <1>3 DEF TableInv, Shape
<1>5. /\ DOMAIN u = Fields /\ u.slots = t.slots /\ u.njobs = t.njobs
      /\ u.firstj = t.firstj /\ u.lastj = t.lastj
      /\ u.current = t.current /\ u.previous = t.previous /\ u.jobs = t.jobs
      /\ u.saved = [t.saved EXCEPT ![pid] = NoStatus]
  BY <1>2, <1>4 DEF Fields
<1>6. Indices(u) = Indices(t)
  BY <1>5 DEF Indices
<1>7. Shape(u) /\ IndicesOK(u) /\ CurrentOK(u)
  BY <1>4, <1>5, <1>6, SameContents DEF Shape, IndicesOK, CurrentOK
<1>8. /\ ContentsOK(u) /\ Alive(u) = Alive(t) /\ Dead(u) = Dead(t)
      /\ \A q : Holds(u, q) <=> Holds(t, q)
  BY <1>4, <1>5, <1>6, SameContents
<1>9. \A q \in Pids \ {pid} : \A st : Kept(t, q, st) => Kept(u, q, st)
  BY <1>4, <1>5, <1>6, <1>8 DEF Kept
<1> QED
  BY <1>2, <1>3, <1>5, <1>7, <1>8, <1>9 DEF TableInv

\* An exit is recorded in the list that has the process, and there only.
LEMMA ExitedProcess ==
  ASSUME NEW procs \in Seq(Processes), ProcsOK(procs), NEW pid \in Pids,
         NEW status \in Statuses, AliveAt(procs, pid) # {}
  PROVE  LET new == Exited(procs, pid, status)
         IN  /\ new \in Seq(Processes) /\ Len(new) = Len(procs) /\ ProcsOK(new)
             /\ AnyRunning(procs)
             /\ \A q : At(new, q) = At(procs, q)
             /\ AliveAt(new, pid) = {}
             /\ \A q \in Pids \ {pid} : AliveAt(new, q) = AliveAt(procs, q)
             /\ \A k \in DOMAIN procs :
                  /\ procs[k].pid = pid => ~new[k].running /\ new[k].status = status
                  /\ procs[k].pid # pid => new[k] = procs[k]
<1>1. PICK k \in DOMAIN procs : k = Min(AliveAt(procs, pid)) /\ At(procs, pid) = {k}
                                /\ procs[k].running /\ procs[k].pid = pid
  <2>1. /\ AliveAt(procs, pid) = {Min(AliveAt(procs, pid))}
        /\ At(procs, pid) = {Min(AliveAt(procs, pid))}
    BY FoundProcess
  <2>2. Min(AliveAt(procs, pid)) \in AliveAt(procs, pid)
    BY <2>1
  <2> QED
    BY <2>1, <2>2 DEF AliveAt, At
<1>2. PICK new : new = [procs EXCEPT ![k].running = FALSE, ![k].status = status]
                 /\ new = Exited(procs, pid, status)
  BY <1>1 DEF Exited
<1>3. DOMAIN procs = 1 .. Len(procs) /\ \A l \in DOMAIN procs : procs[l] \in Processes
  OBVIOUS
<1>4. PICK p \in Processes : p = procs[k]
  BY <1>1, <1>3
<1>5. PICK e : e = [p EXCEPT !.running = FALSE, !.status = status]
  OBVIOUS
<1>6. e \in Processes /\ e.pid = pid /\ ~e.running /\ e.status = status
  BY <1>1, <1>4, <1>5 DEF Processes
<1>7. /\ DOMAIN new = DOMAIN procs /\ new[k] = e
      /\ \A l \in DOMAIN procs : l # k => new[l] = procs[l]
  BY <1>1, <1>2, <1>4, <1>5 DEF Processes
<1>8. new \in Seq(Processes) /\ Len(new) = Len(procs)
  <2>1. new = [procs EXCEPT ![k] = e]
    BY <1>1, <1>2, <1>4, <1>5 DEF Processes
  <2> QED
    BY <1>1, <1>6, <2>1
<1>9. \A l \in DOMAIN procs : new[l].pid = procs[l].pid
  BY <1>1, <1>6, <1>7
<1>10. \A q : At(new, q) = At(procs, q)
  BY <1>7, <1>9 DEF At
<1>11. \A l \in DOMAIN procs : procs[l].pid = pid => l = k
  BY <1>1 DEF At
<1>12. ProcsOK(new)
  BY <1>1, <1>6, <1>7, <1>9 DEF ProcsOK
<1>13. AnyRunning(procs)
  BY <1>1 DEF AnyRunning
<1>14. AliveAt(new, pid) = {}
  BY <1>6, <1>7, <1>9, <1>11 DEF AliveAt, At
<1>15. \A q \in Pids \ {pid} : AliveAt(new, q) = AliveAt(procs, q)
  BY <1>1, <1>6, <1>7, <1>9 DEF AliveAt, At
<1>16. \A l \in DOMAIN procs : /\ procs[l].pid = pid => ~new[l].running /\ new[l].status = status
                               /\ procs[l].pid # pid => new[l] = procs[l]
  BY <1>1, <1>6, <1>7, <1>11
<1> QED
  BY <1>2, <1>8, <1>10, <1>12, <1>13, <1>14, <1>15, <1>16

LEMMA ExitRecorded ==
  ASSUME NEW jt, TableInv(jt), NEW pid \in Alive(jt), NEW status \in Statuses
  PROVE  LET u == RecordExit(jt, pid, status)
         IN  /\ TableInv(u)
             /\ Alive(u) = Alive(jt) \ {pid}
             /\ \A q \in Pids : Holds(u, q) => Holds(jt, q)
             /\ \A q \in Pids : \A st :
                  Kept(jt, q, st) /\ (q = pid => st = status) => Kept(u, q, st)
<1> DEFINE u == RecordExit(jt, pid, status)
           i == find_live_job(jt, pid)
           exited == [jt.jobs[i] EXCEPT !.procs = Exited(jt.jobs[i].procs, pid, status)]
<1>1. Shape(jt) /\ ContentsOK(jt) /\ DOMAIN jt = Fields /\ pid \in Pids
  BY DEF TableInv, Shape, Alive
<1>2. u = IF i = NO_JOB THEN jt
           ELSE [jt EXCEPT !.jobs[i] = set_job_status_and_cleanup(exited)]
  BY DEF RecordExit
<1>3. i \in Indices(jt) /\ AliveAt(jt.jobs[i].procs, pid) # {} /\ i # NO_JOB
  BY <1>1, FoundJob, IndicesFinite
<1>4. u = [jt EXCEPT !.jobs[i] = set_job_status_and_cleanup(exited)]
  BY <1>2, <1>3
<1> HIDE DEF u, i
<1>5. PICK j \in Jobs : j = jt.jobs[i] /\ j.procs # <<>>
  BY <1>1, <1>3 DEF Shape
<1>6. /\ j.procs \in Seq(Processes) /\ ProcsOK(j.procs) /\ AliveAt(j.procs, pid) # {}
      /\ j.dead <=> ~AnyRunning(j.procs)
  BY <1>1, <1>3, <1>5 DEF Jobs, ContentsOK
<1>7. PICK procs \in Seq(Processes) :
        /\ procs = Exited(j.procs, pid, status)
        /\ Len(procs) = Len(j.procs) /\ ProcsOK(procs) /\ AnyRunning(j.procs)
        /\ \A q : At(procs, q) = At(j.procs, q)
        /\ AliveAt(procs, pid) = {}
        /\ \A q \in Pids \ {pid} : AliveAt(procs, q) = AliveAt(j.procs, q)
        /\ \A k \in DOMAIN j.procs :
             /\ j.procs[k].pid = pid => ~procs[k].running /\ procs[k].status = status
             /\ j.procs[k].pid # pid => procs[k] = j.procs[k]
  BY <1>1, <1>6, ExitedProcess
<1>8. PICK new : new = set_job_status_and_cleanup([j EXCEPT !.procs = procs])
  OBVIOUS
<1>9. /\ new \in Jobs /\ new.procs = procs /\ new.async = j.async
      /\ new.dead <=> ~AnyRunning(procs)
      /\ ~j.dead
  BY <1>6, <1>7, <1>8 DEF set_job_status_and_cleanup, Jobs, AnyRunning
<1>10. procs # <<>>
  BY <1>5, <1>6, <1>7
<1>11. Rewritten(jt, u, i, new)
  <2>1. /\ DOMAIN u = Fields /\ u.jobs = [jt.jobs EXCEPT ![i] = new]
        /\ \A f \in Fields \ {"jobs"} : u[f] = jt[f]
    BY <1>1, <1>4, <1>5, <1>7, <1>8 DEF Fields
  <2> QED
    BY <1>3, <2>1 DEF Rewritten, Indices
<1>12. /\ Indices(u) = Indices(jt) /\ u.saved = jt.saved /\ u.jobs[i] = new
       /\ \A k \in Indices(jt) : k # i => u.jobs[k] = jt.jobs[k]
  BY <1>11 DEF Rewritten, Fields
<1>13. TableInv(u) /\ \A q \in Pids : Holds(u, q) => Holds(jt, q)
  <2>1. /\ new.procs # <<>> /\ ProcsOK(new.procs)
        /\ new.async = jt.jobs[i].async
        /\ new.dead <=> ~AnyRunning(new.procs)
        /\ jt.jobs[i].dead => new.dead
        /\ \A q \in Pids : At(new.procs, q) # {} => At(jt.jobs[i].procs, q) # {}
    BY <1>5, <1>7, <1>9, <1>10
  <2> QED
    BY <1>9, <1>11, <2>1, RewrittenTable
<1>14. Alive(u) = Alive(jt) \ {pid}
  <2>1. \A k \in Indices(jt) \ {i} : AliveAt(jt.jobs[k].procs, pid) = {}
    BY <1>1, <1>3 DEF ContentsOK, AliveAt
  <2>2. ASSUME NEW q \in Pids \ {pid}, NEW k \in Indices(jt)
        PROVE  AliveAt(u.jobs[k].procs, q) = AliveAt(jt.jobs[k].procs, q)
    BY <1>5, <1>7, <1>9, <1>12
  <2>3. \A k \in Indices(jt) : AliveAt(u.jobs[k].procs, pid) = {}
    BY <1>7, <1>9, <1>12, <2>1
  <2> QED
    BY <1>12, <2>2, <2>3 DEF Alive
<1>15. ASSUME NEW q \in Pids, NEW st, Kept(jt, q, st), q = pid => st = status
       PROVE  Kept(u, q, st)
  <2>1. \A k \in Indices(jt) : At(u.jobs[k].procs, q) = At(jt.jobs[k].procs, q)
    BY <1>5, <1>7, <1>9, <1>12
  <2>2. Keeper(j, q, st) => Keeper(new, q, st)
    <3>1. Len(j.procs) \in DOMAIN j.procs /\ Len(procs) = Len(j.procs)
      BY <1>5, <1>7, LastProcess
    <3>2. CASE q = pid
      <4>1. j.procs[Len(j.procs)].pid = q =>
              procs[Len(procs)].status = st /\ procs[Len(procs)].pid = q
        <5>1. \A k \in At(procs, q) : procs[k].pid = q
          BY DEF At
        <5>2. j.procs[Len(j.procs)].pid = q => Len(j.procs) \in At(procs, q)
          BY <1>7, <3>1 DEF At
        <5> QED
          BY <1>7, <1>15, <3>1, <3>2, <5>1, <5>2
      <4> QED
        BY <1>9, <4>1 DEF Keeper, find_last_pid, find_last_proc, job_exit_status
    <3>3. CASE q # pid
      <4>1. j.procs[Len(j.procs)].pid = q => procs[Len(procs)] = j.procs[Len(j.procs)]
        BY <1>7, <3>1, <3>3
      <4> QED
        BY <1>9, <4>1 DEF Keeper, find_last_pid, find_last_proc, job_exit_status
    <3> QED
      BY <3>2, <3>3
  <2>3. \A k \in Indices(jt) : Keeper(jt.jobs[k], q, st) => Keeper(u.jobs[k], q, st)
    BY <1>5, <1>12, <2>2
  <2> QED
    BY <1>12, <1>15, <2>1, <2>3 DEF Kept, Holds
<1> QED
  BY <1>13, <1>14, <1>15 DEF u

\* Without children all jobs are dead already.
LEMMA MarkAllImproves ==
  ASSUME NEW jt, TableInv(jt), Alive(jt) = {}
  PROVE  Improves(jt, mark_all_jobs_as_dead(jt))
<1>1. Shape(jt) /\ ContentsOK(jt) /\ DOMAIN jt = Fields
  BY DEF TableInv, Shape
<1>2. PICK u : u = mark_all_jobs_as_dead(jt)
  OBVIOUS
<1>3. /\ DOMAIN u = Fields
      /\ \A f \in Fields \ {"jobs"} : u[f] = jt[f]
      /\ u.jobs = [i \in Indices(jt) |-> [jt.jobs[i] EXCEPT !.dead = TRUE]]
  BY <1>1, <1>2 DEF mark_all_jobs_as_dead, Fields, Indices
<1>4. Indices(u) = Indices(jt)
  BY <1>3 DEF Indices
<1>5. ASSUME NEW i \in Indices(jt)
      PROVE  u.jobs[i] \in Jobs /\ SameButTold(jt.jobs[i], u.jobs[i])
  <2>1. PICK job \in Jobs : job = jt.jobs[i]
    BY <1>1, <1>5 DEF Shape
  <2>2. job.dead = TRUE
    <3>1. \A pid \in Pids : AliveAt(job.procs, pid) = {}
      BY <2>1 DEF Alive
    <3>2. ProcsOK(job.procs) /\ (job.dead <=> ~AnyRunning(job.procs))
      BY <1>1, <2>1 DEF ContentsOK
    <3>3. ~AnyRunning(job.procs)
      BY <3>1, <3>2 DEF AnyRunning, AliveAt, At, ProcsOK
    <3> QED
      BY <3>2, <3>3 DEF Jobs
  <2>3. u.jobs[i] = [job EXCEPT !.dead = TRUE]
    BY <1>3, <1>5, <2>1
  <2> QED
    BY <2>1, <2>2, <2>3 DEF Jobs, SameButTold
<1> QED
  BY <1>2, <1>3, <1>4, <1>5, TellingImproves

LEMMA InitialTableOK == TableInv(InitialTable) /\ Alive(InitialTable) = {}
<1> DEFINE jt == InitialTable
<1>1. /\ DOMAIN jt = Fields /\ jt.slots = 0 /\ jt.jobs = <<>> /\ jt.firstj = 0 /\ jt.lastj = 0
      /\ jt.njobs = 0 /\ jt.current = NO_JOB /\ jt.previous = NO_JOB /\ jt.saved = NoSaved
  BY DEF InitialTable, Fields
<1>2. Indices(jt) = {}
  BY <1>1 DEF Indices
<1> HIDE DEF jt
<1>3. Shape(jt)
  BY <1>1, <1>2 DEF Shape, NoSaved
<1>4. IndicesOK(jt)
  BY <1>1, <1>2, FS_EmptySet DEF IndicesOK
<1>5. CurrentOK(jt) /\ ContentsOK(jt) /\ Alive(jt) = {}
  BY <1>1, <1>2 DEF CurrentOK, ContentsOK, Alive, Running, Background
<1> QED
  BY <1>3, <1>4, <1>5 DEF TableInv, jt

------------------------------------------------------------------------------
\* queue_sigchld is raised at the places named Queueing and only there: the
\* conjunct of TypeOK the proof needs.
QueueRaised == queue_sigchld = IF pc \in Queueing THEN 1 ELSE 0

\* Inductive.  QueueRaised is needed because the handler that finds
\* queue_sigchld raised only counts, which unseen records.
NoticeInv == QueueRaised /\ NoticedUnlessQueued

\* What every step of the shell does to the children that have exited: it
\* takes no announcement away, brings no new zombie, and stops looking for
\* children only when there are none.
KeepsNotice ==
  /\ pending' = pending /\ handling' = handling
  /\ zombies = <<>> => zombies' = <<>>
  /\ pc = "unqueueing" => pc' = "unqueueing" \/ zombies' = <<>>

LEMMA NoticeKept ==
  ASSUME NoticedUnlessQueued, KeepsNotice,
         unseen' = unseen \/ (unseen' = (unseen /\ ~EmptyWaitpid))
  PROVE  NoticedUnlessQueued'
<1>1. CASE zombies = <<>>
  BY <1>1 DEF KeepsNotice, NoticedUnlessQueued
<1>2. CASE zombies # <<>>
  <2>1. unseen' = unseen \/ unseen' = (unseen /\ TRUE)
    BY <1>2 DEF EmptyWaitpid
  <2> QED
    BY <1>2, <2>1 DEF KeepsNotice, NoticedUnlessQueued, LookingForChildren
<1> QED
  BY <1>1, <1>2

\* waitpid returns a child only if there is a zombie.
LEMMA ReapNeedsZombie == ASSUME NEW pid, Reap(pid) PROVE zombies # <<>>
  BY DEF Reap

\* A command begins.
LEMMA ExecuteKeeps == QueueRaised /\ Execute => KeepsNotice /\ QueueRaised'
<1> SUFFICES ASSUME QueueRaised, Execute PROVE KeepsNotice /\ QueueRaised'
  OBVIOUS
<1> USE DEF KeepsNotice, QueueRaised, Queueing, Mainline, kernel, signals, Done
<1>1. CASE \E pid \in Pids, async \in BOOLEAN : MakeChild(pid, async)
  BY <1>1 DEF MakeChild, Fork
<1>2. CASE \E first, last \in Pids, async \in BOOLEAN : Pipeline(first, last, async)
  BY <1>2 DEF Pipeline, Fork
<1>3. CASE \E pid \in Pids : WaitForPid(pid)
  BY <1>3 DEF WaitForPid
<1>4. CASE WaitForAll
  BY <1>4 DEF WaitForAll, Begin
<1>5. CASE WaitForAny
  BY <1>5 DEF WaitForAny, ReturnJob
<1>6. CASE ListJobs
  BY <1>6 DEF ListJobs, Begin
<1>7. CASE ReapInLoop
  BY <1>7 DEF ReapInLoop, Begin
<1>8. CASE ReadLine
  BY <1>8 DEF ReadLine
<1> QED
  BY <1>1, <1>2, <1>3, <1>4, <1>5, <1>6, <1>7, <1>8 DEF Execute

\* The shell goes on: wait_for.
LEMMA WaitForKeeps == QueueRaised /\ WaitForStep => KeepsNotice /\ QueueRaised'
<1> SUFFICES ASSUME QueueRaised, WaitForStep PROVE KeepsNotice /\ QueueRaised'
  OBVIOUS
<1> USE DEF KeepsNotice, QueueRaised, Queueing, Mainline, kernel, signals, Done
<1>1. CASE BlockChild
  BY <1>1 DEF BlockChild
<1>2. CASE GoOnWaiting
  BY <1>2 DEF GoOnWaiting
<1>3. CASE WaitReaps
  <2>1. zombies # <<>> /\ pending' = pending
    BY <1>3, ReapNeedsZombie DEF WaitReaps, Reap
  <2>2. CASE sigchld' > 0
    BY <1>3, <2>1, <2>2 DEF WaitReaps
  <2>3. CASE ~(sigchld' > 0)
    BY <1>3, <2>1, <2>3 DEF WaitReaps, ReturnFromWaitchld
  <2> QED
    BY <2>2, <2>3
<1>4. CASE WaitFindsNobody
  BY <1>4 DEF WaitFindsNobody, FindNobody, ReturnFromWaitchld
<1>5. CASE EndWaitFor
  BY <1>5 DEF EndWaitFor
<1> QED
  BY <1>1, <1>2, <1>3, <1>4, <1>5 DEF WaitForStep

\* The shell goes on: the wait builtin, in all its forms.
LEMMA WaitKeeps == QueueRaised /\ (WaitStep \/ AnyStep) => KeepsNotice /\ QueueRaised'
<1> SUFFICES ASSUME QueueRaised, WaitStep \/ AnyStep PROVE KeepsNotice /\ QueueRaised'
  OBVIOUS
<1> USE DEF KeepsNotice, QueueRaised, Queueing, Mainline, kernel, signals, Done
<1>1. CASE MarkWaited
  BY <1>1 DEF MarkWaited
<1>2. CASE WaitForNext
  BY <1>2 DEF WaitForNext
<1>3. CASE NoneLeft
  BY <1>3 DEF NoneLeft
<1>4. CASE BgpClear
  BY <1>4 DEF BgpClear
<1>5. CASE Return
  BY <1>5 DEF Return
<1>6. CASE LookForJob
  BY <1>6 DEF LookForJob
<1>7. CASE MarkAllDead
  BY <1>7 DEF MarkAllDead
<1>8. CASE LookForDeadJob
  BY <1>8 DEF LookForDeadJob, ReturnJob
<1> QED
  BY <1>1, <1>2, <1>3, <1>4, <1>5, <1>6, <1>7, <1>8 DEF WaitStep, AnyStep

\* The shell goes on: cleanup_dead_jobs.
LEMMA CleanupKeeps == QueueRaised /\ CleanupStep => KeepsNotice /\ QueueRaised'
<1> SUFFICES ASSUME QueueRaised, CleanupStep PROVE KeepsNotice /\ QueueRaised'
  OBVIOUS
<1> USE DEF KeepsNotice, QueueRaised, Queueing, Mainline, kernel, signals, Done
<1>1. CASE ReadSigchld
  BY <1>1 DEF ReadSigchld
<1>2. CASE QueueAndClean
  BY <1>2 DEF QueueAndClean
<1>3. CASE Unqueue
  BY <1>3 DEF Unqueue
<1>4. CASE TestSigchld
  BY <1>4 DEF TestSigchld, AfterCleanup
<1>5. CASE UnqueueReaps
  BY <1>5, ReapNeedsZombie DEF UnqueueReaps, Reap
<1>6. CASE UnqueueFindsNobody
  BY <1>6 DEF UnqueueFindsNobody, FindNobody
<1>7. CASE EndUnqueue
  BY <1>7 DEF EndUnqueue, AfterCleanup
<1> QED
  BY <1>1, <1>2, <1>3, <1>4, <1>5, <1>6, <1>7 DEF CleanupStep

LEMMA ContinueKeeps == QueueRaised /\ Continue => KeepsNotice /\ QueueRaised'
<1> SUFFICES ASSUME QueueRaised, Continue PROVE KeepsNotice /\ QueueRaised'
  OBVIOUS
<1>1. CASE StopPipeline
  BY <1>1 DEF StopPipeline, KeepsNotice, QueueRaised, Queueing, Mainline, kernel,
              signals, Done
<1>2. CASE PrintJobs
  BY <1>2 DEF PrintJobs, KeepsNotice, QueueRaised, Queueing, Mainline, kernel,
              signals, Done
<1>3. CASE EndNotify
  BY <1>3 DEF EndNotify, KeepsNotice, QueueRaised, Queueing, Mainline, kernel
<1> QED
  BY <1>1, <1>2, <1>3, WaitForKeeps, WaitKeeps, CleanupKeeps DEF Continue

\* The handler neither moves the shell nor touches queue_sigchld.
LEMMA HandlerNotices == NoticeInv /\ HHandler => NoticeInv'
<1> SUFFICES ASSUME NoticeInv, HHandler PROVE NoticeInv'
  OBVIOUS
<1> USE DEF NoticeInv, QueueRaised, NoticedUnlessQueued, LookingForChildren
<1>1. CASE sigchld_handler /\ unseen' = (unseen \/ queue_sigchld > 0)
  <2>1. QueueRaised'
    BY <1>1 DEF sigchld_handler
  <2>2. queue_sigchld = 0 => handling'
    BY <1>1 DEF sigchld_handler
  <2>3. queue_sigchld = 0 \/ queue_sigchld > 0
    OBVIOUS
  <2>4. queue_sigchld > 0 => unseen'
    BY ONLY <1>1, Zenon
  <2> QED
    BY <2>1, <2>2, <2>3, <2>4
<1>2. CASE HandlerReaps /\ UNCHANGED unseen
  <2>1. QueueRaised'
    BY <1>2 DEF HandlerReaps
  <2>2. handling'
    BY <1>2 DEF HandlerReaps
  <2> QED
    BY <2>1, <2>2
<1>3. CASE HandlerReturns /\ unseen' = FALSE
  <2>1. QueueRaised'
    BY <1>3 DEF HandlerReturns
  <2>2. zombies' = <<>>
    BY <1>3 DEF HandlerReturns, FindNobody, kernel
  <2> QED
    BY <2>1, <2>2
<1> QED
  BY <1>1, <1>2, <1>3 DEF HHandler

LEMMA NoticeInit == HInit => NoticeInv
  BY DEF HInit, Init, NoticeInv, QueueRaised, Queueing, NoticedUnlessQueued

LEMMA NoticeStep == NoticeInv /\ [HNext]_allVars => NoticeInv'
<1> SUFFICES ASSUME NoticeInv, [HNext]_allVars PROVE NoticeInv'
  OBVIOUS
<1>1. CASE HExecute
  BY <1>1, ExecuteKeeps, NoticeKept DEF HExecute, NoticeInv
<1>2. CASE HContinue
  BY <1>2, ContinueKeeps, NoticeKept DEF HContinue, NoticeInv
<1>3. CASE HHandler
  BY <1>3, HandlerNotices
<1>4. CASE HKernel
  <2>1. pending' = TRUE /\ UNCHANGED <<queue_sigchld, pc>>
    BY <1>4 DEF HKernel, Kernel, Exit, signals
  <2> QED
    BY <2>1 DEF NoticeInv, QueueRaised, NoticedUnlessQueued
<1>5. CASE UNCHANGED allVars
  BY <1>5 DEF allVars, vars, kernel, signals, NoticeInv, QueueRaised,
              NoticedUnlessQueued, LookingForChildren
<1> QED
  BY <1>1, <1>2, <1>3, <1>4, <1>5 DEF HNext

\* A child that has exited is announced by a pending SIGCHLD or is being
\* looked for by a waitchld that runs until waitpid finds nobody, unless its
\* SIGCHLD came while queue_sigchld was raised: QUEUE_SIGCHLD, UNQUEUE_SIGCHLD,
\* the queueing of notify_of_job_status and wait_for's own do not lose more.
THEOREM NeverOverlooked == HSpec => []NoticedUnlessQueued
<1>1. NoticeInv => NoticedUnlessQueued
  BY DEF NoticeInv
<1> QED
  BY <1>1, NoticeInit, NoticeStep, PTL DEF HSpec

(***************************************************************************)
(* The inductive invariant of the shell, its children and the table        *)
(***************************************************************************)
\* TypeOK without the table and queue_sigchld.
PlainOK ==
  /\ living \subseteq Pids
  /\ DOMAIN zombies \subseteq Pids \ living
  /\ \A pid \in DOMAIN zombies : zombies[pid] \in Statuses
  /\ pending \in BOOLEAN
  /\ the_pipeline \in Seq(Processes)
  /\ last_asynchronous_pid \in Pids \cup {NO_PID}
  /\ c_totforked \in 0 .. MaxForks
  /\ sigchld \in Nat /\ handling \in BOOLEAN
  /\ pc \in Places /\ task \in Tasks /\ pstat \in Answers
  /\ owed \in [Pids -> Statuses \cup {NoStatus, Due}]

\* A process is forked and not in a job yet only between make_child and
\* stop_pipeline, and no job has its pid then.
PipeInv ==
  IF pc = "made"
  THEN \E p \in Processes : /\ the_pipeline = <<p>>
                            /\ p.pid = task.pid /\ p.pid \in Pids
                            /\ ~Holds(js, p.pid)
  ELSE the_pipeline = <<>>

\* The processes that run for the shell are its children.
ChildInv ==
  /\ Alive(js) \cup {pid \in Pids : AliveAt(the_pipeline, pid) # {}}
       = living \cup DOMAIN zombies
  /\ pc = "no children" => living = {} /\ zombies = <<>>

\* Where the status of a process that has been in $! is, or will be.
OwedAt(pid) ==
  /\ owed[pid] = Due => pid \in living
  /\ owed[pid] # Due => /\ pid \notin living
                        /\ pid \in DOMAIN zombies => zombies[pid] = owed[pid]
  /\ IF pc = "made" /\ pid = task.pid
     THEN /\ task.async
          /\ the_pipeline[1].running \/ the_pipeline[1].status = owed[pid]
     ELSE Kept(js, pid, owed[pid])

OwedInv == \A pid \in Pids : owed[pid] # NoStatus => OwedAt(pid)

\* What the shell may be doing at each place.
Waits == {"wait", "wait all", "wait any"}

OpsAt(place) ==
  CASE place = "ready" -> {"none"}
    [] place = "made" -> {"command"}
    [] place \in {"start", "check", "waitpid"} -> {"command", "pipeline"} \cup Waits
    [] place = "waited" -> {"wait", "wait all"}
    [] place \in {"scan", "clear"} -> {"wait all"}
    [] place = "answered" -> Waits
    [] place \in {"any", "looked", "no children"} -> {"wait any"}
    [] place = "list" -> {"jobs"}
    [] place = "notifying" -> {"line"}
    [] OTHER -> {"jobs", "wait all", "loop", "line"}

PlaceInv ==
  /\ task.op \in OpsAt(pc)
  /\ task.op = "wait any" <=> task.pid = ANY_PID

\* An answer is the status owed.
AnswerInv ==
  /\ task.op \notin Waits => pstat = NoAnswer
  /\ pstat.pid \in Pids /\ owed[pstat.pid] # NoStatus => pstat.status = owed[pstat.pid]

TablesInv == TableInv(js) /\ PipeInv /\ ChildInv /\ OwedInv

JobsInv == PlainOK /\ QueueRaised /\ TablesInv /\ PlaceInv /\ AnswerInv

\* Statuses are no markers.
LEMMA StatusIsNoMarker ==
  /\ \A st \in Statuses \cup {0} : st # Due /\ st # NoStatus
  /\ NoStatus # Due
  /\ \A pid \in Pids \cup {0} : pid # ANY_PID
  /\ 0 \notin Pids
BY StatusesAssumption, PidsAssumption DEF Due, NoStatus, ANY_PID

\* A step that starts or reaps no process and improves the table at most.
Quiet ==
  /\ living' = living /\ zombies' = zombies /\ the_pipeline' = the_pipeline
  /\ owed' = owed
  /\ Improves(js, js')
  /\ \/ pc' = pc /\ task' = task
     \/ pc # "made" /\ pc' # "made" /\ (pc' = "no children" => living = {} /\ zombies = <<>>)

LEMMA ImprovesItself == ASSUME NEW t, TableInv(t) PROVE Improves(t, t)
BY DEF Improves

LEMMA QuietStep == ASSUME TablesInv, Quiet PROVE TablesInv'
<1>1. PICK t, u : t = js /\ u = js'
  OBVIOUS
<1>2. /\ Improves(t, u) /\ living' = living /\ zombies' = zombies
      /\ the_pipeline' = the_pipeline /\ owed' = owed
  BY <1>1 DEF Quiet
<1>3. TableInv(js')
  BY <1>1, <1>2 DEF Improves
<1>4. PipeInv'
  BY <1>1, <1>2 DEF PipeInv, Improves, Quiet, TablesInv
<1>5. ChildInv'
  BY <1>1, <1>2 DEF ChildInv, Improves, Quiet, TablesInv
<1>6. ASSUME NEW pid \in Pids, owed[pid] # NoStatus
      PROVE  OwedAt(pid)'
  <2>1. OwedAt(pid)
    BY <1>6 DEF TablesInv, OwedInv
  <2>2. PICK st : st = owed[pid]
    OBVIOUS
  <2>3. Kept(t, pid, st) => Kept(u, pid, st)
    BY <1>2 DEF Improves
  <2>4. pc' = "made" /\ pid = task'.pid <=> pc = "made" /\ pid = task.pid
    BY DEF Quiet
  <2>5. pc' = "made" => task' = task
    BY DEF Quiet
  <2> QED
    BY <1>1, <1>2, <2>1, <2>2, <2>3, <2>4, <2>5 DEF OwedAt
<1> QED
  BY <1>2, <1>3, <1>4, <1>5, <1>6 DEF TablesInv, OwedInv

(***************************************************************************)
(* Exits and what waitchld does                                            *)
(***************************************************************************)
LEMMA ExitStep ==
  ASSUME JobsInv, NEW pid \in Pids, NEW status \in Statuses, Exit(pid, status), Remember
  PROVE  PlainOK' /\ TablesInv' /\ AnswerInv'
<1>1. /\ pid \in living /\ living' = living \ {pid} /\ pid \notin DOMAIN zombies
      /\ DOMAIN zombies' = DOMAIN zombies \cup {pid} /\ zombies'[pid] = status
      /\ \A q \in DOMAIN zombies : zombies'[q] = zombies[q]
      /\ UNCHANGED <<js, the_pipeline, last_asynchronous_pid, c_totforked>>
      /\ UNCHANGED <<sigchld, handling, pc, task, pstat>> /\ pending' = TRUE
  BY DEF Exit, table, signals, JobsInv, PlainOK
<1>2. owed' = [q \in Pids |-> IF q = pid /\ owed[q] = Due THEN status ELSE owed[q]]
  <2>1. Forked = {} /\ living \ living' = {pid} /\ Displaced = {}
    BY <1>1 DEF Forked, Displaced
  <2>2. \A q \in Pids : q \notin Displaced \ Forked
    BY <2>1
  <2> QED
    BY <1>1, <2>1, <2>2 DEF Remember, JobsInv, PlainOK
<1>3. PlainOK'
  BY <1>1, <1>2, MaxForksAssumption DEF JobsInv, PlainOK
<1>4. TableInv(js') /\ PipeInv'
  BY <1>1 DEF JobsInv, TablesInv, PipeInv
<1>5. ChildInv'
  <2>1. pc # "no children"
    BY <1>1 DEF JobsInv, TablesInv, ChildInv
  <2> QED
    BY <1>1, <2>1 DEF JobsInv, TablesInv, ChildInv
<1>6. ASSUME NEW q \in Pids, owed'[q] # NoStatus
      PROVE  OwedAt(q)'
  <2>1. owed[q] # NoStatus /\ OwedAt(q)
    BY <1>2, <1>6, StatusIsNoMarker DEF JobsInv, TablesInv, OwedInv
  <2>2. CASE q # pid \/ owed[q] # Due
    <3>1. owed'[q] = owed[q] /\ q # pid
      BY <1>1, <1>2, <2>1, <2>2 DEF OwedAt
    <3> QED
      BY <1>1, <2>1, <3>1 DEF OwedAt
  <2>3. CASE q = pid /\ owed[q] = Due
    <3>1. owed'[q] = status /\ status # Due
      BY <1>2, <2>3, StatusIsNoMarker
    <3>2. CASE pc = "made" /\ q = task.pid
      <4>1. PICK p \in Processes : the_pipeline = <<p>>
        BY <3>2 DEF JobsInv, TablesInv, PipeInv
      <4>2. the_pipeline[1].running
        BY <2>1, <2>3, <3>2, <4>1, StatusIsNoMarker DEF OwedAt, Processes
      <4> QED
        BY <1>1, <2>1, <2>3, <3>1, <3>2, <4>2 DEF OwedAt
    <3>3. CASE ~(pc = "made" /\ q = task.pid)
      <4>1. PICK t : t = js /\ TableInv(t) /\ Kept(t, q, Due)
        BY <2>1, <2>3, <3>3 DEF OwedAt, JobsInv, TablesInv
      <4>2. t.saved \in [Pids \cup {0} -> Statuses \cup {0, NoStatus}]
            /\ \A i \in Indices(t) : t.jobs[i] \in Jobs /\ t.jobs[i].procs # <<>>
        BY <4>1 DEF TableInv, Shape
      <4>3. ASSUME NEW i \in Indices(t), Keeper(t.jobs[i], q, Due)
            PROVE  Keeper(t.jobs[i], q, status)
        <5>1. job_exit_status(t.jobs[i]) # Due
          BY <4>2, LastProcess, StatusIsNoMarker
        <5> QED
          BY <4>3, <5>1 DEF Keeper
      <4>4. t.saved[q] # Due
        BY <4>2, StatusIsNoMarker
      <4>5. Kept(t, q, status)
        BY <4>1, <4>3, <4>4 DEF Kept
      <4> QED
        BY <1>1, <2>3, <3>1, <3>3, <4>1, <4>5 DEF OwedAt
    <3> QED
      BY <3>2, <3>3
  <2> QED
    BY <2>2, <2>3
<1>7. AnswerInv'
  <2>1. pstat.pid \in Pids => owed[pstat.pid] # Due
    <3>1. pstat.status # Due
      BY StatusIsNoMarker DEF JobsInv, PlainOK, Answers, NOT_FOUND, Due
    <3> QED
      BY <3>1, StatusIsNoMarker DEF JobsInv, AnswerInv
  <2> QED
    BY <1>1, <1>2, <2>1 DEF JobsInv, AnswerInv
<1> QED
  BY <1>3, <1>4, <1>5, <1>6, <1>7 DEF TablesInv, OwedInv

\* A list of one process, and one of none.
LEMMA SingleProcess ==
  ASSUME NEW p \in Processes
  PROVE  /\ <<p>> \in Seq(Processes) /\ Len(<<p>>) = 1 /\ <<p>> # <<>>
         /\ DOMAIN <<p>> = {1} /\ <<p>>[1] = p
         /\ \A q : At(<<p>>, q) = IF p.pid = q THEN {1} ELSE {}
         /\ \A q : AliveAt(<<p>>, q) = IF p.pid = q /\ p.running THEN {1} ELSE {}
         /\ (p.running => p.pid \in Pids) => ProcsOK(<<p>>)
<1>1. /\ <<p>> \in Seq(Processes) /\ Len(<<p>>) = 1 /\ <<p>> # <<>>
      /\ DOMAIN <<p>> = {1} /\ <<p>>[1] = p
  OBVIOUS
<1>2. PICK procs : procs = <<p>>
  OBVIOUS
<1>3. DOMAIN procs = {1} /\ procs[1] = p
  BY <1>1, <1>2
<1>4. /\ \A q : At(procs, q) = IF p.pid = q THEN {1} ELSE {}
      /\ \A q : AliveAt(procs, q) = IF p.pid = q /\ p.running THEN {1} ELSE {}
      /\ (p.running => p.pid \in Pids) => ProcsOK(procs)
  BY <1>3 DEF At, AliveAt, ProcsOK
<1> QED
  BY <1>1, <1>2, <1>4

LEMMA NoProcess == \A q : At(<<>>, q) = {} /\ AliveAt(<<>>, q) = {}
<1>1. DOMAIN <<>> = {}
  OBVIOUS
<1> QED
  BY <1>1 DEF At, AliveAt

\* A child is reaped: its exit is recorded in the pipeline or in its job.
LEMMA ReapStep ==
  ASSUME JobsInv, NEW pid, Reap(pid), owed' = owed,
         \/ pc' = pc /\ task' = task
         \/ pc # "made" /\ pc' # "made" /\ pc' # "no children"
  PROVE  TablesInv' /\ the_pipeline' \in Seq(Processes)
<1> DEFINE st == zombies[pid]
<1>1. /\ pid \in DOMAIN zombies /\ pid \in Pids /\ st \in Statuses /\ pid \notin living
      /\ living' = living
      /\ zombies' = Restrict(zombies, DOMAIN zombies \ {pid})
      /\ the_pipeline' = IF AliveAt(the_pipeline, pid) = {} THEN the_pipeline
                         ELSE Exited(the_pipeline, pid, zombies[pid])
      /\ js' = IF AliveAt(the_pipeline, pid) = {} THEN RecordExit(js, pid, zombies[pid])
               ELSE js
  BY DEF Reap, JobsInv, PlainOK
<1>2. /\ DOMAIN zombies' = DOMAIN zombies \ {pid}
      /\ \A q \in DOMAIN zombies' : zombies'[q] = zombies[q]
  BY <1>1 DEF Restrict
<1>3. /\ TableInv(js) /\ PipeInv /\ ChildInv /\ OwedInv /\ zombies # <<>>
  BY <1>1, ReapNeedsZombie DEF JobsInv, TablesInv
<1>4. pc # "no children" /\ pc' # "no children"
  BY <1>3 DEF ChildInv
<1>5. owed[pid] # NoStatus => owed[pid] = st
  BY <1>1, <1>3 DEF OwedInv, OwedAt
<1> HIDE DEF st
<1>6. CASE AliveAt(the_pipeline, pid) # {}
  <2>1. pc = "made" /\ pc' = pc /\ task' = task
    BY <1>3, <1>6, NoProcess DEF PipeInv
  <2>2. PICK p \in Processes : /\ the_pipeline = <<p>>
                               /\ p.pid = task.pid /\ p.pid \in Pids
                               /\ ~Holds(js, p.pid)
    BY <1>3, <2>1 DEF PipeInv
  <2>3. p.pid = pid /\ p.running
    BY <1>6, <2>2, SingleProcess
  <2>4. <<p>> \in Seq(Processes) /\ ProcsOK(<<p>>)
    BY <2>2, SingleProcess
  <2>5. PICK new \in Seq(Processes) :
          /\ new = Exited(<<p>>, pid, st)
          /\ Len(new) = 1
          /\ \A q : At(new, q) = At(<<p>>, q)
          /\ AliveAt(new, pid) = {}
          /\ \A q \in Pids \ {pid} : AliveAt(new, q) = AliveAt(<<p>>, q)
          /\ new[1].status = st
    <3>1. PICK procs \in Seq(Processes) : procs = <<p>> /\ ProcsOK(procs)
      BY <2>4
    <3>2. Len(procs) = 1 /\ 1 \in DOMAIN procs /\ procs[1].pid = pid
      BY <2>3, <3>1, SingleProcess
    <3>3. AliveAt(procs, pid) # {} /\ st \in Statuses /\ pid \in Pids
      BY <1>1, <1>6, <2>2, <3>1 DEF st
    <3>4. PICK new : new = Exited(procs, pid, st)
      OBVIOUS
    <3>5. /\ new \in Seq(Processes) /\ Len(new) = Len(procs)
          /\ \A q : At(new, q) = At(procs, q)
          /\ AliveAt(new, pid) = {}
          /\ \A q \in Pids \ {pid} : AliveAt(new, q) = AliveAt(procs, q)
          /\ \A k \in DOMAIN procs :
               /\ procs[k].pid = pid => ~new[k].running /\ new[k].status = st
               /\ procs[k].pid # pid => new[k] = procs[k]
      <4>1. ProcsOK(procs)
        BY <3>1
      <4>2. PICK s \in Statuses, r \in Pids : s = st /\ r = pid
        BY <3>3
      <4>3. AliveAt(procs, r) # {}
        BY <3>3, <4>2
      <4>4. PICK exited : exited = Exited(procs, r, s)
        OBVIOUS
      <4>5. /\ exited \in Seq(Processes) /\ Len(exited) = Len(procs)
            /\ \A q : At(exited, q) = At(procs, q)
            /\ AliveAt(exited, r) = {}
            /\ \A q \in Pids \ {r} : AliveAt(exited, q) = AliveAt(procs, q)
            /\ \A k \in DOMAIN procs :
                 /\ procs[k].pid = r => ~exited[k].running /\ exited[k].status = s
                 /\ procs[k].pid # r => exited[k] = procs[k]
        BY ONLY <4>1, <4>3, <4>4, ExitedProcess
      <4> QED
        BY <3>4, <4>2, <4>4, <4>5
    <3> QED
      BY <3>1, <3>2, <3>4, <3>5
  <2>6. PICK e \in Processes : new = <<e>> /\ e.pid = pid /\ e.status = st
    <3>1. new = <<new[1]>> /\ new[1] \in Processes
      BY ONLY new \in Seq(Processes), <2>5
    <3>2. 1 \in At(new, pid)
      <4>1. At(<<p>>, pid) = {1}
        BY <2>2, <2>3, SingleProcess
      <4> QED
        BY <2>5, <4>1
    <3> QED
      BY <2>5, <3>1, <3>2 DEF At
  <2>7. the_pipeline' = new /\ js' = js
    BY <1>1, <1>6, <2>2, <2>5 DEF st
  <2>8. PipeInv'
    BY <2>1, <2>2, <2>3, <2>6, <2>7 DEF PipeInv
  <2>9. ChildInv'
    <3>1. pid \notin Alive(js)
      BY <2>2, <2>3 DEF Holds, Alive, AliveAt
    <3>2. {q \in Pids : AliveAt(new, q) # {}} = {q \in Pids : AliveAt(<<p>>, q) # {}} \ {pid}
      BY <2>5
    <3> QED
      BY <1>1, <1>2, <1>3, <1>4, <2>2, <2>7, <3>1, <3>2 DEF ChildInv
  <2>10. ASSUME NEW q \in Pids, owed[q] # NoStatus
         PROVE  OwedAt(q)'
    <3>1. OwedAt(q)
      BY <1>3, <2>10 DEF OwedInv
    <3>2. CASE q = pid
      BY <1>1, <1>2, <1>5, <2>1, <2>2, <2>3, <2>6, <2>7, <2>10, <3>1, <3>2 DEF OwedAt
    <3>3. CASE q # pid
      BY <1>1, <1>2, <2>1, <2>2, <2>3, <2>7, <3>1, <3>3 DEF OwedAt
    <3> QED
      BY <3>2, <3>3
  <2> QED
    BY <1>3, <2>5, <2>7, <2>8, <2>9, <2>10 DEF TablesInv, OwedInv
<1>7. CASE AliveAt(the_pipeline, pid) = {}
  <2>1. PICK t, u : t = js /\ u = js' /\ u = RecordExit(t, pid, st)
    BY <1>1, <1>7 DEF st
  <2>2. TableInv(t) /\ pid \in Alive(t) /\ the_pipeline' = the_pipeline
    BY <1>1, <1>3, <1>7, <2>1 DEF ChildInv
  <2>3. /\ TableInv(u) /\ Alive(u) = Alive(t) \ {pid}
        /\ \A q \in Pids : Holds(u, q) => Holds(t, q)
        /\ \A q \in Pids : \A s : Kept(t, q, s) /\ (q = pid => s = st) => Kept(u, q, s)
    <3>1. st \in Statuses
      BY <1>1 DEF st
    <3> QED
      BY ONLY <2>1, <2>2, <3>1, ExitRecorded
  <2>4. PipeInv'
    BY <1>3, <2>1, <2>2, <2>3 DEF PipeInv
  <2>5. ChildInv'
    BY <1>1, <1>2, <1>3, <1>4, <1>7, <2>1, <2>2, <2>3 DEF ChildInv
  <2>6. ASSUME NEW q \in Pids, owed[q] # NoStatus
        PROVE  OwedAt(q)'
    <3>1. OwedAt(q)
      BY <1>3, <2>6 DEF OwedInv
    <3>2. PICK s : s = owed[q]
      OBVIOUS
    <3>3. Kept(t, q, s) => Kept(u, q, s)
      BY <1>5, <2>3, <2>6, <3>2
    <3>4. pc' = "made" /\ q = task'.pid <=> pc = "made" /\ q = task.pid
      OBVIOUS
    <3>5. pc' = "made" => task' = task
      OBVIOUS
    <3> QED
      BY <1>1, <1>2, <2>1, <2>2, <3>1, <3>2, <3>3, <3>4, <3>5 DEF OwedAt
  <2> QED
    BY <2>1, <2>2, <2>3, <2>4, <2>5, <2>6 DEF TablesInv, OwedInv, JobsInv, PlainOK
<1> QED
  BY <1>6, <1>7

(***************************************************************************)
(* New processes                                                           *)
(***************************************************************************)
\* What Remember does when processes were forked.
LEMMA RememberForked ==
  ASSUME PlainOK, Remember, pc = "ready", NEW new \in SUBSET Pids,
         living' = living \cup new, \A q \in new : Unused(q)
  PROVE  /\ Forked = new
         /\ owed' \in [Pids -> Statuses \cup {NoStatus, Due}]
         /\ \A q \in new : owed'[q] = IF last_asynchronous_pid' = q /\ InBackground
                                      THEN Due ELSE NoStatus
         /\ \A q \in Pids \ new :
              owed'[q] = IF q \in Displaced /\ owed[q] # Due THEN NoStatus ELSE owed[q]
<1>1. Forked = new /\ living \ living' = {}
  BY DEF Forked, Unused
<1>2. owed' = [q \in Pids |->
    CASE q \in new -> IF last_asynchronous_pid' = q /\ InBackground
                      THEN Due ELSE NoStatus
      [] q \in {} /\ owed[q] = Due -> zombies'[q]
      [] \/ q \in Displaced \ new
         \/ pc = "clear" /\ pc' # pc -> IF owed[q] = Due THEN Due ELSE NoStatus
      [] OTHER -> owed[q]]
  BY <1>1 DEF Remember
<1> HIDE DEF Displaced, InBackground
<1>3. \A q \in new : owed'[q] = IF last_asynchronous_pid' = q /\ InBackground
                                THEN Due ELSE NoStatus
  BY <1>2
<1>4. ASSUME NEW q \in Pids \ new
      PROVE  owed'[q] = IF q \in Displaced /\ owed[q] # Due THEN NoStatus ELSE owed[q]
  BY <1>2, <1>4
<1>5. owed' \in [Pids -> Statuses \cup {NoStatus, Due}]
  <2>1. \A q \in Pids : owed'[q] \in Statuses \cup {NoStatus, Due}
    BY <1>3, <1>4 DEF PlainOK
  <2> QED
    BY <1>2, <2>1
<1> QED
  BY <1>1, <1>3, <1>4, <1>5

\* A status owed for a process whose job is dead is a status.
LEMMA DisplacedIsNotDue ==
  ASSUME NEW t, TableInv(t), NEW i \in Dead(t), NEW q \in Pids,
         find_last_pid(t.jobs[i]) = q, Kept(t, q, Due)
  PROVE  FALSE
<1>1. i \in Indices(t) /\ t.jobs[i].dead /\ t.jobs[i] \in Jobs /\ t.jobs[i].procs # <<>>
      /\ (t.jobs[i].dead <=> ~AnyRunning(t.jobs[i].procs))
  BY DEF Dead, TableInv, Shape, ContentsOK
<1>2. At(t.jobs[i].procs, q) # {} /\ ~find_last_proc(t.jobs[i]).running
      /\ job_exit_status(t.jobs[i]) \in Statuses \cup {0}
  BY <1>1, LastProcess DEF AnyRunning
<1>3. Keeper(t.jobs[i], q, Due)
  BY <1>1, <1>2 DEF Kept
<1> QED
  BY <1>2, <1>3, StatusIsNoMarker DEF Keeper

LEMMA MakeChildStep ==
  ASSUME JobsInv, NEW pid \in Pids, NEW async \in BOOLEAN, MakeChild(pid, async), Remember
  PROVE  PlainOK' /\ TablesInv' /\ PlaceInv' /\ AnswerInv'
<1>1. /\ pc = "ready" /\ pc' = "made" /\ task' = Task("command", pid, async)
      /\ Unused(pid) /\ living' = living \cup {pid} /\ zombies' = zombies
      /\ c_totforked' = c_totforked + Cardinality({pid}) /\ c_totforked' <= MaxForks
      /\ the_pipeline' = <<Child(pid)>> /\ js' = make_child(js, pid)
      /\ last_asynchronous_pid' = (IF async THEN pid ELSE last_asynchronous_pid)
      /\ UNCHANGED <<pending, sigchld, handling, pstat>>
  BY DEF MakeChild, Mainline, Fork, signals
<1>2. /\ PlainOK /\ TableInv(js) /\ PipeInv /\ ChildInv /\ OwedInv /\ the_pipeline = <<>>
  BY <1>1 DEF JobsInv, TablesInv, PipeInv
<1>3. task'.op = "command" /\ task'.async = async /\ task'.pid = pid /\ task' \in Tasks
  BY <1>1 DEF Task, Tasks, Ops
<1>4. Child(pid) \in Processes /\ Child(pid).pid = pid /\ Child(pid).running
  BY DEF Child, Processes
<1>5. /\ owed' \in [Pids -> Statuses \cup {NoStatus, Due}]
      /\ owed'[pid] = (IF async THEN Due ELSE NoStatus)
      /\ \A q \in Pids \ {pid} :
           owed'[q] = IF q \in Displaced /\ owed[q] # Due THEN NoStatus ELSE owed[q]
      /\ Forked = {pid}
  <2>1. InBackground <=> async
    BY <1>1, <1>3 DEF InBackground
  <2>2. /\ Forked = {pid}
        /\ owed' \in [Pids -> Statuses \cup {NoStatus, Due}]
        /\ \A q \in {pid} : owed'[q] = IF last_asynchronous_pid' = q /\ InBackground
                                       THEN Due ELSE NoStatus
        /\ \A q \in Pids \ {pid} :
             owed'[q] = IF q \in Displaced /\ owed[q] # Due THEN NoStatus ELSE owed[q]
    BY <1>1, <1>2, RememberForked
  <2> QED
    BY <1>1, <2>1, <2>2
<1>6. PICK t, u : t = js /\ u = js' /\ u = make_child(t, pid)
  BY <1>1
<1>7. pid \notin Alive(t) /\ Alive(t) = living \cup DOMAIN zombies
  BY <1>1, <1>2, <1>6 DEF ChildInv, Unused, AliveAt, At
<1>8. /\ TableInv(u) /\ Alive(u) = Alive(t) /\ ~Holds(u, pid)
      /\ \A q \in Pids \ {pid} : \A st :
           /\ Kept(t, q, st)
           /\ find_job(t, pid) \in Dead(t) => find_last_pid(t.jobs[find_job(t, pid)]) # q
           => Kept(u, q, st)
  BY <1>2, <1>6, <1>7, ChildMade
<1>9. PlainOK'
  <2>1. the_pipeline' \in Seq(Processes) /\ Cardinality({pid}) = 1
    BY <1>1, <1>4, SingleProcess, FS_Singleton
  <2>2. c_totforked' \in 0 .. MaxForks
    BY <1>1, <1>2, <2>1, MaxForksAssumption DEF PlainOK
  <2>3. /\ living' \subseteq Pids /\ DOMAIN zombies' \subseteq Pids \ living'
        /\ \A q \in DOMAIN zombies' : zombies'[q] \in Statuses
    BY <1>1, <1>2 DEF PlainOK, Unused
  <2> QED
    BY <1>1, <1>2, <1>3, <1>5, <2>1, <2>2, <2>3 DEF PlainOK, Places
<1>10. PipeInv'
  BY <1>1, <1>3, <1>4, <1>6, <1>8 DEF PipeInv
<1>11. ChildInv'
  <2>1. {q \in Pids : AliveAt(<<Child(pid)>>, q) # {}} = {pid}
    BY <1>4 DEF AliveAt, At
  <2> QED
    BY <1>1, <1>6, <1>7, <1>8, <2>1 DEF ChildInv
<1>12. ASSUME NEW q \in Pids, owed'[q] # NoStatus
       PROVE  OwedAt(q)'
  <2>1. CASE q = pid
    <3>1. owed'[q] = Due /\ async
      BY <1>5, <1>12, <2>1
    <3> QED
      BY <1>1, <1>3, <1>4, <2>1, <3>1 DEF OwedAt
  <2>2. CASE q # pid
    <3>1. /\ owed'[q] = owed[q] /\ (q \in Displaced => owed[q] = Due)
          /\ OwedAt(q)
      BY <1>2, <1>5, <1>12, <2>2 DEF OwedInv
    <3>2. PICK st : st = owed[q] /\ Kept(t, q, st)
      BY <1>1, <1>6, <3>1 DEF OwedAt
    <3>3. find_job(t, pid) \in Dead(t) => find_last_pid(t.jobs[find_job(t, pid)]) # q
      <4>1. SUFFICES ASSUME find_job(t, pid) \in Dead(t),
                            find_last_pid(t.jobs[find_job(t, pid)]) = q
                     PROVE  FALSE
        OBVIOUS
      <4>2. q \in Displaced
        BY <1>5, <1>6, <4>1 DEF Displaced
      <4>3. Kept(t, q, Due)
        BY <3>1, <3>2, <4>2
      <4> QED
        BY <1>2, <1>6, <4>1, <4>3, DisplacedIsNotDue
    <3>4. Kept(u, q, st)
      BY <1>8, <2>2, <3>2, <3>3
    <3> QED
      BY <1>1, <1>3, <1>6, <2>2, <3>1, <3>2, <3>4 DEF OwedAt
  <2> QED
    BY <2>1, <2>2
<1>13. PlaceInv'
  BY <1>1, <1>3, StatusIsNoMarker DEF PlaceInv, OpsAt
<1>14. AnswerInv'
  <2>1. pstat = NoAnswer
    BY <1>1 DEF JobsInv, PlaceInv, AnswerInv, OpsAt, Waits
  <2>2. pstat'.pid \notin Pids
    BY <1>1, <2>1, StatusIsNoMarker DEF NoAnswer, Answer
  <2> QED
    BY <1>1, <2>1, <2>2 DEF AnswerInv
<1> QED
  BY <1>6, <1>8, <1>9, <1>10, <1>11, <1>12, <1>13, <1>14 DEF TablesInv, OwedInv

\* Without new processes, and unless wait without arguments forgets, what is
\* owed stays.
LEMMA RememberSame ==
  ASSUME PlainOK, Remember, living' = living, pc # "clear" \/ pc' = pc
  PROVE  owed' = owed
<1>1. Forked = {} /\ living \ living' = {}
  BY DEF Forked
<1>2. Displaced = {}
  BY <1>1 DEF Displaced
<1>3. \A q \in Pids : /\ q \notin Forked /\ q \notin living \ living'
                      /\ q \notin Displaced \ Forked
                      /\ ~(pc = "clear" /\ pc' # pc)
  BY <1>1, <1>2
<1> HIDE DEF Displaced, Forked, InBackground
<1>4. owed' = [q \in Pids |-> owed[q]]
  BY <1>3 DEF Remember
<1> QED
  BY <1>4 DEF PlainOK

LEMMA StopPipelineStep ==
  ASSUME JobsInv, StopPipeline, owed' = owed
  PROVE  PlainOK' /\ TablesInv' /\ PlaceInv' /\ AnswerInv'
<1>1. /\ pc = "made" /\ pc' \in {"ready", "start"}
      /\ task' = (IF task.async THEN NoTask ELSE task)
      /\ pc' = (IF task.async THEN "ready" ELSE "start")
      /\ js' = stop_pipeline(js, the_pipeline, task.async, last_asynchronous_pid)
      /\ the_pipeline' = <<>>
      /\ UNCHANGED <<living, zombies, pending, last_asynchronous_pid, c_totforked>>
      /\ UNCHANGED <<sigchld, handling, pstat>>
  BY DEF StopPipeline, Mainline, Done, kernel, signals
<1>2. PlainOK /\ TableInv(js) /\ PipeInv /\ ChildInv /\ OwedInv /\ task.async \in BOOLEAN
  BY DEF JobsInv, TablesInv, PlainOK, Tasks
<1>3. PICK p \in Processes : /\ the_pipeline = <<p>>
                             /\ p.pid = task.pid /\ p.pid \in Pids
                             /\ ~Holds(js, p.pid)
  BY <1>1, <1>2 DEF PipeInv
<1>4. PICK pipe : pipe = <<p>>
  OBVIOUS
<1>5. /\ pipe \in Seq(Processes) /\ pipe # <<>> /\ ProcsOK(pipe) /\ Len(pipe) = 1 /\ pipe[1] = p
      /\ \A q : At(pipe, q) = IF p.pid = q THEN {1} ELSE {}
      /\ \A q : AliveAt(pipe, q) = IF p.pid = q /\ p.running THEN {1} ELSE {}
  BY <1>3, <1>4, SingleProcess
<1>6. PICK t, u, async, last :
        /\ t = js /\ u = js' /\ async = task.async /\ async \in BOOLEAN
        /\ last = last_asynchronous_pid
        /\ u = stop_pipeline(t, pipe, async, last)
  <2>1. js' = stop_pipeline(js, pipe, task.async, last_asynchronous_pid)
    BY <1>1, <1>3, <1>4
  <2> QED
    BY <1>2, <2>1
<1>7. \A q \in Pids : At(pipe, q) # {} => ~Holds(t, q)
  BY <1>3, <1>5, <1>6
<1>8. /\ TableInv(u)
      /\ \A q \in Pids : q \in Alive(u) <=> q \in Alive(t) \/ AliveAt(pipe, q) # {}
      /\ \A q \in Pids : \A st : Kept(t, q, st) /\ At(pipe, q) = {} => Kept(u, q, st)
      /\ \A q \in Pids : \A st : Keeper(NewJob(pipe, async), q, st) => Kept(u, q, st)
  <2>1. TableInv(t)
    BY <1>2, <1>6
  <2>2. pipe \in Seq(Processes) /\ pipe # <<>> /\ ProcsOK(pipe) /\ async \in BOOLEAN
    BY <1>5, <1>6
  <2>3. u = stop_pipeline(t, pipe, async, last)
    BY <1>6
  <2> QED
    BY ONLY <1>7, <2>1, <2>2, <2>3, JobAdded
<1>9. NoTask \in Tasks /\ NoTask.op = "none" /\ NoTask.pid = 0
  BY DEF NoTask, Task, Tasks, Ops
<1>10. PlainOK'
  BY <1>1, <1>2, <1>9 DEF PlainOK, Places
<1>11. PipeInv' /\ ChildInv'
  <2>1. PipeInv'
    BY <1>1 DEF PipeInv
  <2>2. Alive(u) = living \cup DOMAIN zombies
    <3>1. \A q \in Pids : q \in Alive(u) <=> q \in living \cup DOMAIN zombies
      BY <1>2, <1>3, <1>4, <1>6, <1>8 DEF ChildInv
    <3> QED
      BY <1>2, <3>1 DEF Alive, PlainOK
  <2>3. ChildInv'
    BY <1>1, <1>6, <2>2, NoProcess DEF ChildInv
  <2> QED
    BY <2>1, <2>3
<1>12. ASSUME NEW q \in Pids, owed[q] # NoStatus
       PROVE  OwedAt(q)'
  <2>1. OwedAt(q)
    BY <1>2, <1>12 DEF OwedInv
  <2>2. PICK st : st = owed[q]
    OBVIOUS
  <2>3. CASE q = p.pid
    <3>1. async /\ (p.running \/ p.status = st)
      BY <1>1, <1>3, <1>4, <1>5, <1>6, <2>1, <2>2, <2>3 DEF OwedAt
    <3>2. Keeper(NewJob(pipe, async), q, st)
      BY <1>5, <2>3, <3>1
         DEF Keeper, NewJob, find_last_pid, find_last_proc, job_exit_status
    <3> QED
      BY <1>1, <1>6, <1>8, <2>1, <2>2, <3>2 DEF OwedAt
  <2>4. CASE q # p.pid
    <3>1. Kept(u, q, st)
      BY <1>3, <1>5, <1>6, <1>8, <2>1, <2>2, <2>4 DEF OwedAt
    <3> QED
      BY <1>1, <1>6, <2>1, <2>2, <3>1 DEF OwedAt
  <2> QED
    BY <2>3, <2>4
<1>13. PlaceInv'
  BY <1>1, <1>9, StatusIsNoMarker DEF JobsInv, PlaceInv, OpsAt
<1>14. AnswerInv'
  BY <1>1, <1>9 DEF JobsInv, PlaceInv, OpsAt, AnswerInv, Waits
<1> QED
  BY <1>6, <1>8, <1>10, <1>11, <1>12, <1>13, <1>14 DEF TablesInv, OwedInv

LEMMA BgpClearStep ==
  ASSUME JobsInv, BgpClear, Remember
  PROVE  PlainOK' /\ TablesInv' /\ PlaceInv' /\ AnswerInv'
<1>1. /\ pc = "clear" /\ pc' = "answered" /\ js' = [js EXCEPT !.saved = NoSaved]
      /\ UNCHANGED <<living, zombies, pending, the_pipeline, last_asynchronous_pid, c_totforked>>
      /\ UNCHANGED <<sigchld, handling, task, pstat>>
  BY DEF BgpClear, Mainline, kernel, signals
<1>2. PlainOK /\ TableInv(js) /\ PipeInv /\ ChildInv /\ OwedInv
  BY DEF JobsInv, TablesInv
<1>3. owed' = [q \in Pids |-> IF owed[q] = Due THEN Due ELSE NoStatus]
  <2>1. Forked = {} /\ living \ living' = {} /\ Displaced = {}
    BY <1>1 DEF Forked, Displaced
  <2>2. \A q \in Pids : q \notin Displaced \ Forked
    BY <2>1
  <2> QED
    BY <1>1, <2>1, <2>2 DEF Remember
<1>4. PlainOK'
  BY <1>1, <1>2, <1>3 DEF PlainOK, Places
<1>5. PICK t, u : t = js /\ u = js' /\ u = [t EXCEPT !.saved = NoSaved]
  BY <1>1
<1>6. /\ TableInv(t) /\ Shape(t) /\ IndicesOK(t) /\ CurrentOK(t) /\ ContentsOK(t)
      /\ DOMAIN t = Fields /\ t.saved \in [Pids \cup {0} -> Statuses \cup {0, NoStatus}]
  BY <1>2, <1>5 DEF TableInv, Shape
<1>7. /\ DOMAIN u = Fields /\ u.slots = t.slots /\ u.njobs = t.njobs
      /\ u.firstj = t.firstj /\ u.lastj = t.lastj
      /\ u.current = t.current /\ u.previous = t.previous /\ u.jobs = t.jobs
      /\ u.saved = NoSaved /\ Indices(u) = Indices(t)
  BY <1>5, <1>6 DEF Fields, Indices
<1>8. TableInv(u) /\ Alive(u) = Alive(t) /\ \A q : Holds(u, q) <=> Holds(t, q)
  <2>1. NoSaved \in [Pids \cup {0} -> Statuses \cup {0, NoStatus}]
    BY DEF NoSaved
  <2>2. Shape(u) /\ IndicesOK(u)
    BY <1>6, <1>7, <2>1 DEF Shape, IndicesOK
  <2> QED
    BY <1>6, <1>7, <2>2, SameContents DEF TableInv, CurrentOK
<1>9. PipeInv' /\ ChildInv'
  BY <1>1, <1>2, <1>5, <1>8 DEF PipeInv, ChildInv
<1>10. ASSUME NEW q \in Pids, owed'[q] # NoStatus
       PROVE  OwedAt(q)'
  <2>1. owed'[q] = Due /\ owed[q] = Due /\ OwedAt(q)
    BY <1>2, <1>3, <1>10, StatusIsNoMarker DEF OwedInv
  <2>2. Kept(t, q, Due)
    BY <1>1, <1>5, <2>1 DEF OwedAt
  <2>3. t.saved[q] # Due
    BY <1>6, StatusIsNoMarker
  <2>4. Kept(u, q, Due)
    BY <1>7, <1>8, <2>2, <2>3 DEF Kept
  <2> QED
    BY <1>1, <1>5, <2>1, <2>4 DEF OwedAt
<1>11. PlaceInv'
  BY <1>1 DEF JobsInv, PlaceInv, OpsAt, Waits
<1>12. AnswerInv'
  <2>1. pstat.pid \in Pids /\ owed[pstat.pid] # NoStatus => owed[pstat.pid] # Due
    <3>1. pstat.status # Due
      BY <1>2, StatusIsNoMarker DEF PlainOK, Answers, NOT_FOUND, Due
    <3> QED
      BY <3>1 DEF JobsInv, AnswerInv
  <2> QED
    BY <1>1, <1>3, <2>1 DEF JobsInv, AnswerInv
<1> QED
  BY <1>4, <1>5, <1>8, <1>9, <1>10, <1>11, <1>12 DEF TablesInv, OwedInv

\* Both processes of a pipeline are forked and put in a job of their own.
LEMMA PipelineStep ==
  ASSUME JobsInv, NEW first \in Pids, NEW last \in Pids, NEW async \in BOOLEAN,
         Pipeline(first, last, async), Remember
  PROVE  PlainOK' /\ TablesInv' /\ PlaceInv' /\ AnswerInv'
<1> DEFINE pipe == <<Child(first), Child(last)>>
<1>1. /\ pc = "ready" /\ pc' = (IF async THEN "ready" ELSE "check")
      /\ task' = (IF async THEN NoTask ELSE Task("pipeline", last, async))
      /\ first # last /\ Unused(first) /\ Unused(last)
      /\ living' = living \cup {first, last} /\ zombies' = zombies
      /\ c_totforked' = c_totforked + Cardinality({first, last}) /\ c_totforked' <= MaxForks
      /\ js' = stop_pipeline(make_child(make_child(js, first), last), pipe, async,
                             last_asynchronous_pid')
      /\ last_asynchronous_pid' = (IF async THEN last ELSE last_asynchronous_pid)
      /\ UNCHANGED <<the_pipeline, pending, sigchld, handling, pstat>>
  BY DEF Pipeline, Mainline, Fork, signals
<1>2. /\ PlainOK /\ TableInv(js) /\ PipeInv /\ ChildInv /\ OwedInv /\ the_pipeline = <<>>
  BY <1>1 DEF JobsInv, TablesInv, PipeInv
<1>3. /\ task'.op \in {"none", "pipeline"} /\ task' \in Tasks /\ (~async => task'.op = "pipeline")
      /\ (async => task'.op = "none")
      /\ task'.pid # ANY_PID /\ (~async => ~task'.async)
  BY <1>1, StatusIsNoMarker DEF NoTask, Task, Tasks, Ops
<1>4. /\ owed' \in [Pids -> Statuses \cup {NoStatus, Due}]
      /\ owed'[first] = NoStatus
      /\ owed'[last] = (IF async THEN Due ELSE NoStatus)
      /\ \A q \in Pids \ {first, last} :
           owed'[q] = IF q \in Displaced /\ owed[q] # Due THEN NoStatus ELSE owed[q]
      /\ Forked = {first, last}
  <2>1. InBackground <=> async
    BY <1>1, <1>3 DEF InBackground
  <2>2. /\ Forked = {first, last}
        /\ owed' \in [Pids -> Statuses \cup {NoStatus, Due}]
        /\ \A q \in {first, last} : owed'[q] = IF last_asynchronous_pid' = q /\ InBackground
                                               THEN Due ELSE NoStatus
        /\ \A q \in Pids \ {first, last} :
             owed'[q] = IF q \in Displaced /\ owed[q] # Due THEN NoStatus ELSE owed[q]
    BY <1>1, <1>2, RememberForked
  <2> QED
    BY <1>1, <2>1, <2>2
<1>5. PICK procs : /\ procs = pipe /\ procs \in Seq(Processes) /\ procs # <<>> /\ Len(procs) = 2
                   /\ DOMAIN procs = {1, 2} /\ procs[1] = Child(first) /\ procs[2] = Child(last)
  <2>1. Child(first) \in Processes /\ Child(last) \in Processes
    BY DEF Child, Processes
  <2>2. PICK p \in Processes, q \in Processes : p = Child(first) /\ q = Child(last)
    BY <2>1
  <2>3. /\ <<p, q>> \in Seq(Processes) /\ <<p, q>> # <<>> /\ Len(<<p, q>>) = 2
        /\ DOMAIN <<p, q>> = {1, 2} /\ <<p, q>>[1] = p /\ <<p, q>>[2] = q
    OBVIOUS
  <2> QED
    BY <2>2, <2>3
<1> HIDE DEF pipe
<1>6. /\ \A q : At(procs, q) # {} <=> q \in {first, last}
      /\ \A q : AliveAt(procs, q) # {} <=> q \in {first, last}
      /\ ProcsOK(procs)
  <2>1. /\ procs[1].pid = first /\ procs[1].running /\ procs[2].pid = last /\ procs[2].running
        /\ DOMAIN procs = {1, 2}
    BY <1>5 DEF Child
  <2> QED
    BY <1>1, <2>1 DEF At, AliveAt, ProcsOK
<1>7. PICK t, s, r, u :
        /\ t = js /\ u = js'
        /\ s = make_child(t, first) /\ r = make_child(s, last)
        /\ u = stop_pipeline(r, procs, async, last_asynchronous_pid')
  BY <1>1, <1>5
<1>8. /\ TableInv(t) /\ Alive(t) = living \cup DOMAIN zombies
      /\ first \notin Alive(t) /\ last \notin Alive(t)
  BY <1>1, <1>2, <1>7, NoProcess DEF ChildInv, Unused
<1>9. /\ TableInv(s) /\ Alive(s) = Alive(t) /\ ~Holds(s, first)
      /\ \A i \in Dead(s) : i \in Dead(t) /\ s.jobs[i] = t.jobs[i]
      /\ \A q \in Pids \ {first} : \A st :
           /\ Kept(t, q, st)
           /\ find_job(t, first) \in Dead(t) => find_last_pid(t.jobs[find_job(t, first)]) # q
           => Kept(s, q, st)
  BY <1>7, <1>8, ChildMade
<1>10. /\ TableInv(r) /\ Alive(r) = Alive(s) /\ ~Holds(r, last) /\ ~Holds(r, first)
       /\ \A q \in Pids \ {last} : \A st :
            /\ Kept(s, q, st)
            /\ find_job(s, last) \in Dead(s) => find_last_pid(s.jobs[find_job(s, last)]) # q
            => Kept(r, q, st)
  <2>1. last \notin Alive(s)
    BY <1>8, <1>9
  <2> QED
    BY <1>7, <1>9, <2>1, ChildMade
<1>11. /\ TableInv(u)
       /\ \A q \in Pids : q \in Alive(u) <=> q \in Alive(r) \/ AliveAt(procs, q) # {}
       /\ \A q \in Pids : \A st : Kept(r, q, st) /\ At(procs, q) = {} => Kept(u, q, st)
       /\ \A q \in Pids : \A st : Keeper(NewJob(procs, async), q, st) => Kept(u, q, st)
  <2>1. \A q \in Pids : At(procs, q) # {} => ~Holds(r, q)
    BY <1>6, <1>10
  <2>2. PICK l : l = last_asynchronous_pid'
    OBVIOUS
  <2>3. procs \in Seq(Processes) /\ procs # <<>> /\ ProcsOK(procs) /\ TableInv(r)
    BY <1>5, <1>6, <1>10
  <2>4. u = stop_pipeline(r, procs, async, l)
    BY <1>7, <2>2
  <2> QED
    BY ONLY async \in BOOLEAN, <2>1, <2>3, <2>4, JobAdded
<1>12. find_job(s, last) \in Dead(s) =>
         /\ find_job(t, last) \in Dead(t)
         /\ find_last_pid(t.jobs[find_job(t, last)]) = find_last_pid(s.jobs[find_job(s, last)])
  <2> DEFINE i == find_job(s, last)
             k == find_job(t, last)
  <2> HIDE DEF i, k
  <2>1. SUFFICES ASSUME i \in Dead(s)
                 PROVE  k \in Dead(t) /\ find_last_pid(t.jobs[k]) = find_last_pid(s.jobs[i])
    BY DEF i, k
  <2>2. At(s.jobs[i].procs, last) # {}
    <3>1. i # NO_JOB
      BY <1>9, <2>1, IndicesFinite DEF TableInv, Dead
    <3> QED
      BY <1>9, <3>1, FoundJob DEF i
  <2>3. i \in Dead(t) /\ s.jobs[i] = t.jobs[i] /\ i \in Indices(t)
    BY <1>9, <2>1 DEF Dead
  <2>4. k \in Indices(t) /\ At(t.jobs[k].procs, last) # {}
    BY <1>8, <2>2, <2>3, FoundJob DEF Holds, k
  <2>5. i = k
    BY <1>8, <2>2, <2>3, <2>4 DEF TableInv, ContentsOK
  <2> QED
    BY <2>3, <2>5
<1>13. PlainOK'
  <2>1. Cardinality({first, last}) \in Nat
    <3>1. IsFiniteSet({first, last})
      <4>1. {first, last} = {first} \cup {last}
        OBVIOUS
      <4>2. IsFiniteSet({first}) /\ IsFiniteSet({last})
        BY FS_Singleton
      <4> QED
        BY <4>1, <4>2, FS_Union
    <3> QED
      BY <3>1, FS_CardinalityType
  <2>2. c_totforked' \in 0 .. MaxForks
    BY <1>1, <1>2, <2>1, MaxForksAssumption DEF PlainOK
  <2>3. /\ living' \subseteq Pids /\ DOMAIN zombies' \subseteq Pids \ living'
        /\ \A q \in DOMAIN zombies' : zombies'[q] \in Statuses
    BY <1>1, <1>2 DEF PlainOK, Unused
  <2> QED
    BY <1>1, <1>2, <1>3, <1>4, <2>2, <2>3 DEF PlainOK, Places
<1>14. PipeInv' /\ ChildInv'
  <2>1. PipeInv'
    BY <1>1, <1>2 DEF PipeInv
  <2>2. \A q \in Pids : q \in Alive(u) <=> q \in living' \cup DOMAIN zombies'
    BY <1>1, <1>6, <1>8, <1>9, <1>10, <1>11
  <2>3. Alive(u) = living' \cup DOMAIN zombies'
    BY <1>13, <2>2 DEF Alive, PlainOK
  <2>4. \A q \in Pids : AliveAt(the_pipeline', q) = {}
    BY <1>1, <1>2, NoProcess
  <2> QED
    BY <1>1, <1>7, <2>1, <2>3, <2>4 DEF ChildInv
<1>15. ASSUME NEW q \in Pids, owed'[q] # NoStatus
       PROVE  OwedAt(q)'
  <2>1. CASE q \in {first, last}
    <3>1. q = last /\ owed'[q] = Due /\ async
      BY <1>4, <1>15, <2>1
    <3>2. Keeper(NewJob(procs, async), q, Due)
      <4>1. NewJob(procs, async).procs[2].pid = q /\ NewJob(procs, async).procs[2].running
            /\ Len(NewJob(procs, async).procs) = 2 /\ NewJob(procs, async).async
        BY <1>5, <3>1 DEF NewJob, Child
      <4> QED
        BY <4>1 DEF Keeper, find_last_pid, find_last_proc
    <3>3. Kept(u, q, Due)
      BY <1>11, <3>2
    <3> QED
      BY <1>1, <1>7, <3>1, <3>3 DEF OwedAt
  <2>2. CASE q \notin {first, last}
    <3>1. /\ owed'[q] = owed[q] /\ (q \in Displaced => owed[q] = Due)
          /\ OwedAt(q)
      BY <1>2, <1>4, <1>15, <2>2 DEF OwedInv
    <3>2. PICK st : st = owed[q] /\ Kept(t, q, st)
      BY <1>1, <1>7, <3>1 DEF OwedAt
    <3>3. ASSUME NEW pid \in {first, last}, find_job(t, pid) \in Dead(t),
                 find_last_pid(t.jobs[find_job(t, pid)]) = q
          PROVE  FALSE
      <4>1. q \in Displaced
        BY <1>4, <1>7, <3>3 DEF Displaced
      <4>2. Kept(t, q, Due)
        BY <3>1, <3>2, <4>1
      <4> QED
        BY <1>8, <3>3, <4>2, DisplacedIsNotDue
    <3>4. Kept(s, q, st)
      BY <1>9, <2>2, <3>2, <3>3
    <3>5. Kept(r, q, st)
      BY <1>10, <1>12, <2>2, <3>3, <3>4
    <3>6. Kept(u, q, st)
      BY <1>6, <1>11, <2>2, <3>5
    <3> QED
      BY <1>1, <1>7, <2>2, <3>1, <3>2, <3>6 DEF OwedAt
  <2> QED
    BY <2>1, <2>2
<1>16. PlaceInv'
  BY <1>1, <1>3 DEF PlaceInv, OpsAt
<1>17. AnswerInv'
  <2>1. pstat = NoAnswer
    BY <1>1 DEF JobsInv, PlaceInv, AnswerInv, OpsAt, Waits
  <2>2. pstat'.pid \notin Pids
    BY <1>1, <2>1, StatusIsNoMarker DEF NoAnswer, Answer
  <2> QED
    BY <1>1, <2>1, <2>2 DEF AnswerInv
<1> QED
  BY <1>7, <1>11, <1>13, <1>14, <1>15, <1>16, <1>17 DEF TablesInv, OwedInv

(***************************************************************************)
(* The other steps of the shell                                            *)
(***************************************************************************)
\* What is shown of each of them.
Fine == PlainOK' /\ Quiet /\ PlaceInv' /\ AnswerInv'

\* The table of places, read off.
LEMMA OpsOfPlaces ==
  /\ OpsAt("ready") = {"none"} /\ OpsAt("made") = {"command"}
  /\ \A place \in {"start", "check", "waitpid"} :
       OpsAt(place) = {"command", "pipeline"} \cup Waits
  /\ OpsAt("waited") = {"wait", "wait all"}
  /\ \A place \in {"scan", "clear"} : OpsAt(place) = {"wait all"}
  /\ OpsAt("answered") = Waits
  /\ \A place \in {"any", "looked", "no children"} : OpsAt(place) = {"wait any"}
  /\ OpsAt("list") = {"jobs"} /\ OpsAt("notifying") = {"line"}
  /\ \A place \in {"cleanup", "queueing", "queued", "unqueued", "unqueueing", "reaped"} :
       OpsAt(place) = {"jobs", "wait all", "loop", "line"}
BY DEF OpsAt

\* A dead job answers with the status of its last process.
LEMMA DeadJob ==
  ASSUME NEW t, TableInv(t), NEW i \in Dead(t)
  PROVE  /\ i \in Indices(t) /\ ~find_last_proc(t.jobs[i]).running
         /\ job_exit_status(t.jobs[i]) \in Statuses \cup {0}
         /\ find_last_pid(t.jobs[i]) \in Pids \cup {0}
         /\ At(t.jobs[i].procs, find_last_pid(t.jobs[i])) # {}
<1>1. i \in Indices(t) /\ t.jobs[i] \in Jobs /\ t.jobs[i].procs # <<>>
      /\ ~AnyRunning(t.jobs[i].procs)
  BY DEF Dead, TableInv, Shape, ContentsOK
<1> QED
  BY <1>1, LastProcess DEF AnyRunning

LEMMA DeadJobAnswers ==
  ASSUME TablesInv, pc # "made", NEW i \in Dead(js), NEW pid \in Pids,
         At(js.jobs[i].procs, pid) # {}, owed[pid] # NoStatus
  PROVE  job_exit_status(js.jobs[i]) = owed[pid]
<1>1. Kept(js, pid, owed[pid]) /\ TableInv(js)
  BY DEF TablesInv, OwedInv, OwedAt
<1>2. i \in Indices(js) /\ ~find_last_proc(js.jobs[i]).running
  BY <1>1, DeadJob
<1>3. Keeper(js.jobs[i], pid, owed[pid])
  BY <1>1, <1>2 DEF Kept
<1> QED
  BY <1>2, <1>3 DEF Keeper

\* return_job of wait_for_any_job: the answer and the deletion of the job.
LEMMA ReturnJobStep ==
  ASSUME JobsInv, pc # "made", NEW among \in SUBSET Dead(js), among # {}, ReturnJob(among),
         owed' = owed
  PROVE  /\ Improves(js, js') /\ pstat' \in Answers
         /\ pstat'.pid \in Pids /\ owed'[pstat'.pid] # NoStatus =>
              pstat'.status = owed'[pstat'.pid]
<1> DEFINE i == Min(among)
<1>1. /\ pstat' = Answer(find_last_pid(js.jobs[i]), job_exit_status(js.jobs[i]))
      /\ js' = delete_jobs(notify_of_job_status(js), {i})
  BY DEF ReturnJob
<1>2. TableInv(js) /\ TablesInv
  BY DEF JobsInv, TablesInv
<1>3. i \in Dead(js)
  <2>1. among \subseteq Nat
    BY <1>2, IndicesFinite DEF TableInv, Dead
  <2> QED
    BY <2>1, MinOfNat
<1> HIDE DEF i
<1>4. /\ job_exit_status(js.jobs[i]) \in Statuses \cup {0}
      /\ find_last_pid(js.jobs[i]) \in Pids \cup {0}
      /\ At(js.jobs[i].procs, find_last_pid(js.jobs[i])) # {}
  BY <1>2, <1>3, DeadJob
<1>5. pstat' \in Answers
        /\ pstat'.pid = find_last_pid(js.jobs[i]) /\ pstat'.status = job_exit_status(js.jobs[i])
  BY <1>1, <1>4 DEF Answer, Answers
<1>6. pstat'.pid \in Pids /\ owed'[pstat'.pid] # NoStatus => pstat'.status = owed'[pstat'.pid]
  BY <1>2, <1>3, <1>4, <1>5, DeadJobAnswers
<1>7. Improves(js, js')
  <2>1. PICK told : notify_of_job_status(js) = Notify(js, told)
    BY DEF notify_of_job_status
  <2>2. PICK t, u, d : t = js /\ u = Notify(t, told) /\ d = delete_jobs(u, {i}) /\ d = js'
    BY <1>1, <2>1
  <2>3. /\ Improves(t, u) /\ Indices(u) = Indices(t)
        /\ \A k \in Indices(t) : SameButTold(t.jobs[k], u.jobs[k])
    BY <1>2, <2>2, NotifyImproves
  <2>4. {i} \in SUBSET Dead(u)
    BY <1>3, <2>2, <2>3 DEF Dead, SameButTold
  <2>5. Improves(u, d)
    <3>1. PICK gone : gone = {i} /\ gone \in SUBSET Dead(u) /\ d = delete_jobs(u, gone)
      BY <2>2, <2>4
    <3>2. TableInv(u)
      BY <2>3 DEF Improves
    <3> QED
      BY ONLY <3>1, <3>2, DeleteImproves
  <2>6. Improves(t, d)
    BY <2>3, <2>5, ImprovesTransitive
  <2> QED
    BY <2>2, <2>6
<1> QED
  BY <1>5, <1>6, <1>7

\* wait_for.
LEMMA WaitForFine ==
  ASSUME JobsInv, owed' = owed, BlockChild \/ GoOnWaiting \/ WaitFindsNobody \/ EndWaitFor
  PROVE  Fine
<1>1. PlainOK /\ TablesInv /\ TableInv(js) /\ PlaceInv /\ AnswerInv /\ Improves(js, js)
      /\ task \in Tasks
  BY ImprovesItself DEF JobsInv, TablesInv, PlainOK
<1> USE DEF Mainline, kernel, table, signals, Done
<1>2. CASE BlockChild
  BY <1>1, <1>2 DEF BlockChild, Fine, PlainOK, Places, Quiet, PlaceInv, OpsAt, AnswerInv
<1>3. CASE GoOnWaiting
  BY <1>1, <1>3 DEF GoOnWaiting, Fine, PlainOK, Places, Quiet, PlaceInv, OpsAt, AnswerInv
<1>4. CASE WaitFindsNobody
  <2>1. /\ pc = "waitpid" /\ zombies = <<>> /\ sigchld' \in Nat
        /\ UNCHANGED <<kernel, table, pstat, handling>>
        /\ task' = [task EXCEPT !.reaped = FALSE]
        /\ pc' \in {"check", "no children", "looked"}
        /\ pc' = "no children" => living = {}
        /\ pc' = "check" <=> task.pid # ANY_PID
    <3>1. sigchld' \in Nat
      BY <1>1, <1>4 DEF WaitFindsNobody, FindNobody, CountDown, PlainOK
    <3>2. pc = "waitpid" /\ zombies = <<>> /\ UNCHANGED <<kernel, table, pstat>>
      BY <1>4 DEF WaitFindsNobody, FindNobody
    <3>3. ReturnFromWaitchld(living = {} /\ ~task.reaped)
      BY <1>4 DEF WaitFindsNobody
    <3>4. task' = [task EXCEPT !.reaped = FALSE] /\ handling' = handling
      BY <3>3 DEF ReturnFromWaitchld
    <3>5. CASE task.pid # ANY_PID
      BY <3>1, <3>2, <3>3, <3>4, <3>5 DEF ReturnFromWaitchld
    <3>6. CASE task.pid = ANY_PID /\ (living = {} /\ ~task.reaped)
      BY <3>1, <3>2, <3>3, <3>4, <3>6 DEF ReturnFromWaitchld
    <3>7. CASE task.pid = ANY_PID /\ ~(living = {} /\ ~task.reaped)
      BY <3>1, <3>2, <3>3, <3>4, <3>7 DEF ReturnFromWaitchld
    <3> QED
      BY <3>5, <3>6, <3>7
  <2>2. task' \in Tasks /\ task'.op = task.op /\ task'.pid = task.pid
    BY <1>1, <2>1 DEF Tasks
  <2> QED
    <3>1. PlainOK'
      BY <1>1, <2>1, <2>2 DEF PlainOK, Places
    <3>2. Quiet
      BY <1>1, <2>1, <2>2 DEF Quiet
    <3>3. PlaceInv'
      <4>1. task'.op \in OpsAt(pc')
        <5>1. task.op \in {"command", "pipeline"} \cup Waits
          BY <1>1, <2>1, OpsOfPlaces DEF PlaceInv
        <5>2. CASE pc' = "check"
          BY <2>2, <5>1, <5>2, OpsOfPlaces
        <5>3. CASE pc' \in {"no children", "looked"}
          <6>1. task.pid = ANY_PID
            BY <2>1, <5>3
          <6>2. task'.op = "wait any"
            BY <1>1, <2>2, <6>1 DEF PlaceInv
          <6>3. OpsAt(pc') = {"wait any"}
            BY <5>3, OpsOfPlaces
          <6> QED
            BY <6>2, <6>3
        <5> QED
          BY <2>1, <5>2, <5>3
      <4>2. task'.op = "wait any" <=> task'.pid = ANY_PID
        BY <1>1, <2>2 DEF PlaceInv
      <4> QED
        BY <4>1, <4>2 DEF PlaceInv
    <3>4. AnswerInv'
      BY <1>1, <2>1, <2>2 DEF AnswerInv
    <3> QED
      BY <3>1, <3>2, <3>3, <3>4 DEF Fine
<1>5. CASE EndWaitFor
  <2> DEFINE i == WaitedJob
  <2>1. /\ pc = "check" /\ task.pid # ANY_PID /\ i \in Dead(js)
        /\ js' = notify_and_cleanup(js)
        /\ UNCHANGED <<kernel, the_pipeline, last_asynchronous_pid, c_totforked, sigchld, handling>>
        /\ IF task.op \in {"command", "pipeline"}
           THEN pc' = "ready" /\ task' = NoTask /\ pstat' = pstat
           ELSE /\ pc' = "waited" /\ task' = task
                /\ pstat' = Answer(task.pid, job_exit_status(js.jobs[i]))
    BY <1>5 DEF EndWaitFor
  <2>2. Improves(js, js')
    BY <1>1, <2>1, NotifiedImproves
  <2>3. Quiet
    BY <1>1, <2>1, <2>2 DEF Quiet
  <2>4. NoTask \in Tasks /\ NoTask.op = "none" /\ NoTask.pid = 0
    BY DEF NoTask, Task, Tasks, Ops
  <2>5. task.op \in {"command", "pipeline", "wait", "wait all"}
    BY <1>1, <2>1 DEF PlaceInv, OpsAt, Waits
  <2>6. CASE task.op \in {"command", "pipeline"}
    <3>1. PlainOK'
      BY <1>1, <2>1, <2>4, <2>6 DEF PlainOK, Places
    <3>2. PlaceInv'
      <4>1. pc' = "ready" /\ task' = NoTask /\ 0 # ANY_PID
        BY <2>1, <2>6, StatusIsNoMarker
      <4> QED
        BY <2>4, <4>1, OpsOfPlaces DEF PlaceInv
    <3>3. AnswerInv'
      BY <1>1, <2>1, <2>6 DEF AnswerInv, Waits
    <3> QED
      BY <2>3, <3>1, <3>2, <3>3 DEF Fine
  <2>7. CASE task.op \in {"wait", "wait all"}
    <3>1. i \in Dead(js) /\ i \in Indices(js) /\ job_exit_status(js.jobs[i]) \in Statuses \cup {0}
      BY <1>1, <2>1, DeadJob
    <3>2. task.pid \in Pids \cup {0}
      BY <1>1, <2>1 DEF Tasks
    <3>3. /\ pstat' \in Answers /\ pstat'.pid = task.pid
          /\ pstat'.status = job_exit_status(js.jobs[i])
      <4>1. pstat' = Answer(task.pid, job_exit_status(js.jobs[i]))
        BY <2>1, <2>7
      <4> QED
        BY <3>1, <3>2, <4>1 DEF Answers, Answer
    <3>4. task.pid \in Pids => At(js.jobs[i].procs, task.pid) # {}
      <4>1. i # NO_JOB
        BY <1>1, <3>1, IndicesFinite DEF TableInv
      <4> QED
        BY <1>1, <4>1, FoundJob DEF WaitedJob
    <3> HIDE DEF i
    <3>5. task.pid \in Pids /\ owed[task.pid] # NoStatus => pstat'.status = owed[task.pid]
      BY <1>1, <2>1, <3>1, <3>3, <3>4, DeadJobAnswers
    <3> QED
      BY <1>1, <2>1, <2>3, <2>7, <3>3, <3>5
         DEF Fine, PlainOK, Places, PlaceInv, OpsAt, AnswerInv, Waits
  <2> QED
    BY <2>5, <2>6, <2>7
<1> QED
  BY <1>2, <1>3, <1>4, <1>5

\* The wait builtin, in all its forms.
LEMMA WaitFine ==
  ASSUME JobsInv, owed' = owed,
         MarkWaited \/ WaitForNext \/ NoneLeft \/ Return \/ AnyStep
  PROVE  Fine
<1>1. PlainOK /\ TablesInv /\ TableInv(js) /\ PlaceInv /\ AnswerInv /\ Improves(js, js)
      /\ task \in Tasks
  BY ImprovesItself DEF JobsInv, TablesInv, PlainOK
<1> USE DEF Mainline, kernel, table, signals, Done
<1>2. CASE MarkWaited
  <2>1. Improves(js, js')
    BY <1>1, <1>2, NotifyImproves DEF MarkWaited
  <2> QED
    BY <1>1, <1>2, <2>1
       DEF MarkWaited, Fine, PlainOK, Places, Quiet, PlaceInv, OpsAt, AnswerInv, Waits
<1>3. CASE WaitForNext
  <2> DEFINE i == Min(RunningInBackground)
  <2>1. /\ pc = "scan" /\ pc' = "start" /\ RunningInBackground # {}
        /\ task' = [task EXCEPT !.pid = find_last_pid(js.jobs[i])]
        /\ UNCHANGED <<kernel, table, sigchld, handling, pstat>>
    BY <1>3 DEF WaitForNext
  <2>2. i \in Indices(js)
    <3>1. RunningInBackground \subseteq Indices(js) /\ Indices(js) \subseteq Nat
      BY <1>1, IndicesFinite DEF RunningInBackground, Running, TableInv
    <3> QED
      BY <2>1, <3>1, MinOfNat
  <2> HIDE DEF i
  <2>3. find_last_pid(js.jobs[i]) \in Pids \cup {0}
    BY <1>1, <2>2, LastProcess DEF TableInv, Shape
  <2>4. task' \in Tasks /\ task'.op = task.op /\ task'.pid \in Pids \cup {0}
    BY <1>1, <2>1, <2>3 DEF Tasks
  <2>5. task.op = "wait all" /\ task'.pid # ANY_PID
    BY <1>1, <2>1, <2>4, StatusIsNoMarker DEF PlaceInv, OpsAt
  <2> QED
    <3>1. PlainOK'
      BY <1>1, <2>1, <2>4 DEF PlainOK, Places
    <3>2. Quiet
      BY <1>1, <2>1 DEF Quiet
    <3>3. PlaceInv'
      <4>1. pc' = "start" /\ task'.op \in OpsAt("start")
        BY <2>1, <2>4, <2>5, OpsOfPlaces DEF Waits
      <4> QED
        BY <2>4, <2>5, <4>1 DEF PlaceInv
    <3>4. AnswerInv'
      BY <1>1, <2>1, <2>4 DEF AnswerInv
    <3> QED
      BY <3>1, <3>2, <3>3, <3>4 DEF Fine
<1>4. CASE NoneLeft
  <2>1. Improves(js, js')
    BY <1>1, <1>4, NotifiedImproves DEF NoneLeft
  <2> QED
    BY <1>1, <1>4, <2>1
       DEF NoneLeft, Fine, PlainOK, Places, Quiet, PlaceInv, OpsAt, AnswerInv, Waits
<1>5. CASE Return
  <2>1. NoTask \in Tasks /\ NoTask.op = "none" /\ NoTask.pid = 0
    BY DEF NoTask, Task, Tasks, Ops
  <2>2. NoAnswer \in Answers /\ NoAnswer.pid = 0
    BY DEF NoAnswer, Answer, Answers
  <2> QED
    BY <1>1, <1>5, <2>1, <2>2, StatusIsNoMarker
       DEF Return, Fine, PlainOK, Places, Quiet, PlaceInv, OpsAt, AnswerInv
<1>6. CASE LookForJob
  <2>1. Answer(ANY_PID, NOT_FOUND) \in Answers /\ Answer(ANY_PID, NOT_FOUND).pid \notin Pids
    BY StatusIsNoMarker DEF Answer, Answers
  <2> QED
    BY <1>1, <1>6, <2>1
       DEF LookForJob, Fine, PlainOK, Places, Quiet, PlaceInv, OpsAt, AnswerInv, Waits
<1>7. CASE MarkAllDead
  <2>1. Alive(js) = {} /\ living = {} /\ zombies = <<>>
    <3>1. living = {} /\ zombies = <<>>
      BY <1>1, <1>7 DEF MarkAllDead, TablesInv, ChildInv
    <3>2. DOMAIN zombies = {}
      BY <3>1
    <3> QED
      BY <1>1, <3>1, <3>2 DEF TablesInv, ChildInv
  <2>2. Improves(js, js')
    BY <1>1, <1>7, <2>1, MarkAllImproves DEF MarkAllDead
  <2> QED
    BY <1>1, <1>7, <2>2
       DEF MarkAllDead, Fine, PlainOK, Places, Quiet, PlaceInv, OpsAt, AnswerInv, Waits
<1>8. CASE LookForDeadJob
  <2>1. pc = "looked" /\ task' = task /\ task.op = "wait any"
    BY <1>1, <1>8 DEF LookForDeadJob, PlaceInv, OpsAt
  <2>2. CASE Dead(js) # {}
    <3>1. ReturnJob(Dead(js))
      BY <1>8, <2>2 DEF LookForDeadJob
    <3>2. /\ Improves(js, js') /\ pstat' \in Answers
          /\ pstat'.pid \in Pids /\ owed'[pstat'.pid] # NoStatus =>
               pstat'.status = owed'[pstat'.pid]
      BY <2>1, <2>2, <3>1, ReturnJobStep
    <3>3. pc' = "answered" /\ UNCHANGED <<kernel, the_pipeline, last_asynchronous_pid,
                                          c_totforked, sigchld, handling>>
      BY <3>1 DEF ReturnJob
    <3> QED
      BY <1>1, <2>1, <3>2, <3>3
         DEF Fine, PlainOK, Places, Quiet, PlaceInv, OpsAt, AnswerInv, Waits
  <2>3. CASE Dead(js) = {}
    BY <1>1, <1>8, <2>1, <2>3
       DEF LookForDeadJob, Fine, PlainOK, Places, Quiet, PlaceInv, OpsAt, AnswerInv
  <2> QED
    BY <2>2, <2>3
<1> QED
  BY <1>2, <1>3, <1>4, <1>5, <1>6, <1>7, <1>8 DEF AnyStep

\* A step is as fine as its parts: no process starts or is reaped, and place,
\* task and answer go together.
LEMMA Settled ==
  ASSUME JobsInv, owed' = owed, pc # "made", pc' # "made", pc' # "no children",
         pc' \in Places, task' \in Tasks, sigchld' \in Nat, handling' \in BOOLEAN,
         pending' \in BOOLEAN, pstat' \in Answers,
         UNCHANGED <<living, zombies, the_pipeline, last_asynchronous_pid, c_totforked>>,
         Improves(js, js'), task'.op \in OpsAt(pc'),
         task'.op = "wait any" <=> task'.pid = ANY_PID,
         AnswerInv'
  PROVE  Fine
<1>1. PlainOK'
  BY DEF JobsInv, PlainOK
<1>2. Quiet
  BY DEF Quiet
<1> QED
  BY <1>1, <1>2 DEF Fine, PlaceInv

LEMMA CountsDown == ASSUME sigchld \in Nat, CountDown PROVE sigchld' \in Nat
BY DEF CountDown

\* The tasks the shell begins.
LEMMA NewTasks ==
  /\ NoTask \in Tasks /\ NoTask.op = "none" /\ NoTask.pid = 0
  /\ \A op \in Ops, pid \in Pids \cup {0, ANY_PID} :
       /\ Task(op, pid, FALSE) \in Tasks
       /\ Task(op, pid, FALSE).op = op /\ Task(op, pid, FALSE).pid = pid
BY DEF NoTask, Task, Tasks, Ops

\* Where nothing is being answered a step that leaves the answer alone and goes
\* where nothing is answered, or waits on, keeps AnswerInv.
LEMMA AnswerStays ==
  ASSUME JobsInv, owed' = owed, pstat' = pstat,
         task.op \notin Waits \/ task'.op \in Waits
  PROVE  AnswerInv' /\ pstat' \in Answers
BY DEF JobsInv, PlainOK, AnswerInv

\* cleanup_dead_jobs with the table's signals queued, the builtin jobs, and the
\* end of notify_of_job_status.
LEMMA CleanupFine ==
  ASSUME JobsInv, owed' = owed,
         \/ ReadSigchld \/ QueueAndClean \/ Unqueue \/ TestSigchld
         \/ UnqueueFindsNobody \/ EndUnqueue \/ PrintJobs \/ EndNotify
  PROVE  Fine
<1> DEFINE Cleaning == {"cleanup", "queueing", "queued", "unqueued", "unqueueing", "reaped"}
<1>1. /\ PlainOK /\ TableInv(js) /\ Improves(js, js) /\ task \in Tasks
      /\ sigchld \in Nat /\ handling \in BOOLEAN /\ pending \in BOOLEAN
      /\ task.op \in OpsAt(pc) /\ (task.op = "wait any" <=> task.pid = ANY_PID)
  BY ImprovesItself DEF JobsInv, TablesInv, PlainOK, PlaceInv
<1>2. \A place \in Cleaning : OpsAt(place) = {"jobs", "wait all", "loop", "line"}
  BY OpsOfPlaces
<1>3. \A place \in Cleaning \cup {"list", "clear", "notifying", "ready"} :
        place \in Places /\ place # "made" /\ place # "no children"
  BY DEF Places
<1> USE DEF Mainline, kernel, table, signals, Done
<1>4. CASE ReadSigchld
  <2>1. /\ pc = "cleanup" /\ pc' = "queueing" /\ task' = [task EXCEPT !.os = sigchld]
        /\ UNCHANGED <<living, zombies, the_pipeline, last_asynchronous_pid, c_totforked>>
        /\ UNCHANGED <<pending, js, sigchld, handling, pstat>>
    BY <1>4 DEF ReadSigchld
  <2>2. task' \in Tasks /\ task'.op = task.op /\ task'.pid = task.pid
    BY <1>1, <2>1 DEF Tasks
  <2>3. task.op \in {"jobs", "wait all", "loop", "line"}
    BY <1>1, <1>2, <2>1
  <2>4. AnswerInv' /\ pstat' \in Answers
    BY <2>1, <2>2, <2>3, AnswerStays DEF Waits
  <2>5. Improves(js, js') /\ task'.op \in OpsAt(pc')
    BY <1>1, <1>2, <2>1, <2>2, <2>3
  <2> QED
    BY <1>1, <1>3, <2>1, <2>2, <2>4, <2>5, Settled
<1>5. CASE QueueAndClean
  <2>1. /\ pc = "queueing" /\ pc' = "queued" /\ task' = task
        /\ UNCHANGED <<living, zombies, the_pipeline, last_asynchronous_pid, c_totforked>>
        /\ UNCHANGED <<pending, sigchld, handling, pstat>>
        /\ js' = cleanup_dead_jobs(js)
    BY <1>5 DEF QueueAndClean
  <2>2. Improves(js, js')
    BY <1>1, <2>1, CleanupImproves
  <2>3. task.op \in {"jobs", "wait all", "loop", "line"}
    BY <1>1, <1>2, <2>1
  <2>4. AnswerInv' /\ pstat' \in Answers
    BY <2>1, <2>3, AnswerStays DEF Waits
  <2>5. task'.op \in OpsAt(pc')
    BY <1>2, <2>1, <2>3
  <2> QED
    BY <1>1, <1>3, <2>1, <2>2, <2>4, <2>5, Settled
<1>6. CASE Unqueue \/ UnqueueFindsNobody
  <2>1. /\ pc \in Cleaning /\ pc' \in Cleaning /\ task' = task
        /\ UNCHANGED <<living, zombies, the_pipeline, last_asynchronous_pid, c_totforked>>
        /\ UNCHANGED <<pending, js, handling, pstat>>
        /\ sigchld' \in Nat
    <3>1. CASE Unqueue
      BY <1>1, <3>1 DEF Unqueue
    <3>2. CASE UnqueueFindsNobody
      <4>1. sigchld' \in Nat
        BY <1>1, <3>2, CountsDown DEF UnqueueFindsNobody, FindNobody
      <4> QED
        BY <3>2, <4>1 DEF UnqueueFindsNobody, FindNobody
    <3> QED
      BY <1>6, <3>1, <3>2
  <2>2. task.op \in {"jobs", "wait all", "loop", "line"}
    BY <1>1, <1>2, <2>1
  <2>3. AnswerInv' /\ pstat' \in Answers
    BY <2>1, <2>2, AnswerStays DEF Waits
  <2>4. Improves(js, js') /\ task'.op \in OpsAt(pc')
    BY <1>1, <1>2, <2>1, <2>2
  <2> QED
    BY <1>1, <1>3, <2>1, <2>3, <2>4, Settled
<1>7. CASE EndNotify
  <2>1. /\ pc = "notifying" /\ pc' = "cleanup" /\ task' = task
        /\ UNCHANGED <<living, zombies, the_pipeline, last_asynchronous_pid, c_totforked>>
        /\ UNCHANGED <<pending, js, sigchld, handling, pstat>>
    BY <1>7 DEF EndNotify
  <2>2. task.op = "line"
    BY <1>1, <2>1, OpsOfPlaces
  <2>3. AnswerInv' /\ pstat' \in Answers
    BY <2>1, <2>2, AnswerStays DEF Waits
  <2>4. Improves(js, js') /\ task'.op \in OpsAt(pc')
    BY <1>1, <1>2, <2>1, <2>2
  <2> QED
    BY <1>1, <1>3, <2>1, <2>3, <2>4, Settled
<1>8. CASE PrintJobs
  <2>1. /\ pc = "list" /\ pc' = "ready" /\ task' = NoTask
        /\ UNCHANGED <<living, zombies, the_pipeline, last_asynchronous_pid, c_totforked>>
        /\ UNCHANGED <<pending, sigchld, handling, pstat>>
        /\ js' = list_all_jobs(js)
    BY <1>8 DEF PrintJobs
  <2>2. Improves(js, js')
    BY <1>1, <2>1, NotifiedImproves
  <2>3. task.op \notin Waits
    BY <1>1, <2>1, OpsOfPlaces DEF Waits
  <2>4. AnswerInv' /\ pstat' \in Answers
    BY <2>1, <2>3, AnswerStays
  <2>5. /\ task' \in Tasks /\ task'.op = "none" /\ task'.pid = 0 /\ 0 # ANY_PID
        /\ task'.op \in OpsAt(pc')
    BY <2>1, NewTasks, OpsOfPlaces, StatusIsNoMarker
  <2> QED
    BY <1>1, <1>3, <2>1, <2>2, <2>4, <2>5, Settled
<1>9. CASE TestSigchld \/ EndUnqueue
  <2>1. /\ pc \in Cleaning
        /\ UNCHANGED <<living, zombies, the_pipeline, last_asynchronous_pid, c_totforked>>
        /\ UNCHANGED <<pending, js, sigchld, handling, pstat>>
        /\ AfterCleanup \/ (pc' = "unqueueing" /\ task' = task)
    BY <1>9 DEF TestSigchld, EndUnqueue
  <2>2. task.op \in {"jobs", "wait all", "loop", "line"}
    BY <1>1, <1>2, <2>1
  <2>3. Improves(js, js')
    BY <1>1, <2>1
  <2>4. /\ [task EXCEPT !.os = 0] \in Tasks
        /\ [task EXCEPT !.os = 0].op = task.op /\ [task EXCEPT !.os = 0].pid = task.pid
    BY <1>1 DEF Tasks
  <2>5. CASE task.op = "jobs" /\ AfterCleanup
    <3>1. pc' = "list" /\ task' = [task EXCEPT !.os = 0]
      BY <2>5 DEF AfterCleanup
    <3>2. task'.op \in OpsAt(pc')
      BY <2>4, <2>5, <3>1, OpsOfPlaces
    <3>3. AnswerInv' /\ pstat' \in Answers
      BY <2>1, <2>5, AnswerStays DEF Waits
    <3> QED
      BY <1>1, <1>3, <2>1, <2>3, <2>4, <3>1, <3>2, <3>3, Settled
  <2>6. CASE task.op = "wait all" /\ AfterCleanup
    <3>1. pc' = "clear" /\ task' = [task EXCEPT !.os = 0]
      BY <2>6 DEF AfterCleanup
    <3>2. task'.op \in OpsAt(pc')
      BY <2>4, <2>6, <3>1, OpsOfPlaces
    <3>3. AnswerInv' /\ pstat' \in Answers
      BY <2>1, <2>4, <2>6, <3>1, AnswerStays DEF Waits
    <3> QED
      BY <1>1, <1>3, <2>1, <2>3, <2>4, <3>1, <3>2, <3>3, Settled
  <2>7. CASE task.op \in {"loop", "line"} /\ AfterCleanup
    <3>1. pc' = "ready" /\ task' = NoTask
      BY <2>7 DEF AfterCleanup
    <3>2. /\ task' \in Tasks /\ task'.op = "none" /\ task'.pid = 0 /\ 0 # ANY_PID
          /\ task'.op \in OpsAt(pc')
      BY <3>1, NewTasks, OpsOfPlaces, StatusIsNoMarker
    <3>3. AnswerInv' /\ pstat' \in Answers
      BY <2>1, <2>7, AnswerStays DEF Waits
    <3> QED
      BY <1>1, <1>3, <2>1, <2>3, <3>1, <3>2, <3>3, Settled
  <2>8. CASE pc' = "unqueueing" /\ task' = task
    <3>1. task'.op \in OpsAt(pc')
      BY <1>2, <2>2, <2>8
    <3>2. AnswerInv' /\ pstat' \in Answers
      BY <2>1, <2>2, <2>8, AnswerStays DEF Waits
    <3> QED
      BY <1>1, <1>3, <2>1, <2>3, <2>8, <3>1, <3>2, Settled
  <2> QED
    BY <2>1, <2>2, <2>5, <2>6, <2>7, <2>8
<1> QED
  BY <1>4, <1>5, <1>6, <1>7, <1>8, <1>9

\* A builtin, or another command that starts no process.
LEMMA BeginFine ==
  ASSUME JobsInv, owed' = owed,
         WaitForAll \/ WaitForAny \/ ListJobs \/ ReapInLoop \/ ReadLine
  PROVE  Fine
<1>1. /\ PlainOK /\ TableInv(js) /\ Improves(js, js)
      /\ sigchld \in Nat /\ handling \in BOOLEAN /\ pending \in BOOLEAN
  BY ImprovesItself DEF JobsInv, TablesInv, PlainOK
<1>2. \A place \in {"ready", "scan", "cleanup", "notifying", "answered", "any"} :
        place \in Places /\ place # "made" /\ place # "no children"
  BY DEF Places
<1>3. pc = "ready"
  BY DEF WaitForAll, WaitForAny, ListJobs, ReapInLoop, ReadLine, Begin, Mainline
<1>4. task.op \notin Waits
  BY <1>3, OpsOfPlaces DEF JobsInv, PlaceInv, Waits
<1>5. 0 # ANY_PID
  BY StatusIsNoMarker
<1> USE DEF Mainline, kernel, table, signals
<1>6. CASE WaitForAll \/ ListJobs \/ ReapInLoop \/ ReadLine
  <2>1. PICK op \in {"wait all", "jobs", "loop", "line"} :
          /\ task' = Task(op, 0, FALSE)
          /\ pc' = (IF op = "wait all" THEN "scan"
                    ELSE IF op = "line" THEN "notifying" ELSE "cleanup")
    BY <1>6 DEF WaitForAll, ListJobs, ReapInLoop, ReadLine, Begin
  <2>2. /\ UNCHANGED <<living, zombies, the_pipeline, last_asynchronous_pid, c_totforked>>
        /\ UNCHANGED <<pending, sigchld, handling, pstat>>
    BY <1>6 DEF WaitForAll, ListJobs, ReapInLoop, ReadLine, Begin
  <2>3. Improves(js, js')
    BY <1>1, <1>6, NotifiedImproves DEF WaitForAll, ListJobs, ReapInLoop, ReadLine, Begin
  <2>4. task' \in Tasks /\ task'.op = op /\ task'.pid = 0
    <3>1. op \in Ops
      BY <2>1 DEF Ops
    <3> QED
      BY <2>1, <3>1, NewTasks
  <2>5. task'.op \in OpsAt(pc')
    BY <2>1, <2>4, OpsOfPlaces
  <2>6. AnswerInv' /\ pstat' \in Answers
    BY <1>4, <2>2, AnswerStays
  <2>7. task'.op # "wait any"
    BY <2>1, <2>4
  <2>8. pc' \in Places /\ pc' # "made" /\ pc' # "no children"
    BY <1>2, <2>1
  <2> QED
    BY <1>1, <1>3, <1>5, <2>2, <2>3, <2>4, <2>5, <2>6, <2>7, <2>8, Settled
<1>7. CASE WaitForAny
  <2>1. task' \in Tasks /\ task'.op = "wait any" /\ task'.pid = ANY_PID
    <3>1. "wait any" \in Ops /\ task' = Task("wait any", ANY_PID, FALSE)
      BY <1>7 DEF WaitForAny, Ops
    <3> QED
      BY <3>1, NewTasks
  <2>2. CASE Dead(js) \ Notified(js) # {}
    <3>1. ReturnJob(Dead(js) \ Notified(js))
      BY <1>7, <2>2 DEF WaitForAny
    <3>2. Dead(js) \ Notified(js) \in SUBSET Dead(js)
      OBVIOUS
    <3>3. /\ Improves(js, js') /\ pstat' \in Answers
          /\ pstat'.pid \in Pids /\ owed'[pstat'.pid] # NoStatus =>
               pstat'.status = owed'[pstat'.pid]
      BY <1>3, <2>2, <3>1, <3>2, ReturnJobStep
    <3>4. /\ pc' = "answered"
          /\ UNCHANGED <<living, zombies, the_pipeline, last_asynchronous_pid, c_totforked>>
          /\ UNCHANGED <<pending, sigchld, handling>>
      BY <3>1 DEF ReturnJob
    <3>5. AnswerInv' /\ task'.op \in OpsAt(pc')
      BY <2>1, <3>3, <3>4, OpsOfPlaces DEF AnswerInv, Waits
    <3> QED
      BY <1>1, <1>2, <1>3, <2>1, <3>3, <3>4, <3>5, Settled
  <2>3. CASE Dead(js) \ Notified(js) = {}
    <3>1. /\ pc' = "any"
          /\ UNCHANGED <<living, zombies, the_pipeline, last_asynchronous_pid, c_totforked>>
          /\ UNCHANGED <<pending, js, sigchld, handling, pstat>>
      BY <1>7, <2>3 DEF WaitForAny
    <3>2. AnswerInv' /\ pstat' \in Answers
      BY <1>4, <3>1, AnswerStays
    <3>3. Improves(js, js') /\ task'.op \in OpsAt(pc')
      BY <1>1, <2>1, <3>1, OpsOfPlaces
    <3> QED
      BY <1>1, <1>2, <1>3, <2>1, <3>1, <3>2, <3>3, Settled
  <2> QED
    BY <2>2, <2>3
<1> QED
  BY <1>6, <1>7

\* wait PID: a pid with no job is answered from the saved statuses.
LEMMA WaitForPidFine ==
  ASSUME JobsInv, owed' = owed, NEW pid \in Pids, WaitForPid(pid)
  PROVE  Fine
<1>1. /\ PlainOK /\ TableInv(js) /\ Improves(js, js) /\ OwedInv
      /\ sigchld \in Nat /\ handling \in BOOLEAN /\ pending \in BOOLEAN
  BY ImprovesItself DEF JobsInv, TablesInv, PlainOK
<1>2. /\ pc = "ready" /\ task' = Task("wait", pid, FALSE)
      /\ UNCHANGED <<living, zombies, the_pipeline, last_asynchronous_pid, c_totforked>>
      /\ UNCHANGED <<pending, js, sigchld, handling>>
      /\ IF find_job(js, pid) # NO_JOB
         THEN pc' = "start" /\ pstat' = pstat
         ELSE /\ pc' = "answered"
              /\ pstat' = Answer(pid, IF js.saved[pid] # NoStatus THEN js.saved[pid]
                                                                  ELSE NOT_FOUND)
  BY DEF WaitForPid, Mainline, kernel, table, signals
<1>3. task' \in Tasks /\ task'.op = "wait" /\ task'.pid = pid /\ pid # ANY_PID
  <2>1. "wait" \in Ops
    BY DEF Ops
  <2> QED
    BY <1>2, <2>1, NewTasks, StatusIsNoMarker
<1>4. Improves(js, js')
  BY <1>1, <1>2
<1>5. CASE find_job(js, pid) # NO_JOB
  <2>1. task.op \notin Waits
    BY <1>2, OpsOfPlaces DEF JobsInv, PlaceInv, Waits
  <2>2. AnswerInv' /\ pstat' \in Answers
    BY <1>2, <1>5, <2>1, AnswerStays
  <2>3. pc' = "start" /\ pc' \in Places /\ pc' # "made" /\ pc' # "no children"
    BY <1>2, <1>5 DEF Places
  <2>4. task'.op \in OpsAt(pc')
    BY <1>3, <2>3, OpsOfPlaces DEF Waits
  <2> QED
    BY <1>1, <1>2, <1>3, <1>4, <2>2, <2>3, <2>4, Settled
<1>6. CASE find_job(js, pid) = NO_JOB
  <2>1. PICK saved : saved = js.saved[pid]
    OBVIOUS
  <2>2. saved \in Statuses \cup {0, NoStatus}
    BY <1>1, <2>1 DEF TableInv, Shape
  <2>3. PICK answer : answer = (IF saved # NoStatus THEN saved ELSE NOT_FOUND)
    OBVIOUS
  <2>4. pc' = "answered" /\ pstat' = Answer(pid, answer)
    BY <1>2, <1>6, <2>1, <2>3
  <2>5. /\ pstat' \in Answers /\ pstat'.pid = pid /\ pstat'.status = answer
    BY <2>2, <2>3, <2>4 DEF Answers, Answer
  <2>6. owed[pid] # NoStatus => answer = owed[pid]
    <3>1. SUFFICES ASSUME owed[pid] # NoStatus PROVE answer = owed[pid]
      OBVIOUS
    <3>2. Kept(js, pid, owed[pid])
      BY <1>1, <1>2, <3>1 DEF OwedInv, OwedAt
    <3>3. ~Holds(js, pid)
      <4>1. \A i \in Indices(js) : i # NO_JOB
        BY <1>1, IndicesFinite DEF TableInv
      <4> QED
        BY <1>1, <1>6, <4>1, FoundJob
    <3>4. saved = owed[pid]
      BY <2>1, <3>2, <3>3 DEF Kept
    <3> QED
      BY <2>3, <3>1, <3>4
  <2>7. AnswerInv'
    BY <1>3, <2>5, <2>6 DEF AnswerInv, Waits
  <2>8. pc' \in Places /\ pc' # "made" /\ pc' # "no children"
    BY <2>4 DEF Places
  <2>9. task'.op \in OpsAt(pc')
    BY <1>3, <2>4, OpsOfPlaces DEF Waits
  <2> QED
    BY <1>1, <1>2, <1>3, <1>4, <2>5, <2>7, <2>8, <2>9, Settled
<1> QED
  BY <1>5, <1>6

\* What a child reaped leaves of PlainOK.
LEMMA ReapKeepsPlain ==
  ASSUME PlainOK, NEW pid \in DOMAIN zombies, Reap(pid), the_pipeline' \in Seq(Processes),
         owed' = owed, handling' \in BOOLEAN, pc' \in Places, task' \in Tasks
  PROVE  PlainOK'
<1>1. /\ zombies' = Restrict(zombies, DOMAIN zombies \ {pid})
      /\ UNCHANGED <<living, pending, last_asynchronous_pid, c_totforked, pstat>>
      /\ CountDown
  BY DEF Reap
<1>2. /\ DOMAIN zombies' = DOMAIN zombies \ {pid}
      /\ \A q \in DOMAIN zombies' : zombies'[q] = zombies[q]
  BY <1>1 DEF Restrict
<1>3. sigchld' \in Nat
  BY <1>1 DEF CountDown, PlainOK
<1> QED
  BY <1>1, <1>2, <1>3 DEF PlainOK

\* The SIGCHLD handler, wherever it interrupts the shell.
LEMMA HandlerFine ==
  ASSUME JobsInv, HHandler
  PROVE  PlainOK' /\ TablesInv' /\ PlaceInv' /\ AnswerInv'
<1>1. PlainOK /\ TablesInv /\ PlaceInv /\ AnswerInv /\ Improves(js, js)
  BY ImprovesItself DEF JobsInv, TablesInv
<1>2. owed' = owed /\ pc' = pc /\ task' = task
  BY DEF HHandler, sigchld_handler, HandlerReaps, HandlerReturns
<1>3. PlaceInv'
  BY <1>1, <1>2 DEF PlaceInv
<1>4. CASE sigchld_handler \/ HandlerReturns
  <2>1. /\ UNCHANGED <<living, zombies, js, the_pipeline>>
        /\ UNCHANGED <<last_asynchronous_pid, c_totforked, pstat>>
        /\ pending' \in BOOLEAN /\ handling' \in BOOLEAN /\ sigchld' \in Nat
    <3>1. CASE sigchld_handler
      <4>1. handling' \in BOOLEAN
        <5>1. handling' = (queue_sigchld = 0)
          BY <3>1 DEF sigchld_handler
        <5> QED
          BY ONLY <5>1, Zenon
      <4>2. sigchld' \in Nat /\ pending' \in BOOLEAN
        <5>1. sigchld' = sigchld + 1 /\ pending' = FALSE
          BY <3>1, Zenon DEF sigchld_handler
        <5>2. sigchld \in Nat
          BY <1>1 DEF PlainOK
        <5>3. sigchld' \in Nat
          BY <5>1, <5>2
        <5>4. pending' \in BOOLEAN
          BY ONLY <5>1
        <5> QED
          BY <5>3, <5>4
      <4>3. /\ UNCHANGED <<living, zombies, js, the_pipeline>>
            /\ UNCHANGED <<last_asynchronous_pid, c_totforked, pstat>>
        BY <3>1 DEF sigchld_handler, table
      <4> QED
        BY <4>1, <4>2, <4>3
    <3>2. CASE HandlerReturns
      <4>1. sigchld' \in Nat /\ pending' \in BOOLEAN
        BY <1>1, <3>2 DEF HandlerReturns, FindNobody, CountDown, kernel, PlainOK
      <4> QED
        BY <3>2, <4>1 DEF HandlerReturns, FindNobody, kernel, table
    <3> QED
      BY <1>4, <3>1, <3>2
  <2>2. Quiet
    BY <1>1, <1>2, <2>1 DEF Quiet
  <2>3. PlainOK' /\ AnswerInv'
    BY <1>1, <1>2, <2>1 DEF PlainOK, AnswerInv
  <2> QED
    BY <1>1, <1>3, <2>2, <2>3, QuietStep
<1>5. CASE HandlerReaps
  <2>1. PICK pid \in DOMAIN zombies : Reap(pid)
    BY <1>5 DEF HandlerReaps
  <2>2. TablesInv' /\ the_pipeline' \in Seq(Processes)
    BY <1>2, <2>1, ReapStep
  <2>3. PlainOK'
    BY <1>1, <1>2, <1>5, <2>1, <2>2, ReapKeepsPlain DEF HandlerReaps, PlainOK
  <2>4. AnswerInv'
    BY <1>1, <1>2, <2>1 DEF Reap, AnswerInv
  <2> QED
    BY <1>3, <2>2, <2>3, <2>4
<1> QED
  BY <1>4, <1>5 DEF HHandler

\* waitchld called by wait_for and at the end of cleanup_dead_jobs.
LEMMA ReapFine ==
  ASSUME JobsInv, owed' = owed, WaitReaps \/ UnqueueReaps
  PROVE  PlainOK' /\ TablesInv' /\ PlaceInv' /\ AnswerInv'
<1>1. /\ PlainOK /\ PlaceInv /\ AnswerInv /\ task \in Tasks /\ handling \in BOOLEAN
      /\ pc \in Places
  BY DEF JobsInv, PlainOK
<1>2. PICK pid \in DOMAIN zombies : Reap(pid)
  BY DEF WaitReaps, UnqueueReaps
<1>3. handling' = handling /\ pstat' = pstat
  BY <1>2 DEF WaitReaps, UnqueueReaps, ReturnFromWaitchld, Reap
<1>4. /\ \/ pc' = pc /\ task' = task
         \/ pc = "waitpid" /\ pc' \in {"waitpid", "check", "looked"}
      /\ task' \in Tasks /\ task'.op = task.op /\ task'.pid = task.pid
      /\ pc' = "looked" => task.pid = ANY_PID
  <2>1. CASE UnqueueReaps
    BY <1>1, <2>1 DEF UnqueueReaps, Mainline
  <2>2. CASE WaitReaps /\ sigchld' > 0
    <3>1. pc = "waitpid" /\ pc' = pc /\ task' = [task EXCEPT !.reaped = TRUE]
      BY <2>2 DEF WaitReaps, Mainline
    <3> QED
      BY <1>1, <3>1 DEF Tasks
  <2>3. CASE WaitReaps /\ ~(sigchld' > 0)
    <3>1. pc = "waitpid" /\ ReturnFromWaitchld(FALSE)
      BY <2>3 DEF WaitReaps, Mainline
    <3>2. /\ task' = [task EXCEPT !.reaped = FALSE]
          /\ pc' = IF task.pid # ANY_PID THEN "check" ELSE "looked"
      BY <3>1 DEF ReturnFromWaitchld
    <3> QED
      BY <1>1, <3>1, <3>2 DEF Tasks
  <2> QED
    BY <2>1, <2>2, <2>3
<1>5. \/ pc' = pc /\ task' = task
      \/ pc # "made" /\ pc' # "made" /\ pc' # "no children"
  BY <1>4
<1>6. TablesInv' /\ the_pipeline' \in Seq(Processes)
  BY <1>2, <1>5, ReapStep
<1>7. PlainOK'
  <2>1. pc' \in Places
    BY <1>1, <1>4 DEF Places
  <2> QED
    BY <1>1, <1>2, <1>3, <1>4, <1>6, <2>1, ReapKeepsPlain
<1>8. PlaceInv'
  <2>1. task'.op \in OpsAt(pc')
    <3>1. CASE pc' = pc
      BY <1>1, <1>4, <3>1 DEF PlaceInv
    <3>2. CASE pc = "waitpid" /\ pc' = "check"
      BY <1>1, <1>4, <3>2, OpsOfPlaces DEF PlaceInv
    <3>3. CASE pc' = "looked"
      BY <1>1, <1>4, <3>3, OpsOfPlaces DEF PlaceInv
    <3> QED
      BY <1>4, <3>1, <3>2, <3>3
  <2> QED
    BY <1>1, <1>4, <2>1 DEF PlaceInv
<1>9. AnswerInv'
  BY <1>1, <1>3, <1>4 DEF AnswerInv
<1> QED
  BY <1>6, <1>7, <1>8, <1>9

(***************************************************************************)
(* The invariant is inductive                                              *)
(***************************************************************************)
LEMMA FineStep ==
  ASSUME JobsInv, Fine
  PROVE  PlainOK' /\ TablesInv' /\ PlaceInv' /\ AnswerInv'
BY QuietStep DEF Fine, JobsInv

LEMMA JobsInitially == HInit => JobsInv
<1> SUFFICES ASSUME HInit PROVE JobsInv
  OBVIOUS
<1>1. /\ living = {} /\ zombies = <<>> /\ pending = FALSE /\ js = InitialTable
      /\ the_pipeline = <<>> /\ last_asynchronous_pid = NO_PID /\ c_totforked = 0
      /\ sigchld = 0 /\ queue_sigchld = 0 /\ handling = FALSE
      /\ pc = "ready" /\ task = NoTask /\ pstat = NoAnswer
      /\ owed = [pid \in Pids |-> NoStatus]
  BY DEF HInit, Init
<1>2. NoAnswer \in Answers /\ NoAnswer.pid = 0
  BY DEF NoAnswer, Answer, Answers
<1>3. DOMAIN zombies = {}
  BY <1>1
<1>4. PlainOK
  <2>1. the_pipeline \in Seq(Processes)
    BY <1>1
  <2>2. task \in Tasks /\ pstat \in Answers /\ pc \in Places
    BY <1>1, <1>2, NewTasks DEF Places
  <2>3. c_totforked \in 0 .. MaxForks
    BY <1>1, MaxForksAssumption
  <2> QED
    BY <1>1, <1>3, <2>1, <2>2, <2>3 DEF PlainOK
<1>5. QueueRaised
  BY <1>1 DEF QueueRaised, Queueing
<1>6. TablesInv
  <2>1. PipeInv
    BY <1>1 DEF PipeInv
  <2>2. ChildInv
    BY <1>1, <1>3, InitialTableOK, NoProcess DEF ChildInv
  <2>3. OwedInv
    BY <1>1 DEF OwedInv
  <2> QED
    BY <1>1, <2>1, <2>2, <2>3, InitialTableOK DEF TablesInv
<1>7. PlaceInv
  BY <1>1, NewTasks, OpsOfPlaces, StatusIsNoMarker DEF PlaceInv
<1>8. AnswerInv
  <2>1. 0 \notin Pids
    BY StatusIsNoMarker
  <2> QED
    BY <1>1, <1>2, <2>1 DEF AnswerInv
<1> QED
  BY <1>4, <1>5, <1>6, <1>7, <1>8 DEF JobsInv

LEMMA ExecuteStep ==
  ASSUME JobsInv, HExecute
  PROVE  PlainOK' /\ TablesInv' /\ PlaceInv' /\ AnswerInv'
<1>1. PlainOK /\ Remember /\ Execute
  BY DEF HExecute, JobsInv
<1>2. ASSUME NEW pid \in Pids, NEW async \in BOOLEAN, MakeChild(pid, async)
      PROVE  PlainOK' /\ TablesInv' /\ PlaceInv' /\ AnswerInv'
  BY <1>1, <1>2, MakeChildStep
<1>3. ASSUME NEW first \in Pids, NEW last \in Pids, NEW async \in BOOLEAN,
             Pipeline(first, last, async)
      PROVE  PlainOK' /\ TablesInv' /\ PlaceInv' /\ AnswerInv'
  BY <1>1, <1>3, PipelineStep
<1>4. ASSUME NEW pid \in Pids, WaitForPid(pid)
      PROVE  Fine
  <2>1. living' = living /\ pc = "ready"
    BY <1>4 DEF WaitForPid, Mainline, kernel
  <2> QED
    BY <1>1, <1>4, <2>1, RememberSame, WaitForPidFine
<1>5. CASE WaitForAll \/ WaitForAny \/ ListJobs \/ ReapInLoop \/ ReadLine
  <2>1. living' = living /\ pc = "ready"
    BY <1>5 DEF WaitForAll, WaitForAny, ReturnJob, ListJobs, ReapInLoop, ReadLine, Begin,
                Mainline, kernel
  <2> QED
    BY <1>1, <1>5, <2>1, RememberSame, BeginFine, FineStep
<1> QED
  BY <1>1, <1>2, <1>3, <1>4, <1>5, FineStep DEF Execute

\* Of the steps with which the shell goes on only BgpClear forgets.
LEMMA ContinueStep ==
  ASSUME JobsInv, HContinue
  PROVE  PlainOK' /\ TablesInv' /\ PlaceInv' /\ AnswerInv'
<1>1. PlainOK /\ Remember /\ Continue
  BY DEF HContinue, JobsInv
<1>2. CASE BgpClear
  BY <1>1, <1>2, BgpClearStep
<1>3. CASE StopPipeline
  <2>1. living' = living /\ pc = "made"
    BY <1>3 DEF StopPipeline, Mainline, kernel
  <2> QED
    BY <1>1, <1>3, <2>1, RememberSame, StopPipelineStep
<1>4. CASE WaitReaps \/ UnqueueReaps
  <2>1. living' = living /\ pc # "clear"
    BY <1>4 DEF WaitReaps, UnqueueReaps, Reap, Mainline
  <2> QED
    BY <1>1, <1>4, <2>1, RememberSame, ReapFine
<1>5. CASE BlockChild \/ GoOnWaiting \/ WaitFindsNobody \/ EndWaitFor
  <2>1. living' = living /\ pc # "clear"
    BY <1>5 DEF BlockChild, GoOnWaiting, WaitFindsNobody, FindNobody, EndWaitFor, Mainline,
                kernel
  <2> QED
    BY <1>1, <1>5, <2>1, RememberSame, WaitForFine, FineStep
<1>6. CASE MarkWaited \/ WaitForNext \/ NoneLeft \/ Return \/ AnyStep
  <2>1. living' = living /\ pc # "clear"
    BY <1>6 DEF MarkWaited, WaitForNext, NoneLeft, Return, AnyStep, LookForJob, MarkAllDead,
                LookForDeadJob, ReturnJob, Mainline, kernel
  <2> QED
    BY <1>1, <1>6, <2>1, RememberSame, WaitFine, FineStep
<1>7. CASE \/ ReadSigchld \/ QueueAndClean \/ Unqueue \/ TestSigchld
           \/ UnqueueFindsNobody \/ EndUnqueue \/ PrintJobs \/ EndNotify
  <2>1. living' = living /\ pc # "clear"
    BY <1>7 DEF ReadSigchld, QueueAndClean, Unqueue, TestSigchld, UnqueueFindsNobody,
                FindNobody, EndUnqueue, PrintJobs, EndNotify, Mainline, kernel
  <2> QED
    BY <1>1, <1>7, <2>1, RememberSame, CleanupFine, FineStep
<1> QED
  BY <1>1, <1>2, <1>3, <1>4, <1>5, <1>6, <1>7
     DEF Continue, WaitForStep, WaitStep, CleanupStep

LEMMA JobsStep == JobsInv /\ [HNext]_allVars => JobsInv'
<1> SUFFICES ASSUME JobsInv, [HNext]_allVars PROVE JobsInv'
  OBVIOUS
<1>1. QueueRaised
  BY DEF JobsInv
<1>2. CASE HExecute
  BY <1>1, <1>2, ExecuteStep, ExecuteKeeps DEF HExecute, JobsInv
<1>3. CASE HContinue
  BY <1>1, <1>3, ContinueStep, ContinueKeeps DEF HContinue, JobsInv
<1>4. CASE HHandler
  <2>1. QueueRaised'
    <3>1. queue_sigchld' = queue_sigchld /\ pc' = pc
      BY <1>4 DEF HHandler, sigchld_handler, HandlerReaps, HandlerReturns
    <3> QED
      BY <1>1, <3>1 DEF QueueRaised
  <2> QED
    BY <1>4, <2>1, HandlerFine DEF JobsInv
<1>5. CASE HKernel
  <2>1. PICK pid \in Pids, status \in Statuses : Exit(pid, status) /\ Remember
    BY <1>5 DEF HKernel, Kernel
  <2>2. PlainOK' /\ TablesInv' /\ AnswerInv'
    BY <2>1, ExitStep
  <2>3. pc' = pc /\ task' = task /\ queue_sigchld' = queue_sigchld
    BY <2>1 DEF Exit, signals
  <2>4. PlaceInv' /\ QueueRaised'
    BY <1>1, <2>3 DEF JobsInv, PlaceInv, QueueRaised
  <2> QED
    BY <2>2, <2>4 DEF JobsInv
<1>6. CASE UNCHANGED allVars
  <2>1. /\ UNCHANGED <<living, zombies, pending, js, the_pipeline>>
        /\ UNCHANGED <<last_asynchronous_pid, c_totforked, sigchld, queue_sigchld>>
        /\ UNCHANGED <<handling, pc, task, pstat, owed>>
    BY <1>6 DEF allVars, vars, kernel, table, signals
  <2>2. Quiet
    BY <2>1, ImprovesItself DEF Quiet, JobsInv, TablesInv
  <2>3. TablesInv'
    BY <2>2, QuietStep DEF JobsInv
  <2>4. PlainOK' /\ PlaceInv' /\ AnswerInv' /\ QueueRaised'
    BY <2>1 DEF JobsInv, PlainOK, PlaceInv, AnswerInv, QueueRaised
  <2> QED
    BY <2>3, <2>4 DEF JobsInv
<1> QED
  BY <1>2, <1>3, <1>4, <1>5, <1>6 DEF HNext

(***************************************************************************)
(* The properties                                                          *)
(***************************************************************************)
LEMMA JobsInvariant == HSpec => []JobsInv
BY JobsInitially, JobsStep, PTL DEF HSpec

LEMMA TypesFollow == JobsInv => TypeOK
<1> SUFFICES ASSUME JobsInv PROVE TypeOK
  OBVIOUS
<1>1. PlainOK /\ QueueRaised /\ TableInv(js)
  BY DEF JobsInv, TablesInv
<1>2. Shape(js) /\ IndicesOK(js) /\ CurrentOK(js)
  BY <1>1 DEF TableInv
<1>3. TableOK
  <2>1. {js.firstj, js.lastj, js.njobs} \subseteq Nat
    <3>1. /\ Indices(js) \subseteq Nat /\ Cardinality(Indices(js)) \in Nat
          /\ Indices(js) \subseteq 0 .. js.slots /\ js.slots \in Nat
      BY <1>2, IndicesFinite DEF Shape
    <3>2. CASE Indices(js) = {}
      BY <1>2, <3>1, <3>2 DEF IndicesOK
    <3>3. CASE Indices(js) # {}
      <4>1. Min(Indices(js)) \in Nat /\ Max(Indices(js)) \in Nat
        BY <3>1, <3>3, MinOfNat, MaxOfNat
      <4> QED
        BY <1>2, <3>1, <3>3, <4>1 DEF IndicesOK
    <3> QED
      BY <3>2, <3>3
  <2>2. {js.current, js.previous} \subseteq {NO_JOB} \cup 0 .. js.slots - 1
    BY <1>2 DEF Shape, CurrentOK
  <2> QED
    BY <1>2, <2>1, <2>2 DEF TableOK, Shape
<1> QED
  BY <1>1, <1>3 DEF TypeOK, PlainOK, QueueRaised

\* Every component has its type; queue_sigchld, which QUEUE_SIGCHLD counts up
\* and UNQUEUE_SIGCHLD down, is 1 between the two and 0 elsewhere, however
\* notify_of_job_status and wait_for, which also raise it, alternate with them.
THEOREM JobTypes == HSpec => []TypeOK
BY JobsInvariant, TypesFollow, PTL

\* js.j_firstj, js.j_lastj and js.j_njobs describe the jobs array exactly after
\* any sequence of delete_job, reset_job_indices, realloc_jobs_list and
\* stop_pipeline: a new job goes to a free slot and overwrites none.
THEOREM IndicesAreExact == HSpec => []IndicesExact
<1>1. JobsInv => IndicesExact
  BY DEF JobsInv, TablesInv, TableInv, IndicesOK, IndicesExact
<1> QED
  BY <1>1, JobsInvariant, PTL

\* js.j_current and js.j_previous are jobs of the table, also after
\* realloc_jobs_list has moved the jobs, and there is a current job while a
\* background job runs.
THEOREM CurrentJobExists == HSpec => []CurrentExists
<1>1. JobsInv => CurrentExists
  BY DEF JobsInv, TablesInv, TableInv, CurrentOK, CurrentExists
<1> QED
  BY <1>1, JobsInvariant, PTL

LEMMA ChildrenFollow == JobsInv => RunningIsChild
<1> SUFFICES ASSUME JobsInv PROVE RunningIsChild
  OBVIOUS
<1>1. TableInv(js) /\ ChildInv /\ PlainOK
  BY DEF JobsInv, TablesInv
<1>2. \A pid \in Pids : pid \in Alive(js) <=> find_live_job(js, pid) # NO_JOB
  <2>1. \A i \in Indices(js) : i # NO_JOB
    BY <1>1, IndicesFinite DEF TableInv
  <2> QED
    BY <1>1, <2>1, FoundJob
<1>3. RunningProcs = living \cup DOMAIN zombies
  <2>1. \A pid \in Pids : pid \in RunningProcs <=> pid \in living \cup DOMAIN zombies
    BY <1>1, <1>2 DEF RunningProcs, ChildInv
  <2> QED
    BY <1>1, <2>1 DEF RunningProcs, PlainOK
<1> QED
  BY <1>1, <1>3 DEF RunningIsChild, TableInv, ContentsOK

\* waitchld, find_process and make_child's delete_old_job keep the table in step
\* with the kernel: the processes that run for the shell are its children, each
\* in one job, and a job is dead when none of its processes runs.
THEOREM TableMatchesChildren == HSpec => []RunningIsChild
BY JobsInvariant, ChildrenFollow, PTL

LEMMA StatusFollows == JobsInv => StatusKept
<1> SUFFICES ASSUME JobsInv, NEW pid \in Pids, owed[pid] \in Statuses
             PROVE  Recorded(pid, owed[pid])
  BY DEF StatusKept
<1>1. TablesInv /\ TableInv(js) /\ PlainOK
  BY DEF JobsInv, TablesInv
<1>2. owed[pid] # NoStatus /\ owed[pid] # Due /\ OwedAt(pid)
  BY <1>1, StatusIsNoMarker DEF TablesInv, OwedInv
<1>3. CASE pid \in DOMAIN zombies
  BY <1>2, <1>3 DEF OwedAt, Recorded
<1>4. CASE pid \notin DOMAIN zombies /\ pc = "made" /\ pid = task.pid
  <2>1. PICK p \in Processes : the_pipeline = <<p>> /\ p.pid = pid
    BY <1>1, <1>4 DEF TablesInv, PipeInv
  <2>2. AliveAt(the_pipeline, pid) = {}
    BY <1>1, <1>2, <1>4 DEF TablesInv, ChildInv, OwedAt
  <2>3. ~p.running
    BY <2>1, <2>2, SingleProcess
  <2>4. the_pipeline[1] = p /\ 1 \in At(the_pipeline, pid)
    BY <2>1, SingleProcess
  <2>5. the_pipeline[1].status = owed[pid]
    BY <1>2, <1>4, <2>3, <2>4 DEF OwedAt
  <2> QED
    BY <2>4, <2>5 DEF Recorded
<1>5. CASE pid \notin DOMAIN zombies /\ ~(pc = "made" /\ pid = task.pid)
  <2>1. Kept(js, pid, owed[pid])
    BY <1>2, <1>5 DEF OwedAt
  <2>2. CASE Holds(js, pid)
    <3>1. PICK i \in Indices(js) : At(js.jobs[i].procs, pid) # {}
      BY <2>2 DEF Holds
    <3>2. Keeper(js.jobs[i], pid, owed[pid])
      BY <2>1, <3>1 DEF Kept
    <3>3. pid \notin Alive(js)
      BY <1>1, <1>2, <1>5 DEF TablesInv, ChildInv, OwedAt
    <3>4. ~find_last_proc(js.jobs[i]).running
      <4>1. AliveAt(js.jobs[i].procs, pid) = {}
        BY <3>1, <3>3 DEF Alive
      <4>2. /\ find_last_pid(js.jobs[i]) = pid
            /\ js.jobs[i] \in Jobs /\ js.jobs[i].procs # <<>>
        BY <1>1, <3>1, <3>2 DEF Keeper, TableInv, Shape
      <4>3. /\ Len(js.jobs[i].procs) \in DOMAIN js.jobs[i].procs
            /\ js.jobs[i].procs[Len(js.jobs[i].procs)].pid = pid
        BY <4>2 DEF Jobs, find_last_pid, find_last_proc
      <4> QED
        BY <4>1, <4>3 DEF AliveAt, At, find_last_proc
    <3> QED
      BY <3>1, <3>2, <3>4 DEF Keeper, Recorded
  <2>3. CASE ~Holds(js, pid)
    BY <2>1, <2>3 DEF Kept, Recorded
  <2> QED
    BY <2>2, <2>3
<1> QED
  BY <1>3, <1>4, <1>5

\* The status of a process the script has had in $! is not lost between its exit
\* and the next wait without arguments, or the reuse of a pid of its job: not by
\* the deletion of its job in cleanup_dead_jobs, by the compaction of the array
\* or by a SIGCHLD at any time.
THEOREM StatusIsKept == HSpec => []StatusKept
BY JobsInvariant, StatusFollows, PTL

\* wait PID answers with the status the process exited with, whether its job is
\* in the table or its status among the saved ones.
THEOREM WaitTellsTheStatus == HSpec => []WaitAnswersOwed
<1>1. JobsInv => WaitAnswersOwed
  BY DEF JobsInv, AnswerInv, WaitAnswersOwed
<1> QED
  BY <1>1, JobsInvariant, PTL
=============================================================================
