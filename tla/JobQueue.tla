------------------------------ MODULE JobQueue ------------------------------
(***************************************************************************)
(* The persistent job queue of gitai-store (table `jobs`) together with    *)
(* the runners and the lease reaper that gitai-server spawns on it.        *)
(*                                                                         *)
(* Time is a discrete clock.  Every store call that compares timestamps    *)
(* reads the clock BEFORE its SQL statement runs (`let now = Utc::now()`), *)
(* so reading the clock and executing the statement are separate steps.    *)
(* The body of a run is a single phase here; TaskRun describes it.         *)
(***************************************************************************)
EXTENDS Integers, FiniteSets

CONSTANTS
  Tasks,       \* task ids an issue webhook may submit
  Runners,     \* the worker loops, of every process
  Processes,   \* the gitai processes: each one is a set of runners
  NULL,        \* SQL NULL
  Lease,       \* LEASE_SECS
  BaseDelay,   \* the 30 seconds backoff starts from
  MaxDelay,    \* the ten minutes backoff is capped at
  MaxTime,     \* bound: the clock stops here
  MaxFaults    \* bound: crashes, panics and failing store calls

ASSUME LeaseAssumption == Lease \in Nat \ {0}
ASSUME DelayAssumption == BaseDelay \in Nat /\ MaxDelay \in Nat
ASSUME NullAssumption == NULL \notin Runners /\ NULL \notin Nat
ASSUME ProcessAssumption == UNION Processes = Runners
ASSUME BoundAssumption == MaxTime \in Nat /\ MaxFaults \in Nat

VARIABLES
  clock,      \* Utc::now()
  jobs,       \* the table: id -> row
  nextId,     \* AUTOINCREMENT
  submitted,  \* tasks that were created and enqueued
  pc,         \* where each runner is in run_worker
  seen,       \* the `now` a runner's store call has read, 0 once out of scope
  held,       \* the Job each runner got from claim_job
  sweep,      \* the `now` each process's reaper read, NULL while it sleeps
  up,         \* processes that are running
  done,       \* history: tasks some run of which returned Ok
  faults      \* history: faults so far

vars == <<clock, jobs, nextId, submitted, pc, seen, held, sweep, up, done, faults>>

-----------------------------------------------------------------------------
(* Data *)

Job == [task: Tasks, attempts: Nat, runAfter: Nat,
        claimedBy: Runners \cup {NULL}, leaseUntil: Nat \cup {NULL}]

\* The Job value a claim returns, with the lease it was granted under.
Claim == [id: Nat, task: Tasks \cup {NULL}, attempts: Nat, until: Nat]
NoClaim == [id |-> 0, task |-> NULL, attempts |-> 0, until |-> 0]

Phases == {"idle", "claiming", "loading", "running", "finishing", "releasing", "down"}
Holding == {"loading", "running", "finishing", "releasing"}

LowerOf(a, b) == IF a <= b THEN a ELSE b

\* 2u64.saturating_pow(n) for the exponents 0..10 backoff uses.
PowerOfTwo(n) ==
  CASE n = 0 -> 1   [] n = 1 -> 2   [] n = 2 -> 4   [] n = 3 -> 8
    [] n = 4 -> 16  [] n = 5 -> 32  [] n = 6 -> 64  [] n = 7 -> 128
    [] n = 8 -> 256 [] n = 9 -> 512 [] OTHER -> 1024

Backoff(attempts) ==
  LET exponent == IF attempts = 0 THEN 0 ELSE LowerOf(attempts - 1, 10)
  IN  LowerOf(BaseDelay * PowerOfTwo(exponent), MaxDelay)

\* Mutant of Due: the lease is not looked at.
DueWhateverTheLease(now) == {i \in DOMAIN jobs : jobs[i].runAfter <= now}

\* Mutant of Due: a claimed row is left to the reaper.
DueUnclaimed(now) == {i \in DOMAIN jobs : jobs[i].runAfter <= now /\ jobs[i].claimedBy = NULL}

\* WHERE run_after <= now AND (claimed_by IS NULL OR lease_until IS NULL OR lease_until < now)
Due(now) ==
  {i \in DOMAIN jobs :
     /\ jobs[i].runAfter <= now
     /\ \/ jobs[i].claimedBy = NULL
        \/ jobs[i].leaseUntil = NULL
        \/ jobs[i].leaseUntil < now}

\* ORDER BY run_after ASC LIMIT 1
FirstDue(now) ==
  {i \in Due(now) : \A k \in Due(now) : jobs[i].runAfter <= jobs[k].runAfter}

Unclaimed(row) == [row EXCEPT !.claimedBy = NULL, !.leaseUntil = NULL]

-----------------------------------------------------------------------------
(* The queue operations of the store *)

\* INSERT ... ON CONFLICT(task_id) DO UPDATE: a second enqueue moves the schedule.
Enqueue(t, when) ==
  IF \E i \in DOMAIN jobs : jobs[i].task = t
  THEN /\ jobs' = [i \in DOMAIN jobs |->
                     IF jobs[i].task = t
                     THEN [Unclaimed(jobs[i]) EXCEPT !.runAfter = when]
                     ELSE jobs[i]]
       /\ UNCHANGED nextId
  ELSE /\ jobs' = [i \in DOMAIN jobs \cup {nextId} |->
                     IF i = nextId
                     THEN [task |-> t, attempts |-> 0, runAfter |-> when,
                           claimedBy |-> NULL, leaseUntil |-> NULL]
                     ELSE jobs[i]]
       /\ nextId' = nextId + 1

\* DELETE FROM jobs WHERE id = ?
DeleteJob(id) == jobs' = [i \in DOMAIN jobs \ {id} |-> jobs[i]]

\* UPDATE jobs SET claimed_by = NULL, lease_until = NULL, run_after = ? WHERE id = ?
ReleaseJob(id, when) ==
  jobs' = [i \in DOMAIN jobs |->
             IF i = id THEN [Unclaimed(jobs[i]) EXCEPT !.runAfter = when] ELSE jobs[i]]

\* Mutant of FreeExpired: dead runners' rows are deleted instead of freed.
DropExpired(now) ==
  jobs' = [i \in {k \in DOMAIN jobs : jobs[k].claimedBy = NULL \/ jobs[k].leaseUntil >= now}
             |-> jobs[i]]

\* Mutant of FreeExpired: every claimed row is freed.
FreeAll(now) == jobs' = [i \in DOMAIN jobs |-> Unclaimed(jobs[i])]

\* The reaper's UPDATE over every row whose lease has run out.
FreeExpired(now) ==
  jobs' = [i \in DOMAIN jobs |->
             IF /\ jobs[i].claimedBy # NULL
                /\ jobs[i].leaseUntil # NULL
                /\ jobs[i].leaseUntil < now
             THEN Unclaimed(jobs[i]) ELSE jobs[i]]

-----------------------------------------------------------------------------
Init ==
  /\ clock = 0
  /\ jobs = [i \in {} |-> NoClaim]
  /\ nextId = 1
  /\ submitted = {}
  /\ pc = [w \in Runners |-> "idle"]
  /\ seen = [w \in Runners |-> 0]
  /\ held = [w \in Runners |-> NoClaim]
  /\ sweep = [p \in Processes |-> NULL]
  /\ up = Processes
  /\ done = {}
  /\ faults = 0

\* A fault is only taken while the bound allows one more.
Fault == faults < MaxFaults /\ faults' = faults + 1

\* The webhook creates a task with a fresh id and enqueues it for right now.
Submit(t) ==
  /\ t \notin submitted
  /\ submitted' = submitted \cup {t}
  /\ Enqueue(t, clock)
  /\ UNCHANGED <<clock, pc, seen, held, sweep, up, done, faults>>

\* run_worker calls claim_job, which reads the clock and waits for the write lock.
BeginClaim(w) ==
  /\ pc[w] = "idle"
  /\ pc' = [pc EXCEPT ![w] = "claiming"]
  /\ seen' = [seen EXCEPT ![w] = clock]
  /\ UNCHANGED <<clock, jobs, nextId, submitted, held, sweep, up, done, faults>>

\* The BEGIN IMMEDIATE transaction: select the first due row and lease it to w.
ClaimJob(w) ==
  /\ pc[w] = "claiming"
  /\ \E i \in FirstDue(seen[w]) :
       /\ jobs' = [jobs EXCEPT ![i].claimedBy = w,
                               ![i].leaseUntil = seen[w] + Lease,
                               ![i].attempts = @ + 1]
       /\ held' = [held EXCEPT ![w] = [id |-> i, task |-> jobs[i].task,
                                       attempts |-> jobs[i].attempts + 1,
                                       until |-> seen[w] + Lease]]
  /\ pc' = [pc EXCEPT ![w] = "loading"]
  /\ seen' = [seen EXCEPT ![w] = 0]
  /\ UNCHANGED <<clock, nextId, submitted, sweep, up, done, faults>>

\* claim_job returns Ok(None): sleep IDLE_POLL and ask again.
NothingDue(w) ==
  /\ pc[w] = "claiming"
  /\ Due(seen[w]) = {}
  /\ pc' = [pc EXCEPT ![w] = "idle"]
  /\ seen' = [seen EXCEPT ![w] = 0]
  /\ UNCHANGED <<clock, jobs, nextId, submitted, held, sweep, up, done, faults>>

\* claim_job returns Err: the transaction rolled back, sleep and ask again.
ClaimFails(w) ==
  /\ pc[w] = "claiming"
  /\ Fault
  /\ pc' = [pc EXCEPT ![w] = "idle"]
  /\ seen' = [seen EXCEPT ![w] = 0]
  /\ UNCHANGED <<clock, jobs, nextId, submitted, held, sweep, up, done>>

\* run_task has read the task row: the run itself begins.
LoadTask(w) ==
  /\ pc[w] = "loading"
  /\ pc' = [pc EXCEPT ![w] = "running"]
  /\ UNCHANGED <<clock, jobs, nextId, submitted, seen, held, sweep, up, done, faults>>

\* get_task fails, the only error run_task lets out: the retry time is computed.
LoadFails(w) ==
  /\ pc[w] = "loading"
  /\ Fault
  /\ pc' = [pc EXCEPT ![w] = "releasing"]
  /\ seen' = [seen EXCEPT ![w] = clock]
  /\ UNCHANGED <<clock, jobs, nextId, submitted, held, sweep, up, done>>

\* run_task returns Ok(state), whatever the state is.
RunReturns(w) ==
  /\ pc[w] = "running"
  /\ pc' = [pc EXCEPT ![w] = "finishing"]
  /\ done' = done \cup {held[w].task}
  /\ UNCHANGED <<clock, jobs, nextId, submitted, seen, held, sweep, up, faults>>

\* finish_job deletes the row by id, whoever holds it now.
FinishJob(w) ==
  /\ pc[w] = "finishing"
  /\ DeleteJob(held[w].id)
  /\ pc' = [pc EXCEPT ![w] = "idle"]
  /\ held' = [held EXCEPT ![w] = NoClaim]
  /\ UNCHANGED <<clock, nextId, submitted, seen, sweep, up, done, faults>>

\* release_job puts the row back with a backoff, by id as well.
RetryJob(w) ==
  /\ pc[w] = "releasing"
  /\ ReleaseJob(held[w].id, seen[w] + Backoff(held[w].attempts))
  /\ pc' = [pc EXCEPT ![w] = "idle"]
  /\ held' = [held EXCEPT ![w] = NoClaim]
  /\ seen' = [seen EXCEPT ![w] = 0]
  /\ UNCHANGED <<clock, nextId, submitted, sweep, up, done, faults>>

\* finish_job or release_job fails: only a warning, the row keeps its claim.
SettleFails(w) ==
  /\ pc[w] \in {"finishing", "releasing"}
  /\ Fault
  /\ pc' = [pc EXCEPT ![w] = "idle"]
  /\ held' = [held EXCEPT ![w] = NoClaim]
  /\ seen' = [seen EXCEPT ![w] = 0]
  /\ UNCHANGED <<clock, jobs, nextId, submitted, sweep, up, done>>

-----------------------------------------------------------------------------
(* The reaper, crashes and time *)

\* REAP_INTERVAL has passed in process p: reap_expired_leases reads the clock.
WakeReaper(p) ==
  /\ p \in up
  /\ sweep[p] = NULL
  /\ sweep' = [sweep EXCEPT ![p] = clock]
  /\ UNCHANGED <<clock, jobs, nextId, submitted, pc, seen, held, up, done, faults>>

ReapExpiredLeases(p) ==
  /\ sweep[p] # NULL
  /\ FreeExpired(sweep[p])
  /\ sweep' = [sweep EXCEPT ![p] = NULL]
  /\ UNCHANGED <<clock, nextId, submitted, pc, seen, held, up, done, faults>>

\* A runner's task panics.  Nothing restarts it while its process lives.
Panic(w) ==
  /\ pc[w] # "down"
  /\ Fault
  /\ pc' = [pc EXCEPT ![w] = "down"]
  /\ held' = [held EXCEPT ![w] = NoClaim]
  /\ seen' = [seen EXCEPT ![w] = 0]
  /\ UNCHANGED <<clock, jobs, nextId, submitted, sweep, up, done>>

\* The process dies, or serve aborts its worker tasks on shutdown.
Crash(p) ==
  /\ p \in up
  /\ Fault
  /\ up' = up \ {p}
  /\ pc' = [w \in Runners |-> IF w \in p THEN "down" ELSE pc[w]]
  /\ held' = [w \in Runners |-> IF w \in p THEN NoClaim ELSE held[w]]
  /\ sweep' = [sweep EXCEPT ![p] = NULL]
  /\ seen' = [w \in Runners |-> IF w \in p THEN 0 ELSE seen[w]]
  /\ UNCHANGED <<clock, jobs, nextId, submitted, done>>

\* serve starts again: spawn_workers starts every runner and the reaper.
Restart(p) ==
  /\ p \notin up
  /\ up' = up \cup {p}
  /\ pc' = [w \in Runners |-> IF w \in p THEN "idle" ELSE pc[w]]
  /\ UNCHANGED <<clock, jobs, nextId, submitted, seen, held, sweep, done, faults>>

\* One store call, bounded by the pool's acquire_timeout and the busy_timeout,
\* ends before the lease that was counted from its start has run out.
StoreCallsAreShort ==
  \A w \in Runners :
    /\ pc[w] = "claiming" => clock < seen[w] + Lease
    /\ pc[w] \in {"loading", "releasing"} => clock < held[w].until

Tick ==
  /\ clock < MaxTime
  /\ StoreCallsAreShort
  /\ clock' = clock + 1
  /\ UNCHANGED <<jobs, nextId, submitted, pc, seen, held, sweep, up, done, faults>>

-----------------------------------------------------------------------------
RunnerStep(w) ==
  \/ BeginClaim(w) \/ ClaimJob(w) \/ NothingDue(w)
  \/ LoadTask(w) \/ RunReturns(w)
  \/ FinishJob(w) \/ RetryJob(w)

RunnerFault(w) == ClaimFails(w) \/ LoadFails(w) \/ SettleFails(w) \/ Panic(w)

ProcessStep(p) == WakeReaper(p) \/ ReapExpiredLeases(p) \/ Crash(p) \/ Restart(p)

Step ==
  \/ \E t \in Tasks : Submit(t)
  \/ \E w \in Runners : RunnerStep(w) \/ RunnerFault(w)
  \/ \E p \in Processes : ProcessStep(p)

Next == Step \/ Tick

Spec == Init /\ [][Next]_vars

-----------------------------------------------------------------------------
(* Properties *)

\* The tables and the runners' memory keep their shapes.
TypeOK ==
  /\ clock \in Nat
  /\ nextId \in Nat \ {0}
  /\ DOMAIN jobs \subseteq 1..(nextId - 1)
  /\ jobs \in [DOMAIN jobs -> Job]
  /\ submitted \subseteq Tasks
  /\ pc \in [Runners -> Phases]
  /\ seen \in [Runners -> Nat]
  /\ held \in [Runners -> Claim]
  /\ \A w \in Runners : pc[w] \in Holding => held[w].task \in Tasks
  /\ sweep \in [Processes -> Nat \cup {NULL}]
  /\ up \subseteq Processes
  /\ done \subseteq Tasks
  /\ faults \in 0..MaxFaults

\* w is working on its job and its lease has not run out.
Leased(w) == pc[w] \in Holding /\ clock <= held[w].until

\* However claims, retries, the reaper, crashes and late runners interleave, one
\* job never has two runners whose leases are both still valid: an overlap needs
\* a run that has outlived its lease.
LeaseExclusive ==
  \A v, w \in Runners :
    v # w /\ Leased(v) /\ Leased(w) => held[v].id # held[w].id

\* A task that was enqueued keeps its row in the table until a run of it has
\* returned Ok: no crash, retry, reap or obsolete runner loses it.
NothingLost ==
  \A t \in submitted \ done : \E i \in DOMAIN jobs : jobs[i].task = t

\* `attempts` numbers the hand-outs of a job: two runners working on one job never
\* carry the same number, and the row remembers the highest number given out.
AttemptsNumberTheClaims ==
  \A w \in Runners : pc[w] \in Holding =>
    /\ \A i \in DOMAIN jobs : i = held[w].id => held[w].attempts <= jobs[i].attempts
    /\ \A v \in Runners \ {w} :
         pc[v] \in Holding /\ held[v].id = held[w].id => held[v].attempts # held[w].attempts

\* A row whose lease is running is not taken from its runner: not by a claim or a
\* sweep that compares with a clock read earlier, and not by another runner's retry.
RunningLeaseKept ==
  [][\A i \in DOMAIN jobs \cap DOMAIN jobs' :
       /\ jobs[i].claimedBy # NULL
       /\ clock <= jobs[i].leaseUntil
       /\ <<jobs[i].claimedBy, jobs[i].leaseUntil>> # <<jobs'[i].claimedBy, jobs'[i].leaseUntil>>
       => \E w \in Runners : pc[w] = "releasing" /\ Leased(w) /\ held[w].id = i]_vars

-----------------------------------------------------------------------------
(* The inductive invariant: what the properties above rest on. *)

\* Clock readings lie in the past, and a store call is younger than a lease.
ReadingsArePast ==
  /\ \A w \in Runners :
       /\ seen[w] <= clock
       /\ pc[w] = "claiming" => clock <= seen[w] + Lease
       /\ pc[w] \in {"loading", "releasing"} => clock <= held[w].until
  /\ \A p \in Processes : sweep[p] # NULL => sweep[p] <= clock

\* While a lease is valid, the row either is gone or still shows that lease.
LeasesAreRecorded ==
  \A w \in Runners :
    Leased(w) /\ held[w].id \in DOMAIN jobs =>
      /\ jobs[held[w].id].claimedBy = w
      /\ jobs[held[w].id].leaseUntil = held[w].until

\* Rows belong to submitted tasks and show a whole claim or none, and what a runner holds is a row it was given.
HeldJobsAreRows ==
  /\ \A i \in DOMAIN jobs :
       /\ jobs[i].task \in submitted
       /\ jobs[i].claimedBy = NULL <=> jobs[i].leaseUntil = NULL
  /\ \A w \in Runners : pc[w] \in Holding =>
       /\ held[w].id < nextId
       /\ held[w].id \in DOMAIN jobs => jobs[held[w].id].task = held[w].task
       /\ pc[w] = "finishing" => held[w].task \in done

IInv ==
  /\ TypeOK
  /\ ReadingsArePast
  /\ LeasesAreRecorded
  /\ HeldJobsAreRows
  /\ LeaseExclusive
  /\ AttemptsNumberTheClaims
  /\ NothingLost
=============================================================================
