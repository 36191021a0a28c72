--------------------------- MODULE JobQueueProofs ---------------------------
(***************************************************************************)
(* Proofs about JobQueue, for every set of tasks, runners and processes,   *)
(* every lease and every bound.                                            *)
(***************************************************************************)
EXTENDS JobQueue, TLAPS

-----------------------------------------------------------------------------
(* Lemmas about the operators *)

\* The retry delay is a natural number whatever the attempt number is.
LEMMA BackoffType == \A n \in Nat : Backoff(n) \in Nat
<1> SUFFICES ASSUME NEW n \in Nat PROVE Backoff(n) \in Nat
  OBVIOUS
<1> DEFINE e == IF n = 0 THEN 0 ELSE LowerOf(n - 1, 10)
<1>1. PowerOfTwo(e) \in Nat
  BY DEF PowerOfTwo
<1>2. BaseDelay * PowerOfTwo(e) \in Nat
  BY <1>1, DelayAssumption
<1> QED
  BY <1>2, DelayAssumption DEF Backoff, LowerOf

\* Clearing a claim leaves a row a row.
LEMMA UnclaimedType == \A row \in Job : Unclaimed(row) \in Job
  BY DEF Unclaimed, Job

\* Releasing a row touches its claim and its schedule only.
LEMMA UnclaimedKeeps ==
  ASSUME NEW row \in Job, NEW when
  PROVE  LET released == [Unclaimed(row) EXCEPT !.runAfter = when]
         IN  /\ released.task = row.task /\ released.attempts = row.attempts
             /\ released.claimedBy = NULL /\ released.leaseUntil = NULL
             /\ Unclaimed(row).task = row.task /\ Unclaimed(row).attempts = row.attempts
             /\ Unclaimed(row).claimedBy = NULL /\ Unclaimed(row).leaseUntil = NULL
  BY DEF Unclaimed, Job

-----------------------------------------------------------------------------
(* Type correctness *)

\* The empty table, idle runners and a clock at zero have their types.
LEMMA TypeInit == Init => TypeOK
  BY BoundAssumption DEF Init, TypeOK, Job, Claim, NoClaim, Phases, Holding

\* Each operation keeps the types.
LEMMA TypeNext == TypeOK /\ [Next]_vars => TypeOK'
<1> SUFFICES ASSUME TypeOK, [Next]_vars PROVE TypeOK'
  OBVIOUS
<1> USE DEF TypeOK
<1>1. ASSUME NEW t \in Tasks, Submit(t) PROVE TypeOK'
  <2>1. CASE \E i \in DOMAIN jobs : jobs[i].task = t
    <3>1. /\ jobs' = [i \in DOMAIN jobs |->
                        IF jobs[i].task = t
                        THEN [Unclaimed(jobs[i]) EXCEPT !.runAfter = clock]
                        ELSE jobs[i]]
          /\ nextId' = nextId
      BY <1>1, <2>1 DEF Submit, Enqueue
    <3>2. \A i \in DOMAIN jobs : [Unclaimed(jobs[i]) EXCEPT !.runAfter = clock] \in Job
      BY DEF Job, Unclaimed
    <3>3. jobs' \in [DOMAIN jobs -> Job] /\ DOMAIN jobs' = DOMAIN jobs
      BY <3>1, <3>2
    <3> QED BY <1>1, <3>1, <3>3 DEF Submit
  <2>2. CASE ~ \E i \in DOMAIN jobs : jobs[i].task = t
    <3>1. /\ jobs' = [i \in DOMAIN jobs \cup {nextId} |->
                        IF i = nextId
                        THEN [task |-> t, attempts |-> 0, runAfter |-> clock,
                              claimedBy |-> NULL, leaseUntil |-> NULL]
                        ELSE jobs[i]]
          /\ nextId' = nextId + 1
      BY <1>1, <2>2 DEF Submit, Enqueue
    <3>2. [task |-> t, attempts |-> 0, runAfter |-> clock,
           claimedBy |-> NULL, leaseUntil |-> NULL] \in Job
      BY DEF Job
    <3>3. jobs' \in [DOMAIN jobs \cup {nextId} -> Job] /\ DOMAIN jobs' = DOMAIN jobs \cup {nextId}
      BY <3>1, <3>2
    <3> QED BY <1>1, <3>1, <3>3 DEF Submit
  <2> QED BY <2>1, <2>2
<1>2. ASSUME NEW w \in Runners, BeginClaim(w) PROVE TypeOK'
  BY <1>2 DEF BeginClaim, Phases, Holding
<1>3. ASSUME NEW w \in Runners, ClaimJob(w) PROVE TypeOK'
  <2>1. PICK i \in FirstDue(seen[w]) :
          /\ jobs' = [jobs EXCEPT ![i].claimedBy = w,
                                  ![i].leaseUntil = seen[w] + Lease,
                                  ![i].attempts = @ + 1]
          /\ held' = [held EXCEPT ![w] = [id |-> i, task |-> jobs[i].task,
                                          attempts |-> jobs[i].attempts + 1,
                                          until |-> seen[w] + Lease]]
    BY <1>3 DEF ClaimJob
  <2>2. i \in DOMAIN jobs /\ i \in Nat /\ jobs[i] \in Job /\ seen[w] + Lease \in Nat
    BY LeaseAssumption DEF FirstDue, Due
  <2>3. jobs' \in [DOMAIN jobs -> Job] /\ DOMAIN jobs' = DOMAIN jobs
    BY <2>1, <2>2 DEF Job
  <2>4. held' \in [Runners -> Claim]
    BY <2>1, <2>2 DEF Job, Claim
  <2>5. pc' = [pc EXCEPT ![w] = "loading"]
    BY <1>3 DEF ClaimJob
  <2>6. \A v \in Runners : pc'[v] \in Holding => held'[v].task \in Tasks
    BY <2>1, <2>2, <2>5 DEF Job, Holding
  <2> QED BY <1>3, <2>3, <2>4, <2>5, <2>6 DEF ClaimJob, Phases
<1>4. ASSUME NEW w \in Runners, NothingDue(w) PROVE TypeOK'
  BY <1>4 DEF NothingDue, Phases, Holding
<1>5. ASSUME NEW w \in Runners, ClaimFails(w) PROVE TypeOK'
  BY <1>5, BoundAssumption DEF ClaimFails, Fault, Phases, Holding
<1>6. ASSUME NEW w \in Runners, LoadTask(w) PROVE TypeOK'
  BY <1>6 DEF LoadTask, Phases, Holding
<1>7. ASSUME NEW w \in Runners, LoadFails(w) PROVE TypeOK'
  BY <1>7, BoundAssumption DEF LoadFails, Fault, Phases, Holding
<1>8. ASSUME NEW w \in Runners, RunReturns(w) PROVE TypeOK'
  BY <1>8 DEF RunReturns, Phases, Holding
<1>9. ASSUME NEW w \in Runners, FinishJob(w) PROVE TypeOK'
  BY <1>9 DEF FinishJob, DeleteJob, NoClaim, Claim, Phases, Holding
<1>10. ASSUME NEW w \in Runners, RetryJob(w) PROVE TypeOK'
  <2> DEFINE when == seen[w] + Backoff(held[w].attempts)
  <2>1. when \in Nat
    BY BackoffType DEF Claim
  <2>2. \A i \in DOMAIN jobs : [Unclaimed(jobs[i]) EXCEPT !.runAfter = when] \in Job
    BY <2>1 DEF Job, Unclaimed
  <2>3. jobs' \in [DOMAIN jobs -> Job] /\ DOMAIN jobs' = DOMAIN jobs
    BY <1>10, <2>2 DEF RetryJob, ReleaseJob
  <2> QED BY <1>10, <2>3 DEF RetryJob, NoClaim, Claim, Phases, Holding
<1>11. ASSUME NEW w \in Runners, SettleFails(w) PROVE TypeOK'
  BY <1>11, BoundAssumption DEF SettleFails, Fault, NoClaim, Claim, Phases, Holding
<1>12. ASSUME NEW w \in Runners, Panic(w) PROVE TypeOK'
  BY <1>12, BoundAssumption DEF Panic, Fault, NoClaim, Claim, Phases, Holding
<1>13. ASSUME NEW p \in Processes, WakeReaper(p) PROVE TypeOK'
  BY <1>13 DEF WakeReaper
<1>14. ASSUME NEW p \in Processes, ReapExpiredLeases(p) PROVE TypeOK'
  <2>1. jobs' \in [DOMAIN jobs -> Job] /\ DOMAIN jobs' = DOMAIN jobs
    BY <1>14, UnclaimedType DEF ReapExpiredLeases, FreeExpired
  <2> QED BY <1>14, <2>1 DEF ReapExpiredLeases
<1>15. ASSUME NEW p \in Processes, Crash(p) PROVE TypeOK'
  BY <1>15, BoundAssumption DEF Crash, Fault, NoClaim, Claim, Phases, Holding
<1>16. ASSUME NEW p \in Processes, Restart(p) PROVE TypeOK'
  BY <1>16 DEF Restart, Phases, Holding
<1>17. CASE Tick
  BY <1>17 DEF Tick
<1>18. CASE UNCHANGED vars
  BY <1>18 DEF vars
<1> QED
  BY <1>1, <1>2, <1>3, <1>4, <1>5, <1>6, <1>7, <1>8, <1>9, <1>10, <1>11, <1>12, <1>13,
     <1>14, <1>15, <1>16, <1>17, <1>18
     DEF Next, Step, RunnerStep, RunnerFault, ProcessStep

\* The table and the runners' memory keep their types in every behaviour.
THEOREM TypeCorrect == Spec => []TypeOK
  BY TypeInit, TypeNext, PTL DEF Spec

-----------------------------------------------------------------------------
(* The inductive invariant *)

\* The inductive invariant holds initially: nobody holds a job and no row exists.
LEMMA IInvInit == Init => IInv
  BY TypeInit DEF Init, IInv, ReadingsArePast, LeasesAreRecorded, HeldJobsAreRows,
     LeaseExclusive, AttemptsNumberTheClaims, NothingLost, Leased, Holding

\* Every step of a runner, a reaper, a process or the clock keeps the inductive invariant.
LEMMA IInvNext == IInv /\ [Next]_vars => IInv'
<1> SUFFICES ASSUME IInv, [Next]_vars PROVE IInv'
  OBVIOUS
<1>0. TypeOK'
  BY TypeNext DEF IInv
<1> DEFINE Rest == /\ ReadingsArePast /\ LeasesAreRecorded /\ HeldJobsAreRows
                   /\ LeaseExclusive /\ AttemptsNumberTheClaims /\ NothingLost
<1> USE DEF IInv, TypeOK, ReadingsArePast, LeasesAreRecorded, HeldJobsAreRows,
     LeaseExclusive, AttemptsNumberTheClaims, NothingLost, Leased, Holding, Claim
<1>1. ASSUME NEW t \in Tasks, Submit(t) PROVE Rest'
  BY <1>0, <1>1 DEF Submit, Enqueue
<1>2. ASSUME NEW w \in Runners, BeginClaim(w) PROVE Rest'
  BY <1>0, <1>2, LeaseAssumption DEF BeginClaim
<1>3. ASSUME NEW w \in Runners, ClaimJob(w) PROVE Rest'
  <2>1. PICK i \in FirstDue(seen[w]) :
          /\ jobs' = [jobs EXCEPT ![i].claimedBy = w,
                                  ![i].leaseUntil = seen[w] + Lease,
                                  ![i].attempts = @ + 1]
          /\ held' = [held EXCEPT ![w] = [id |-> i, task |-> jobs[i].task,
                                          attempts |-> jobs[i].attempts + 1,
                                          until |-> seen[w] + Lease]]
    BY <1>3 DEF ClaimJob
  <2>2. /\ i \in DOMAIN jobs /\ i \in Nat /\ i < nextId /\ jobs[i] \in Job
        /\ \/ jobs[i].claimedBy = NULL
           \/ jobs[i].leaseUntil = NULL
           \/ jobs[i].leaseUntil < seen[w]
    BY DEF FirstDue, Due
  <2>3. /\ pc[w] = "claiming" /\ pc' = [pc EXCEPT ![w] = "loading"]
        /\ seen' = [seen EXCEPT ![w] = 0]
        /\ UNCHANGED <<clock, nextId, submitted, sweep, up, done, faults>>
    BY <1>3 DEF ClaimJob
  \* No valid lease is on the row that was due.
  <2>4. \A v \in Runners : Leased(v) => held[v].id # i
    BY <2>2, NullAssumption
  <2>5. /\ DOMAIN jobs' = DOMAIN jobs
        /\ \A k \in DOMAIN jobs : jobs'[k].task = jobs[k].task
        /\ \A k \in DOMAIN jobs \ {i} : jobs'[k] = jobs[k]
        /\ jobs'[i].claimedBy = w /\ jobs'[i].leaseUntil = seen[w] + Lease
        /\ jobs'[i].attempts = jobs[i].attempts + 1 /\ jobs[i].attempts \in Nat
    BY <2>1, <2>2 DEF Job
  <2>6. /\ held'[w].id = i /\ held'[w].task = jobs[i].task
        /\ held'[w].attempts = jobs[i].attempts + 1
        /\ held'[w].until = seen[w] + Lease
        /\ \A v \in Runners \ {w} : held'[v] = held[v] /\ pc'[v] = pc[v]
        /\ pc'[w] = "loading"
    BY <2>1, <2>3
  <2>7. ReadingsArePast'
    BY <1>0, <2>3, <2>6
  <2>8. LeasesAreRecorded'
    BY <2>3, <2>4, <2>5, <2>6
  <2>a. seen[w] + Lease # NULL /\ w # NULL
    BY NullAssumption, LeaseAssumption
  <2>9. HeldJobsAreRows'
    BY <2>2, <2>3, <2>5, <2>6, <2>a
  <2>10. LeaseExclusive'
    BY <2>3, <2>4, <2>6
  <2>11. AttemptsNumberTheClaims'
    BY <2>2, <2>3, <2>5, <2>6
  <2>12. NothingLost'
    BY <2>3, <2>5
  <2> QED BY <2>7, <2>8, <2>9, <2>10, <2>11, <2>12
<1>4. ASSUME NEW w \in Runners, NothingDue(w) PROVE Rest'
  BY <1>0, <1>4 DEF NothingDue
<1>5. ASSUME NEW w \in Runners, ClaimFails(w) PROVE Rest'
  BY <1>0, <1>5 DEF ClaimFails
<1>6. ASSUME NEW w \in Runners, LoadTask(w) PROVE Rest'
  BY <1>0, <1>6 DEF LoadTask
<1>7. ASSUME NEW w \in Runners, LoadFails(w) PROVE Rest'
  BY <1>0, <1>7 DEF LoadFails
<1>8. ASSUME NEW w \in Runners, RunReturns(w) PROVE Rest'
  BY <1>0, <1>8 DEF RunReturns
<1>9. ASSUME NEW w \in Runners, FinishJob(w) PROVE Rest'
  <2>1. /\ pc[w] = "finishing" /\ pc' = [pc EXCEPT ![w] = "idle"]
        /\ held' = [held EXCEPT ![w] = NoClaim]
        /\ UNCHANGED <<clock, nextId, submitted, seen, sweep, up, done, faults>>
    BY <1>9 DEF FinishJob
  <2>2. /\ DOMAIN jobs' = DOMAIN jobs \ {held[w].id}
        /\ \A i \in DOMAIN jobs' : jobs'[i] = jobs[i]
    BY <1>9 DEF FinishJob, DeleteJob
  <2>3. \A v \in Runners \ {w} : held'[v] = held[v] /\ pc'[v] = pc[v] /\ pc'[w] = "idle"
    BY <2>1
  <2>4. ReadingsArePast'
    BY <2>1, <2>3
  <2>5. LeasesAreRecorded' /\ HeldJobsAreRows'
    BY <2>1, <2>2, <2>3
  <2>6. LeaseExclusive' /\ AttemptsNumberTheClaims'
    BY <2>1, <2>2, <2>3
  \* The deleted row's task has a finished run.
  <2>7. NothingLost'
    BY <2>1, <2>2
  <2> QED BY <2>4, <2>5, <2>6, <2>7
<1>10. ASSUME NEW w \in Runners, RetryJob(w) PROVE Rest'
  <2>1. /\ pc[w] = "releasing" /\ pc' = [pc EXCEPT ![w] = "idle"]
        /\ seen' = [seen EXCEPT ![w] = 0] /\ held' = [held EXCEPT ![w] = NoClaim]
        /\ UNCHANGED <<clock, nextId, submitted, sweep, up, done, faults>>
    BY <1>10 DEF RetryJob
  <2>2. /\ DOMAIN jobs' = DOMAIN jobs
        /\ \A i \in DOMAIN jobs \ {held[w].id} : jobs'[i] = jobs[i]
        /\ \A i \in DOMAIN jobs : /\ jobs'[i].task = jobs[i].task
                                  /\ jobs'[i].attempts = jobs[i].attempts
                                  /\ jobs'[i].claimedBy = NULL <=> jobs'[i].leaseUntil = NULL
    BY <1>10, UnclaimedKeeps DEF RetryJob, ReleaseJob
  \* A retry comes before its own lease is over, so it frees nobody else's row.
  <2>3. \A v \in Runners \ {w} : Leased(v) => held[v].id # held[w].id
    BY <2>1
  <2>4. \A v \in Runners \ {w} : held'[v] = held[v] /\ pc'[v] = pc[v] /\ pc'[w] = "idle"
    BY <2>1
  <2>5. ReadingsArePast'
    BY <1>0, <2>1, <2>4
  <2>6. LeasesAreRecorded'
    BY <2>1, <2>2, <2>3, <2>4
  <2>7. HeldJobsAreRows'
    BY <2>1, <2>2, <2>4
  <2>8. LeaseExclusive'
    BY <2>1, <2>4
  <2>9. AttemptsNumberTheClaims'
    BY <2>1, <2>2, <2>4
  <2>10. NothingLost'
    BY <2>1, <2>2
  <2> QED BY <2>5, <2>6, <2>7, <2>8, <2>9, <2>10
<1>11. ASSUME NEW w \in Runners, SettleFails(w) PROVE Rest'
  BY <1>0, <1>11 DEF SettleFails
<1>12. ASSUME NEW w \in Runners, Panic(w) PROVE Rest'
  BY <1>0, <1>12 DEF Panic
<1>13. ASSUME NEW p \in Processes, WakeReaper(p) PROVE Rest'
  BY <1>0, <1>13 DEF WakeReaper
<1>14. ASSUME NEW p \in Processes, ReapExpiredLeases(p) PROVE Rest'
  <2>1. /\ sweep[p] \in Nat /\ sweep' = [sweep EXCEPT ![p] = NULL]
        /\ UNCHANGED <<clock, nextId, submitted, pc, seen, held, up, done, faults>>
    BY <1>14 DEF ReapExpiredLeases
  <2>2. /\ DOMAIN jobs' = DOMAIN jobs
        /\ \A i \in DOMAIN jobs : /\ jobs'[i].task = jobs[i].task
                                  /\ jobs'[i].attempts = jobs[i].attempts
                                  /\ jobs'[i].claimedBy = NULL <=> jobs'[i].leaseUntil = NULL
    BY <1>14, UnclaimedKeeps DEF ReapExpiredLeases, FreeExpired
  \* The sweep compares with a past reading, so a valid lease is left alone.
  <2>3. \A i \in DOMAIN jobs : jobs[i].leaseUntil \in Nat /\ clock <= jobs[i].leaseUntil
                              => jobs'[i] = jobs[i]
    BY <1>14, <2>1 DEF ReapExpiredLeases, FreeExpired
  <2>4. ReadingsArePast'
    BY <2>1
  <2>5. LeasesAreRecorded'
    BY <2>1, <2>2, <2>3
  <2>6. HeldJobsAreRows' /\ LeaseExclusive' /\ AttemptsNumberTheClaims' /\ NothingLost'
    BY <2>1, <2>2
  <2> QED BY <2>4, <2>5, <2>6
<1>15. ASSUME NEW p \in Processes, Crash(p) PROVE Rest'
  BY <1>0, <1>15 DEF Crash
<1>16. ASSUME NEW p \in Processes, Restart(p) PROVE Rest'
  BY <1>0, <1>16 DEF Restart
<1>17. CASE Tick
  BY <1>0, <1>17, LeaseAssumption DEF Tick, StoreCallsAreShort
<1>18. CASE UNCHANGED vars
  BY <1>18 DEF vars
<1> QED
  BY <1>0, <1>1, <1>2, <1>3, <1>4, <1>5, <1>6, <1>7, <1>8, <1>9, <1>10, <1>11, <1>12,
     <1>13, <1>14, <1>15, <1>16, <1>17, <1>18
     DEF Next, Step, RunnerStep, RunnerFault, ProcessStep

\* The inductive invariant holds in every behaviour.
THEOREM IInvHolds == Spec => []IInv
  BY IInvInit, IInvNext, PTL DEF Spec

\* One job never has two runners with valid leases, for any number of runners,
\* processes, crashes and late runs.
THEOREM LeaseIsExclusive == Spec => []LeaseExclusive
  BY IInvHolds, PTL DEF IInv

\* A task that was enqueued keeps its row until a run of it has returned.
THEOREM NoTaskIsLost == Spec => []NothingLost
  BY IInvHolds, PTL DEF IInv

\* Hand-out numbers tell any two runners of one job apart.
THEOREM AttemptsAreFences == Spec => []AttemptsNumberTheClaims
  BY IInvHolds, PTL DEF IInv

-----------------------------------------------------------------------------
(* The action property *)

\* A step from a state with the inductive invariant takes no running lease away.
LEMMA RunningLeaseStep ==
  IInv /\ [Next]_vars =>
    [\A i \in DOMAIN jobs \cap DOMAIN jobs' :
       /\ jobs[i].claimedBy # NULL
       /\ clock <= jobs[i].leaseUntil
       /\ <<jobs[i].claimedBy, jobs[i].leaseUntil>> # <<jobs'[i].claimedBy, jobs'[i].leaseUntil>>
       => \E w \in Runners : pc[w] = "releasing" /\ Leased(w) /\ held[w].id = i]_vars
<1> SUFFICES ASSUME IInv, Next,
                    NEW i \in DOMAIN jobs \cap DOMAIN jobs',
                    jobs[i].claimedBy # NULL, clock <= jobs[i].leaseUntil,
                    <<jobs[i].claimedBy, jobs[i].leaseUntil>>
                      # <<jobs'[i].claimedBy, jobs'[i].leaseUntil>>
             PROVE  \E w \in Runners : pc[w] = "releasing" /\ Leased(w) /\ held[w].id = i
  BY DEF vars
<1> USE DEF IInv, TypeOK
<1>1. ASSUME NEW t \in Tasks, Submit(t) PROVE FALSE
  <2>1. \A k \in DOMAIN jobs : jobs[k].task # t
    BY <1>1 DEF Submit, HeldJobsAreRows
  <2> QED BY <1>1, <2>1 DEF Submit, Enqueue
<1>2. ASSUME NEW w \in Runners, ClaimJob(w) PROVE FALSE
  <2>1. i \notin FirstDue(seen[w])
    BY <1>2 DEF HeldJobsAreRows, FirstDue, Due, ReadingsArePast, Job
  <2> QED BY <1>2, <2>1 DEF ClaimJob
<1>3. ASSUME NEW w \in Runners, FinishJob(w) PROVE FALSE
  BY <1>3 DEF FinishJob, DeleteJob
<1>4. ASSUME NEW w \in Runners, RetryJob(w)
      PROVE pc[w] = "releasing" /\ Leased(w) /\ held[w].id = i
  BY <1>4 DEF RetryJob, ReleaseJob, ReadingsArePast, Leased, Holding
<1>5. ASSUME NEW p \in Processes, ReapExpiredLeases(p) PROVE FALSE
  BY <1>5 DEF ReapExpiredLeases, FreeExpired, ReadingsArePast, Job
<1>6. CASE jobs' = jobs
  BY <1>6
<1> QED
  BY <1>1, <1>2, <1>3, <1>4, <1>5, <1>6
     DEF Next, Step, RunnerStep, RunnerFault, ProcessStep, BeginClaim, NothingDue, LoadTask,
         RunReturns, ClaimFails, LoadFails, SettleFails, Panic, WakeReaper, Crash, Restart, Tick

\* A valid lease is taken from a row by nothing but its own runner's retry.
THEOREM RunningLeaseIsKept == Spec => RunningLeaseKept
  BY IInvHolds, RunningLeaseStep, PTL DEF Spec, RunningLeaseKept
=============================================================================
