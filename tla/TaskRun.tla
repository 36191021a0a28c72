------------------------------ MODULE TaskRun -------------------------------
(***************************************************************************)
(* One task, as Engine::run_task of gitai-pipeline drives it: plan, rounds *)
(* of attempts, reviews, arbiter, delivery and branch pruning, against the *)
(* task's row in the store and the repository on the forge, while a        *)
(* webhook may stop the task and the process may die and run it again.     *)
(*                                                                         *)
(* Runs are numbered; run r + 1 is what a later claim of the job starts.   *)
(* Each run works on its own in-memory copy of the task row and writes     *)
(* the whole copy back, which is what makes concurrent writers lose        *)
(* updates.  What happens inside an attempt is summed up by its outcome.   *)
(***************************************************************************)
EXTENDS Integers, FiniteSets

CONSTANTS
  Attempts,     \* budget.attempts_per_round
  MaxRounds,    \* budget.max_rounds
  MaxSpend,     \* the ceiling on tokens (one unit per model call or attempt)
  MaxRank,      \* ranks 0..MaxRank a reviewed attempt can get
  Parallel,     \* budget.parallel
  HasForge,     \* FALSE for a run on a local checkout
  Prunes,       \* delete_rejected_branches of the forge
  Overlap,      \* TRUE: a lease may run out while its run is alive
  MaxRuns,      \* bound: how often the job is claimed
  MaxCrashes,   \* bound: runs that die
  MaxFaults,    \* bound: failing store and forge calls, lost saves, panics
  MaxStops,     \* bound: /stop commands
  None

ASSUME CountAssumption ==
  /\ Attempts \in Nat /\ MaxRounds \in Nat /\ MaxSpend \in Nat /\ MaxRank \in Nat
  /\ MaxRuns \in Nat /\ MaxCrashes \in Nat /\ MaxFaults \in Nat /\ MaxStops \in Nat
ASSUME SwitchAssumption ==
  Parallel \in BOOLEAN /\ HasForge \in BOOLEAN /\ Prunes \in BOOLEAN /\ Overlap \in BOOLEAN
ASSUME NoneAssumption == None \notin Nat

Runs == 1..MaxRuns
Indexes == 0..(Attempts - 1)

\* gitai/issue-N/rR-aA: a branch name says the round and the index only.
Branches == [round: 0..(MaxRounds - 1), index: Indexes]

\* An attempt is one run's work on one branch; it stands for the patch as well.
AttemptIds == [run: Runs, branch: Branches]

States == {"queued", "planning", "working", "reviewing",
           "awaiting_human", "done", "failed", "cancelled"}
Terminal == {"awaiting_human", "done", "failed", "cancelled"}

\* How an attempt leaves run_attempt.  gate_passed() looks at the last gate report
\* only, so it holds for the attempts the editor kept refusing ("vetoed") and for those
\* that errored after a passing gate ("unpushed") as well as for the pushed ones.
Outcomes == {"pushed", "vetoed", "unpushed", "failed", "panicked"}
GatePassing == {"pushed", "vetoed", "unpushed"}

VARIABLES
  row,      \* the task's row in the store
  job,      \* TRUE while the task has a row in the queue
  saved,    \* attempt rows in the store whose gate report passed
  remote,   \* the forge's branches: name -> attempt whose patch it carries
  prs,      \* open pull requests: head branch and the attempt shown when it was opened
  pc,       \* run -> where it is
  mem,      \* run -> its copy of the task
  work,     \* run -> index -> outcome of the attempt in this round
  rank,     \* run -> index -> rank after the review
  winner,   \* run -> index of the approved attempt
  stopper,  \* the copy of the row a /stop handler has read
  stops,    \* history: stops written to the row
  rowLost,  \* history: the write of a failure to the row has failed
  warned,   \* history: branches whose save or deletion failed, or whose run died
  rounds,   \* history: rounds begun, over all runs
  spent,    \* history: what the calls and attempts of all runs have cost
  shared,   \* history: a run has begun beside a live one
  faults    \* history

storeVars == <<row, job, saved>>
forgeVars == <<remote, prs>>
runVars   == <<pc, mem, work, rank, winner>>
tally     == <<rounds, spent, shared>>
history   == <<tally, rowLost, warned, faults>>
vars == <<storeVars, forgeVars, runVars, stopper, stops, history>>

Task == [state: States, round: 0..MaxRounds, planned: BOOLEAN, spend: Nat,
         pr: AttemptIds \cup {None}]

BranchOf(r, i) == [round |-> mem[r].round, index |-> i]
IdOf(r, i) == [run |-> r, branch |-> BranchOf(r, i)]

Passed(r) == {i \in Indexes : work[r][i] \in GatePassing}
Returned(r) == {i \in Indexes : work[r][i] # "panicked"}
Reviewed(r) == {i \in Passed(r) : rank[r][i] # None}

\* The first after sorting by index and then, stably, by falling rank.
Best(r) ==
  CHOOSE i \in Reviewed(r) : \A k \in Reviewed(r) :
    rank[r][i] > rank[r][k] \/ (rank[r][i] = rank[r][k] /\ i <= k)

NoWork == [i \in Indexes |-> "pending"]
NoRank == [i \in Indexes |-> None]

DeadRuns == Cardinality({r \in Runs : pc[r] = "dead"})

Faults(n) == faults + n <= MaxFaults /\ faults' = faults + n
Goto(r, to) == pc' = [pc EXCEPT ![r] = to]
\* update_task: the whole copy goes into the row.
Save(task) == row' = task

\* `update_task(task).await?`: the write may fail, and then drive returns the error.
WriteOrFail(r, to) ==
  \/ Save(mem'[r]) /\ Goto(r, to) /\ UNCHANGED faults
  \/ UNCHANGED row /\ Faults(1) /\ Goto(r, "failing")

\* save_attempt on each of them: an error is ignored and loses that save.
SaveAttempts(ids) ==
  \E lost \in SUBSET ids :
    /\ Faults(Cardinality(lost))
    /\ saved' = saved \cup (ids \ lost)
    /\ warned' = warned \cup {a.branch : a \in lost \ saved}

-----------------------------------------------------------------------------
Init ==
  /\ row = [state |-> "queued", round |-> 0, planned |-> FALSE, spend |-> 0, pr |-> None]
  /\ job = TRUE
  /\ saved = {}
  /\ remote = [b \in Branches |-> None]
  /\ prs = {}
  /\ pc = [r \in Runs |-> "off"]
  /\ mem = [r \in Runs |-> row]
  /\ work = [r \in Runs |-> NoWork]
  /\ rank = [r \in Runs |-> NoRank]
  /\ winner = [r \in Runs |-> None]
  /\ stopper = None
  /\ stops = 0
  /\ rounds = 0
  /\ spent = 0
  /\ shared = FALSE
  /\ rowLost = FALSE
  /\ warned = {}
  /\ faults = 0

\* A runner has claimed the job: run_task loads the row.  The previous runs are dead,
\* or alive with an expired lease.
Start(r) ==
  /\ pc[r] = "off"
  /\ job
  /\ \A q \in Runs : q < r => pc[q] = "dead" \/ (Overlap /\ pc[q] # "off")
  /\ mem' = [mem EXCEPT ![r] = row]
  /\ Goto(r, IF row.planned THEN "round" ELSE "planning")
  /\ shared' = (shared \/ \E q \in Runs : q < r /\ pc[q] # "dead")
  /\ UNCHANGED <<storeVars, forgeVars, work, rank, winner, stopper, stops,
                 rounds, spent, rowLost, warned, faults>>

\* set_state(Planning), which writes only if the copy is in another state.
BeginPlanning(r) ==
  /\ pc[r] = "planning"
  /\ mem' = [mem EXCEPT ![r].state = "planning"]
  /\ IF mem[r].state = "planning"
     THEN Goto(r, "plan") /\ UNCHANGED <<row, faults>>
     ELSE WriteOrFail(r, "plan")
  /\ UNCHANGED <<job, saved, forgeVars, work, rank, winner, stopper, stops, tally, rowLost, warned>>

\* The planner answers; the spec and what it cost are written.
Plan(r) ==
  /\ pc[r] = "plan"
  /\ mem' = [mem EXCEPT ![r].planned = TRUE, ![r].spend = @ + 1]
  /\ spent' = spent + 1
  /\ WriteOrFail(r, "round")
  /\ UNCHANGED <<job, saved, forgeVars, work, rank, winner, stopper, stops, rounds, shared,
                 rowLost, warned>>

\* Mutant of EnterRound: the budget check is gone.
EnterRoundUnchecked(r) ==
  /\ pc[r] = "round"
  /\ mem[r].round < MaxRounds
  /\ row.state # "cancelled"
  /\ Goto(r, "begin")
  /\ UNCHANGED <<storeVars, forgeVars, mem, work, rank, winner, stopper, stops, history>>

\* The top of the round loop: read the row for a cancellation, check the budget.
EnterRound(r) ==
  /\ pc[r] = "round"
  /\ mem[r].round < MaxRounds
  /\ row.state # "cancelled"
  /\ mem[r].spend <= MaxSpend
  /\ Goto(r, "begin")
  /\ UNCHANGED <<storeVars, forgeVars, mem, work, rank, winner, stopper, stops, history>>

\* Mutant of NoticeCancellation: it returns before pruning.
NoticeCancellationOnly(r) ==
  /\ pc[r] = "round"
  /\ mem[r].round < MaxRounds
  /\ row.state = "cancelled"
  /\ mem' = [mem EXCEPT ![r].state = "cancelled"]
  /\ Goto(r, "over")
  /\ UNCHANGED <<storeVars, forgeVars, work, rank, winner, stopper, stops, history>>

NoticeCancellation(r) ==
  /\ pc[r] = "round"
  /\ mem[r].round < MaxRounds
  /\ row.state = "cancelled"
  /\ mem' = [mem EXCEPT ![r].state = "cancelled"]
  /\ Goto(r, "prune")
  /\ UNCHANGED <<storeVars, forgeVars, work, rank, winner, stopper, stops, history>>

\* Out of rounds, tokens, money or time. The clock starts with the run, and may have run out
\* at the top of any round.
ExhaustBudget(r) ==
  /\ pc[r] = "round"
  /\ mem[r].round >= MaxRounds \/ row.state # "cancelled"
  /\ Goto(r, "failing")
  /\ UNCHANGED <<storeVars, forgeVars, mem, work, rank, winner, stopper, stops, history>>

\* set_state(Working), which writes only if the copy is in another state; then run_round
\* starts the attempts.
BeginRound(r) ==
  /\ pc[r] = "begin"
  /\ mem' = [mem EXCEPT ![r].state = "working"]
  /\ IF mem[r].state = "working"
     THEN Goto(r, "attempts") /\ UNCHANGED <<row, faults>>
     ELSE WriteOrFail(r, "attempts")
  /\ work' = [work EXCEPT ![r] = NoWork]
  /\ rank' = [rank EXCEPT ![r] = NoRank]
  /\ rounds' = IF pc'[r] = "attempts" THEN rounds + 1 ELSE rounds
  /\ UNCHANGED <<job, saved, forgeVars, winner, stopper, stops, spent, shared, rowLost, warned>>

\* run_attempt ends: only one whose state is GatePassed is committed and pushed
\* (--force).  A push that reports an error may have reached the remote.
EndAttempt(r, i, outcome) ==
  /\ pc[r] = "attempts"
  /\ work[r][i] = "pending"
  /\ Parallel \/ \A k \in Indexes : k < i => work[r][k] # "pending"
  /\ outcome = "panicked" => Parallel
  /\ IF outcome = "panicked" THEN Faults(1) ELSE UNCHANGED faults
  /\ work' = [work EXCEPT ![r][i] = outcome]
  /\ spent' = spent + 1
  /\ \/ outcome \in {"pushed", "unpushed"}
        /\ remote' = [remote EXCEPT ![BranchOf(r, i)] = IdOf(r, i)]
     \/ outcome # "pushed" /\ UNCHANGED remote
  /\ UNCHANGED <<storeVars, prs, pc, mem, rank, winner, stopper, stops, rounds, shared, rowLost,
                 warned>>

\* Mutant of CloseRound: the round is not counted.
CloseRoundUncounted(r) ==
  /\ mem' = mem
  /\ WriteOrFail(r, "round")
  /\ UNCHANGED <<job, saved, forgeVars, work, rank, winner, stopper, stops, tally, rowLost, warned>>

\* `task.round += 1` and the row is written; the loop goes on.
CloseRound(r) ==
  /\ mem' = [mem EXCEPT ![r].round = @ + 1]
  /\ WriteOrFail(r, "round")
  /\ UNCHANGED <<job, saved, forgeVars, work, rank, winner, stopper, stops, tally, rowLost, warned>>

\* All attempts are in: their cost is added and each is saved, errors ignored.
CollectRound(r) ==
  /\ pc[r] = "attempts"
  /\ \A i \in Indexes : work[r][i] # "pending"
  /\ mem' = [mem EXCEPT ![r].spend = @ + Cardinality(Returned(r))]
  /\ SaveAttempts({IdOf(r, i) : i \in Passed(r)})
  /\ Goto(r, "collected")
  /\ UNCHANGED <<row, job, forgeVars, work, rank, winner, stopper, stops, tally, rowLost>>

\* Nothing cleared the gate: the next round gets the failures as feedback.
RoundWithoutSurvivor(r) ==
  /\ pc[r] = "collected"
  /\ Passed(r) = {}
  /\ CloseRound(r)

\* set_state(Reviewing), then one review per survivor.
BeginReviews(r) ==
  /\ pc[r] = "collected"
  /\ Passed(r) # {}
  /\ mem' = [mem EXCEPT ![r].state = "reviewing"]
  /\ WriteOrFail(r, "reviews")
  /\ UNCHANGED <<job, saved, forgeVars, work, rank, winner, stopper, stops, tally, rowLost, warned>>

\* A reviewer grades one survivor.  A failing review counts as a rejection of rank 0
\* that costs nothing; the attempt is saved again with its verdict.
Review(r, i, grade) ==
  /\ pc[r] = "reviews"
  /\ i \in Passed(r)
  /\ rank[r][i] = None
  /\ Parallel \/ \A k \in Passed(r) : k < i => rank[r][k] # None
  /\ rank' = [rank EXCEPT ![r][i] = grade]
  /\ \E cost \in {0, 1} :
       /\ cost = 0 => grade = 0
       /\ mem' = [mem EXCEPT ![r].spend = @ + cost]
       /\ spent' = spent + cost
  /\ SaveAttempts({IdOf(r, i)})
  /\ UNCHANGED <<row, job, forgeVars, pc, work, winner, stopper, stops, rounds, shared, rowLost>>

\* The review's task panics: the attempt drops out of the round, and what the review has cost
\* is not counted.
LoseReview(r, i) ==
  /\ pc[r] = "reviews"
  /\ Parallel
  /\ i \in Passed(r)
  /\ rank[r][i] = None
  /\ Faults(1)
  /\ work' = [work EXCEPT ![r][i] = "panicked"]
  /\ spent' \in {spent, spent + 1}
  /\ UNCHANGED <<storeVars, forgeVars, pc, mem, rank, winner, stopper, stops, rounds, shared,
                 rowLost, warned>>

ReviewsAreIn(r) == pc[r] = "reviews" /\ \A i \in Passed(r) : rank[r][i] # None

RoundWithoutReview(r) ==
  /\ ReviewsAreIn(r)
  /\ Reviewed(r) = {}
  /\ CloseRound(r)

\* The arbiter sees the best attempt and approves it: it is saved as selected.
Approve(r) ==
  /\ ReviewsAreIn(r)
  /\ Reviewed(r) # {}
  /\ winner' = [winner EXCEPT ![r] = Best(r)]
  /\ mem' = [mem EXCEPT ![r].spend = @ + 1]
  /\ spent' = spent + 1
  /\ SaveAttempts({IdOf(r, Best(r))})
  /\ Goto(r, IF HasForge THEN "deliver" ELSE "record")
  /\ UNCHANGED <<row, job, forgeVars, work, rank, stopper, stops, rounds, shared, rowLost>>

\* The arbiter sends the round back: the reviewed attempts are saved as rejected.
SendBack(r) ==
  /\ ReviewsAreIn(r)
  /\ Reviewed(r) # {}
  /\ SaveAttempts({IdOf(r, i) : i \in Reviewed(r)})
  /\ mem' = [mem EXCEPT ![r].spend = @ + 1]
  /\ spent' = spent + 1
  /\ Goto(r, "sentback")
  /\ UNCHANGED <<row, job, forgeVars, work, rank, winner, stopper, stops, rounds, shared, rowLost>>

RoundSentBack(r) == pc[r] = "sentback" /\ CloseRound(r)

-----------------------------------------------------------------------------
(* Delivery *)

\* Mutant of Head: the branch of the first survivor, not of the best one.
HeadOfFirst(r) == BranchOf(r, CHOOSE i \in Passed(r) : \A k \in Passed(r) : i <= k)

Head(r) == BranchOf(r, winner[r])

\* Mutant of Acceptable: the pull request is opened whether or not the push went through.
AcceptableAnyway(head) == ~ \E p \in prs : p.head = head

\* The forge refuses a pull request for a branch it does not have, and a second
\* open one for the same branch.
Acceptable(head) == remote[head] # None /\ ~ \E p \in prs : p.head = head

OpenPullRequest(r) ==
  /\ pc[r] = "deliver"
  /\ Acceptable(Head(r))
  /\ prs' = prs \cup {[head |-> Head(r), shown |-> remote[Head(r)]]}
  /\ mem' = [mem EXCEPT ![r].pr = IdOf(r, winner[r])]
  /\ Goto(r, "record")
  /\ UNCHANGED <<storeVars, remote, work, rank, winner, stopper, stops, history>>

\* The forge says no: deliver returns the error.
RefusePullRequest(r) ==
  /\ pc[r] = "deliver"
  /\ ~ Acceptable(Head(r))
  /\ Goto(r, "failing")
  /\ UNCHANGED <<storeVars, forgeVars, mem, work, rank, winner, stopper, stops, history>>

\* The request is carried out but its answer is lost on the way.
LoseAnswer(r) ==
  /\ pc[r] = "deliver"
  /\ Acceptable(Head(r))
  /\ Faults(1)
  /\ prs' = prs \cup {[head |-> Head(r), shown |-> remote[Head(r)]]}
  /\ Goto(r, "failing")
  /\ UNCHANGED <<storeVars, remote, mem, work, rank, winner, stopper, stops, tally, rowLost,
                 warned>>

\* Mutant of RecordDelivery: the loop goes on after the delivery.
RecordDeliveryAndGoOn(r) ==
  /\ pc[r] = "record"
  /\ mem' = [mem EXCEPT ![r].state = "awaiting_human", ![r].round = @ + 1]
  /\ Save(mem'[r])
  /\ Goto(r, "round")
  /\ UNCHANGED <<job, saved, forgeVars, work, rank, winner, stopper, stops, history>>

\* awaiting_human and the pull request go into the row.
RecordDelivery(r) ==
  /\ pc[r] = "record"
  /\ mem' = [mem EXCEPT ![r].state = "awaiting_human"]
  /\ WriteOrFail(r, "prune")
  /\ UNCHANGED <<job, saved, forgeVars, work, rank, winner, stopper, stops, tally, rowLost, warned>>

\* The other `?` in drive: the forge cannot be asked, the planner, the read of the row,
\* or the arbiter fails.
Err(r) ==
  /\ pc[r] \in {"planning", "plan", "round", "deliver"} \/ (ReviewsAreIn(r) /\ Reviewed(r) # {})
  /\ Faults(1)
  /\ Goto(r, "failing")
  /\ UNCHANGED <<storeVars, forgeVars, mem, work, rank, winner, stopper, stops, tally, rowLost,
                 warned>>

\* Mutant of RecordFailure: the failure is not written.
RecordFailureInMemory(r) ==
  /\ pc[r] = "failing"
  /\ mem' = [mem EXCEPT ![r].state = "failed"]
  /\ Goto(r, "prune")
  /\ UNCHANGED <<storeVars, forgeVars, work, rank, winner, stopper, stops, history>>

\* run_task records the failure; that this write fails too is ignored.
RecordFailure(r) ==
  /\ pc[r] = "failing"
  /\ mem' = [mem EXCEPT ![r].state = "failed"]
  /\ \/ Save(mem'[r]) /\ UNCHANGED <<faults, rowLost>>
     \/ UNCHANGED row /\ Faults(1) /\ rowLost' = TRUE
  /\ Goto(r, "prune")
  /\ UNCHANGED <<job, saved, forgeVars, work, rank, winner, stopper, stops, tally, warned>>

\* Mutant of Kept: nothing is spared.
KeptNothing(r) == {}

Kept(r) == IF mem[r].state = "awaiting_human" THEN {Head(r)} ELSE {}

\* prune_branches returns at once for a local run and for a forge that keeps branches.
MayPrune == HasForge /\ Prunes

\* prune_branches: delete the branch of every saved attempt that passed the gate, except
\* the delivered one.  The attempts may be unreadable, and each deletion may fail: both only
\* warn.  A pull request whose head is deleted is closed by the forge.
PruneBranches(r) ==
  /\ pc[r] = "prune"
  /\ LET rejected == {a.branch : a \in saved} \ Kept(r) IN
     IF MayPrune
     THEN \E failed \in SUBSET rejected :
            /\ Faults(Cardinality(failed)) \/ (failed = rejected /\ Faults(1))
            /\ remote' = [b \in Branches |->
                            IF b \in rejected \ failed THEN None ELSE remote[b]]
            /\ warned' = warned \cup failed
            /\ prs' = {p \in prs : remote'[p.head] # None}
     ELSE UNCHANGED <<remote, prs, warned, faults>>
  /\ Goto(r, "over")
  /\ UNCHANGED <<storeVars, mem, work, rank, winner, stopper, stops, tally, rowLost>>

\* Mutant of FinishJob: the row stays in the queue.
FinishJobKeepingIt(r) ==
  /\ pc[r] = "over"
  /\ Goto(r, "ended")
  /\ UNCHANGED <<storeVars, forgeVars, mem, work, rank, winner, stopper, stops, history>>

\* run_task has returned Ok: the runner deletes the job.
FinishJob(r) ==
  /\ pc[r] = "over"
  /\ job' = FALSE
  /\ Goto(r, "ended")
  /\ UNCHANGED <<row, saved, forgeVars, mem, work, rank, winner, stopper, stops, history>>

\* The process dies, or finish_job fails: the job is claimed again when the lease is over.
Crash(r) ==
  /\ pc[r] \notin {"off", "ended", "dead"}
  /\ DeadRuns < MaxCrashes
  /\ Goto(r, "dead")
  /\ warned' = warned \cup {b \in Branches : remote[b] # None /\ remote[b] \notin saved}
  /\ UNCHANGED <<storeVars, forgeVars, mem, work, rank, winner, stopper, stops, tally, rowLost,
                 faults>>

-----------------------------------------------------------------------------
(* /stop, in the webhook handler *)

\* find_open_task_for_issue; a task that awaits a human counts as open.
ReadForStop ==
  /\ stopper = None
  /\ stops < MaxStops
  /\ row.state \notin {"done", "failed", "cancelled"}
  /\ stopper' = row
  /\ UNCHANGED <<storeVars, forgeVars, runVars, stops, history>>

\* update_task with the copy that was read: everything written since is undone.
WriteStop ==
  /\ stopper # None
  /\ Save([stopper EXCEPT !.state = "cancelled"])
  /\ stopper' = None
  /\ stops' = stops + 1
  /\ UNCHANGED <<job, saved, forgeVars, runVars, history>>

-----------------------------------------------------------------------------
RunStep(r) ==
  \/ Start(r) \/ BeginPlanning(r) \/ Plan(r)
  \/ EnterRound(r) \/ NoticeCancellation(r) \/ ExhaustBudget(r)
  \/ BeginRound(r) \/ CollectRound(r) \/ RoundWithoutSurvivor(r) \/ BeginReviews(r)
  \/ \E i \in Indexes :
       \/ \E outcome \in Outcomes : EndAttempt(r, i, outcome)
       \/ \E grade \in 0..MaxRank : Review(r, i, grade)
  \/ RoundWithoutReview(r) \/ Approve(r) \/ SendBack(r) \/ RoundSentBack(r)
  \/ OpenPullRequest(r) \/ RefusePullRequest(r) \/ RecordDelivery(r)
  \/ RecordFailure(r) \/ PruneBranches(r) \/ FinishJob(r)

RunFault(r) ==
  \/ \E i \in Indexes : LoseReview(r, i)
  \/ LoseAnswer(r) \/ Err(r) \/ Crash(r)

Next ==
  \/ \E r \in Runs : RunStep(r) \/ RunFault(r)
  \/ ReadForStop \/ WriteStop

Spec == Init /\ [][Next]_vars

\* A run goes on: every call it waits for has a timeout.  A job left behind is claimed
\* again (JobQueue), and a handler that has read the row writes it.
Fairness ==
  /\ \A r \in Runs : WF_vars(RunStep(r))
  /\ WF_vars(WriteStop)

FairSpec == Spec /\ Fairness

-----------------------------------------------------------------------------
(* Properties *)

\* Rows, copies and branches keep their shapes.
TypeOK ==
  /\ row \in Task
  /\ job \in BOOLEAN
  /\ saved \subseteq AttemptIds
  /\ remote \in [Branches -> AttemptIds \cup {None}]
  /\ prs \subseteq [head: Branches, shown: AttemptIds]
  /\ mem \in [Runs -> Task]
  /\ work \in [Runs -> [Indexes -> Outcomes \cup {"pending"}]]
  /\ rank \in [Runs -> [Indexes -> (0..MaxRank) \cup {None}]]
  /\ winner \in [Runs -> Indexes \cup {None}]
  /\ stopper \in Task \cup {None}
  /\ warned \subseteq Branches
  /\ rowLost \in BOOLEAN /\ shared \in BOOLEAN
  /\ {stops, rounds, spent, faults} \subseteq Nat

\* Once a task's job has left the queue nothing will look at the task again, so its row
\* must say how it ended, or it would count as "already running" for ever.
SettledWhenJobIsGone ==
  ~ job /\ ~ rowLost => row.state \in Terminal

\* "Once the task ends, either way, the branches that were not selected are deleted":
\* what is left on the forge after a run is the delivered branch, or was warned about.
NoBranchLeaks ==
  \A r \in Runs :
    /\ pc[r] \in {"over", "ended"}
    /\ \A q \in Runs : q > r => pc[q] = "off"
    /\ MayPrune
    => \A b \in Branches : remote[b] # None => b \in Kept(r) \cup warned

\* The pull request a finished task points a human at is open and its branch exists:
\* neither pruning nor a later run has closed it behind the row's back.
RecordedPullRequestIsOpen ==
  row.state = "awaiting_human" /\ row.pr # None /\ ~ rowLost =>
    /\ remote[row.pr.branch] # None
    /\ \E p \in prs : p.head = row.pr.branch

\* The patch a pull request is opened with is the one the arbiter approved, provided its
\* push succeeded: branch names are shared by all runs of a task, contents are not.
ApprovedPatchIsShown ==
  \A r \in Runs :
    pc[r] = "record" /\ HasForge /\ work[r][winner[r]] = "pushed" =>
      \E p \in prs : p.head = Head(r) /\ p.shown = IdOf(r, winner[r])

\* A crash repeats the round it interrupts and no other: over all runs of the task, no more
\* rounds begin than the budget allows plus one for each crash.  A stop that is overwritten
\* may take an older round number back to the row, and a run that has outlived its lease
\* works on the same rounds as its successor.
RoundsBounded == stops = 0 /\ ~ Overlap => rounds <= MaxRounds + DeadRuns

\* The budget is checked at the top of a round only, against the spend of the run's own copy:
\* one run overshoots it by the cost of a round of attempts, reviews and an arbiter at most.
\* Over all runs of the task, a crash forgets what was spent since the row was written last, and
\* a panic what it interrupted. But runs that share the task do not see each other's spend, nor
\* does a run see what a stop took out of the row: each may spend a whole budget.
Ceiling == MaxSpend + 2 * Attempts + 1
RunsBegun == Cardinality({r \in Runs : pc[r] # "off"})
OvershootBounded ==
  /\ spent <= RunsBegun * Ceiling + faults
  /\ stops = 0 /\ ~ shared => spent <= Ceiling + DeadRuns * (Attempts + 1) + faults

\* A run opens at most one pull request: more than one can only come from a run that
\* died, or outlived its lease, before it recorded what it had opened.
PullRequestsBounded == Cardinality(prs) <= RunsBegun

\* Every job is worked off: whatever fails on the way, some run of it returns, as long
\* as the queue hands the job out more often than runs die.
JobIsWorkedOff == <>[](~ job)

\* A delivered patch that was pushed is on the branch the task names, while and after the
\* branches of the other attempts are removed, and until another run of the task begins.
DeliveredPatchStays ==
  \A r \in Runs :
    /\ mem[r].state = "awaiting_human"
    /\ winner[r] # None /\ work[r][winner[r]] = "pushed"
    /\ \A q \in Runs : q > r => pc[q] = "off"
    => remote[Head(r)] = IdOf(r, winner[r])

\* What the issue's reader sees of a task that nobody stops and that is run once; the run may die.
Lifecycle ==
  INSTANCE TaskLifecycle WITH
    Patches <- AttemptIds,
    phase <- CASE row.state = "awaiting_human" -> "delivered"
               [] row.state = "failed" -> "failed"
               [] OTHER -> "open",
    offered <- IF row.state = "awaiting_human" THEN row.pr ELSE None,
    published <- {remote[b] : b \in Branches} \ {None}

\* A run implements the contract of TaskLifecycle.
ImplementsLifecycle == Lifecycle!Spec
=============================================================================
