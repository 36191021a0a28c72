--------------------------- MODULE TaskRunProofs ----------------------------
(***************************************************************************)
(* Proofs about TaskRun, for any number of runs, attempts, rounds, faults, *)
(* crashes and stops.  Where a lease must not run out under a live run the *)
(* theorem says so (~ Overlap).                                            *)
(***************************************************************************)
EXTENDS TaskRun, FiniteSetTheorems, TLAPS

Phases == {"off", "planning", "plan", "round", "begin", "attempts", "collected", "reviews",
           "sentback", "deliver", "record", "failing", "prune", "over", "ended", "dead"}

\* A run whose round has been entered, and one whose round has begun.
Entered == {"begin", "attempts", "collected", "reviews", "sentback", "deliver", "record"}
Underway == Entered \ {"begin"}

\* The types, and why the counters stay in their ranges: a round is only entered when there is
\* one left, and only a reviewed attempt is delivered.
TypeInv ==
  /\ TypeOK
  /\ pc \in [Runs -> Phases]
  /\ \A r \in Runs : pc[r] \in Entered => mem[r].round < MaxRounds
  /\ \A r \in Runs : pc[r] \in {"deliver", "record"} => winner[r] \in Indexes
  /\ \A r \in Runs : pc[r] = "deliver" => HasForge

\* While leases are long enough a run starts when the one before it is dead.
OneAtATime == \A q, r \in Runs : q < r /\ pc[r] # "off" => pc[q] = "dead"

\* Where a run has its outcome from, and what the row says by then.
Settling ==
  /\ ~ job => \E r \in Runs : pc[r] = "ended"
  /\ \A r \in Runs : pc[r] \in {"prune", "over", "ended"} => rowLost \/ row.state \in Terminal

\* What a task may have cost, and a round still costs.
Sound(task) ==
  /\ ~ task.planned => task.spend = 0
  /\ task.spend <= MaxSpend + 2 * Attempts + 1
Graded(r) == {i \in Indexes : rank[r][i] # None}
Spending ==
  /\ Sound(row) /\ (stopper # None => Sound(stopper))
  /\ \A r \in Runs :
       /\ Sound(mem[r])
       /\ pc[r] \in {"begin", "attempts"} => mem[r].spend <= MaxSpend
       /\ pc[r] \in {"planning", "plan"} => ~ mem[r].planned
       /\ pc[r] \in Entered \cup {"round"} => mem[r].planned
       /\ pc[r] \in {"attempts", "collected"} => Graded(r) = {}
       /\ pc[r] \in {"collected", "reviews"} =>
            mem[r].spend <= MaxSpend + Attempts + Cardinality(Graded(r))

\* Runs that are past the one pull request they may open.
Past == {r \in Runs : pc[r] \in {"record", "failing", "prune", "over", "ended", "dead"}}
PullRequestsPast == IsFiniteSet(prs) /\ Cardinality(prs) <= Cardinality(Past)
-----------------------------------------------------------------------------
(* Lemmas about the operators *)

\* The indexes of a round are finitely many.
LEMMA IndexSets ==
  ASSUME NEW S, S \subseteq Indexes
  PROVE  IsFiniteSet(S) /\ Cardinality(S) \in Nat /\ Cardinality(S) <= Attempts
<1>1. IsFiniteSet(Indexes) /\ Cardinality(Indexes) = Attempts
  <2>1. Attempts \in Nat /\ 0 \in Int /\ Attempts - 1 \in Int
    BY CountAssumption
  <2>2. IsFiniteSet(0 .. (Attempts - 1))
        /\ Cardinality(0 .. (Attempts - 1)) = IF 0 > Attempts - 1 THEN 0 ELSE (Attempts - 1) - 0 + 1
    BY <2>1, FS_Interval
  <2> QED BY <2>1, <2>2 DEF Indexes
<1>2. IsFiniteSet(S) /\ Cardinality(S) <= Cardinality(Indexes)
  BY <1>1, FS_Subset
<1> QED BY <1>1, <1>2, FS_CardinalityType

\* Numbers have a least one among them.
LEMMA HasLeast ==
  ASSUME NEW M, M \subseteq Nat, M # {}
  PROVE  \E k \in M : \A m \in M : k <= m
<1> DEFINE Below(k) == {m \in M : m < k}
           Cuts == {Below(k) : k \in M}
<1>0. \A m \in M : m \in Nat
  OBVIOUS
<1>1. \A k \in M : Below(k) \in FiniteSubsetsOf(M)
  <2> SUFFICES ASSUME NEW k \in M PROVE IsFiniteSet(Below(k))
    BY DEF FiniteSubsetsOf
  <2>1. IsFiniteSet(0 .. k)
    BY FS_Interval
  <2>2. \A m \in Below(k) : m \in 0 .. k
    <3> SUFFICES ASSUME NEW m \in M, m < k PROVE m \in 0 .. k
      OBVIOUS
    <3> QED BY <1>0
  <2> QED BY <2>1, <2>2, FS_Subset
<1>2. Cuts \subseteq FiniteSubsetsOf(M) /\ Cuts # {}
  BY <1>1
<1>3. PICK T \in Cuts : \A U \in Cuts : ~ (<<U, T>> \in StrictSubsetOrdering(M))
  <2> HIDE DEF Cuts
  <2>1. IsWellFoundedOn(StrictSubsetOrdering(M), FiniteSubsetsOf(M))
    BY FS_StrictSubsetOrderingWellFounded
  <2> QED BY <2>1, <1>2, WFMin
<1>4. PICK k \in M : T = Below(k)
  BY <1>3
<1>5. ASSUME NEW m \in M PROVE k <= m
  <2> SUFFICES ASSUME m < k PROVE FALSE
    BY <1>5
  <2>1. Below(m) \subseteq Below(k) /\ m \in Below(k) /\ m \notin Below(m)
    <3>1. m \in Nat /\ k \in Nat /\ ~ (m < m)
      BY <1>0
    <3>2. \A n \in M : n < m => n < k
      <4> SUFFICES ASSUME NEW n \in M, n < m PROVE n < k
        OBVIOUS
      <4>1. n \in Nat
        BY <1>0
      <4> QED BY <4>1, <3>1
    <3> QED BY <3>1, <3>2
  <2>2. Below(m) \in Cuts /\ Below(m) \in SUBSET M /\ Below(k) \in SUBSET M
    OBVIOUS
  <2>3. <<Below(m), Below(k)>> \in StrictSubsetOrdering(M)
    BY <2>1, <2>2 DEF StrictSubsetOrdering
  <2> QED BY <2>2, <2>3, <1>3, <1>4
<1> QED BY <1>5

\* The attempt that goes to the arbiter is one of the reviewed ones: the least in the order in
\* which the code sorts them.
LEMMA BestIsReviewed ==
  ASSUME TypeOK, NEW r \in Runs, Reviewed(r) # {}
  PROVE  Best(r) \in Reviewed(r) /\ Best(r) \in Indexes
<1> DEFINE Place(i) == (MaxRank - rank[r][i]) * (Attempts + 1) + i
           Places == {Place(i) : i \in Reviewed(r)}
<1>1. \A i \in Reviewed(r) : i \in Indexes /\ rank[r][i] \in 0 .. MaxRank
  BY DEF TypeOK, Reviewed, Passed
<1>2. \A i \in Indexes : i \in Nat /\ i < Attempts
  BY CountAssumption DEF Indexes
<1>3. \A i \in Reviewed(r) : Place(i) \in Nat
  <2> SUFFICES ASSUME NEW i \in Reviewed(r) PROVE Place(i) \in Nat
    OBVIOUS
  <2>1. MaxRank - rank[r][i] \in Nat /\ Attempts + 1 \in Nat /\ i \in Nat
    BY <1>1, <1>2, CountAssumption
  <2>2. ASSUME NEW a \in Nat, NEW b \in Nat, NEW c \in Nat PROVE a * b + c \in Nat
    OBVIOUS
  <2> QED BY <2>1, <2>2
<1>4. PICK i \in Reviewed(r) : \A k \in Reviewed(r) : Place(i) <= Place(k)
  <2>1. Places \subseteq Nat /\ Places # {}
    BY <1>3
  <2> HIDE DEF Place
  <2>2. PICK p \in Places : \A q \in Places : p <= q
    BY <2>1, HasLeast
  <2> QED BY <2>2
<1>5. ASSUME NEW k \in Reviewed(r)
      PROVE  rank[r][i] > rank[r][k] \/ (rank[r][i] = rank[r][k] /\ i <= k)
  <2> DEFINE x == MaxRank - rank[r][i]
             y == MaxRank - rank[r][k]
  <2>1. x \in Nat /\ y \in Nat /\ i \in Nat /\ k \in Nat /\ k < Attempts /\ i < Attempts
        /\ rank[r][i] \in Nat /\ rank[r][k] \in Nat
    BY <1>1, <1>2, CountAssumption
  <2>2. x * (Attempts + 1) + i <= y * (Attempts + 1) + k
    BY <1>4
  <2>3. x <= y
    <3> SUFFICES ASSUME y < x PROVE FALSE
      BY <2>1
    <3>1. PICK d \in Nat : x = y + 1 + d
      <4>1. x - y - 1 \in Nat /\ x = y + 1 + (x - y - 1)
        BY <2>1
      <4> QED BY <4>1
    <3> HIDE DEF x, y
    <3>2. x * (Attempts + 1) = y * (Attempts + 1) + (Attempts + 1) + d * (Attempts + 1)
      BY <3>1, <2>1, CountAssumption
    <3>3. d * (Attempts + 1) \in Nat /\ y * (Attempts + 1) \in Nat
      BY <2>1, CountAssumption
    <3> QED BY <3>2, <3>3, <2>1, <2>2, CountAssumption
  <2>4. CASE x = y
    <3>1. i <= k
      <4> HIDE DEF x, y
      <4>1. y * (Attempts + 1) \in Nat
        BY <2>1, CountAssumption
      <4> QED BY <4>1, <2>4, <2>1, <2>2
    <3> QED BY <3>1, <2>4, <2>1, CountAssumption
  <2>5. CASE x < y
    BY <2>5, <2>1, CountAssumption
  <2> QED BY <2>1, <2>3, <2>4, <2>5
<1>6. Best(r) \in Reviewed(r)
  BY <1>5 DEF Best
<1> QED BY <1>1, <1>6

\* The branches of a task are finitely many.
LEMMA BranchesFinite == IsFiniteSet(Branches)
<1> DEFINE R == 0 .. (MaxRounds - 1)
           D == [b \in R \X Indexes |-> [round |-> b[1], index |-> b[2]]]
<1>1. IsFiniteSet(R)
  BY CountAssumption, FS_Interval
<1>2. IsFiniteSet(R \X Indexes)
  BY <1>1, IndexSets, FS_Product
<1>3. D \in Surjection(R \X Indexes, Branches)
  <2>1. \A b \in R \X Indexes : [round |-> b[1], index |-> b[2]] \in Branches
    BY DEF Branches
  <2>2. ASSUME NEW b \in Branches PROVE \E p \in R \X Indexes : D[p] = b
    <3>1. <<b.round, b.index>> \in R \X Indexes /\ b = [round |-> b.round, index |-> b.index]
      BY DEF Branches
    <3> QED BY <3>1
  <2> QED BY <2>1, <2>2 DEF Surjection
<1> HIDE DEF D, R
<1> QED BY <1>2, <1>3, FS_Surjection

-----------------------------------------------------------------------------
(* Types *)

\* The initial state has the types.
LEMMA TypeInit == Init => TypeInv
<1> SUFFICES ASSUME Init PROVE TypeInv
  OBVIOUS
<1> USE CountAssumption DEF Init
<1>1. row \in Task
  BY DEF Task, States
<1>2. NoWork \in [Indexes -> Outcomes \cup {"pending"}] /\ NoRank \in [Indexes -> 0 .. MaxRank \cup {None}]
  BY DEF NoWork, NoRank
<1>3. /\ mem \in [Runs -> Task]
      /\ work \in [Runs -> [Indexes -> Outcomes \cup {"pending"}]]
      /\ rank \in [Runs -> [Indexes -> 0 .. MaxRank \cup {None}]]
      /\ remote \in [Branches -> AttemptIds \cup {None}]
      /\ winner \in [Runs -> Indexes \cup {None}]
  BY <1>1, <1>2
<1>4. TypeOK
  <2>1. row \in Task /\ job \in BOOLEAN /\ stopper \in Task \cup {None} /\ rowLost \in BOOLEAN /\ shared \in BOOLEAN
    BY <1>1
  <2>2. saved = {} /\ prs = {} /\ warned = {} /\ {stops, rounds, spent, faults} \subseteq Nat
    OBVIOUS
  <2> QED BY <1>3, <2>1, <2>2 DEF TypeOK
<1>5. pc \in [Runs -> Phases]
  BY DEF Phases
<1> QED BY <1>4, <1>5 DEF TypeInv, Entered

\* The identity of an attempt of a round that has been entered.
LEMMA IdType ==
  ASSUME TypeInv, NEW r \in Runs, pc[r] \in Entered, NEW i \in Indexes
  PROVE  BranchOf(r, i) \in Branches /\ IdOf(r, i) \in AttemptIds
<1>1. mem[r].round \in 0 .. MaxRounds /\ mem[r].round < MaxRounds
  BY DEF TypeInv, TypeOK, Task
<1>2. mem[r].round \in 0 .. (MaxRounds - 1)
  BY <1>1, CountAssumption
<1> QED BY <1>2 DEF BranchOf, IdOf, Branches, AttemptIds

\* A write that may fail keeps the types of row and faults, and goes on to one of two phases.
LEMMA WriteType ==
  ASSUME TypeInv, NEW r \in Runs, NEW to \in Phases, mem'[r] \in Task, WriteOrFail(r, to)
  PROVE  /\ row' \in Task /\ faults' \in Nat
         /\ pc' = [pc EXCEPT ![r] = to] \/ pc' = [pc EXCEPT ![r] = "failing"]
  BY CountAssumption DEF TypeInv, TypeOK, WriteOrFail, Save, Goto, Faults

\* Saving attempts keeps the types.
LEMMA SaveType ==
  ASSUME TypeInv, NEW ids, ids \subseteq AttemptIds, IsFiniteSet(ids), SaveAttempts(ids)
  PROVE  saved' \subseteq AttemptIds /\ warned' \subseteq Branches /\ faults' \in Nat
<1>1. PICK lost \in SUBSET ids :
        /\ Faults(Cardinality(lost))
        /\ saved' = saved \cup (ids \ lost)
        /\ warned' = warned \cup {a.branch : a \in lost \ saved}
  BY DEF SaveAttempts
<1>2. Cardinality(lost) \in Nat
  BY FS_Subset, FS_CardinalityType
<1>3. \A a \in lost : a.branch \in Branches
  BY DEF AttemptIds
<1> QED BY <1>1, <1>2, <1>3 DEF Faults, TypeInv, TypeOK

\* The attempts of a run's round are finitely many.
LEMMA RoundIds ==
  ASSUME TypeInv, NEW r \in Runs, pc[r] \in Entered, NEW S, S \subseteq Indexes
  PROVE  /\ {IdOf(r, i) : i \in S} \subseteq AttemptIds
         /\ IsFiniteSet({IdOf(r, i) : i \in S})
<1>1. IsFiniteSet(S)
  BY IndexSets
<1>2. {IdOf(r, i) : i \in S} \subseteq AttemptIds
  BY IdType
<1>3. IsFiniteSet({IdOf(r, i) : i \in S})
  <2> DEFINE f == [i \in S |-> IdOf(r, i)]
  <2>1. f \in Surjection(S, {IdOf(r, i) : i \in S})
    BY DEF Surjection
  <2> HIDE DEF f
  <2> QED BY <1>1, <2>1, FS_Surjection
<1> QED BY <1>2, <1>3

\* What is counted stays a number.
LEMMA TallyType ==
  ASSUME TypeInv, NEW r \in Runs, RunStep(r) \/ RunFault(r)
  PROVE  spent' \in Nat /\ shared' \in BOOLEAN
<1> DEFINE Goal == spent' \in Nat /\ shared' \in BOOLEAN
<1>0. spent \in Nat /\ shared \in BOOLEAN
  BY DEF TypeInv, TypeOK
<1> USE <1>0 DEF tally, history
<1>1. ASSUME Start(r)
      PROVE  Goal
  BY <1>1 DEF Start
<1>2. ASSUME EnterRound(r) \/ NoticeCancellation(r) \/ ExhaustBudget(r) \/ RefusePullRequest(r)
             \/ RecordFailure(r) \/ PruneBranches(r) \/ FinishJob(r) \/ OpenPullRequest(r)
      PROVE  Goal
  BY <1>2 DEF EnterRound, NoticeCancellation, ExhaustBudget, RefusePullRequest, RecordFailure,
              PruneBranches, FinishJob, OpenPullRequest
<1>3. ASSUME BeginPlanning(r) \/ Plan(r) \/ BeginReviews(r) \/ RecordDelivery(r) \/ BeginRound(r)
      PROVE  Goal
  BY <1>3 DEF BeginPlanning, Plan, BeginReviews, RecordDelivery, BeginRound
<1>4. ASSUME RoundWithoutSurvivor(r) \/ RoundWithoutReview(r) \/ RoundSentBack(r)
      PROVE  Goal
  BY <1>4 DEF RoundWithoutSurvivor, RoundWithoutReview, RoundSentBack, CloseRound
<1>5. ASSUME CollectRound(r) \/ Approve(r) \/ SendBack(r)
      PROVE  Goal
  BY <1>5 DEF CollectRound, Approve, SendBack
<1>6. ASSUME NEW i \in Indexes, NEW outcome \in Outcomes, EndAttempt(r, i, outcome)
      PROVE  Goal
  BY <1>6 DEF EndAttempt
<1>7. ASSUME NEW i \in Indexes, NEW grade \in 0 .. MaxRank, Review(r, i, grade)
      PROVE  Goal
  BY <1>7 DEF Review
<1>8. ASSUME LoseAnswer(r) \/ Err(r) \/ Crash(r) \/ (\E i \in Indexes : LoseReview(r, i))
      PROVE  Goal
  BY <1>8 DEF LoseAnswer, Err, Crash, LoseReview
<1> HIDE DEF Goal
<1>9. Goal
  BY <1>1, <1>2, <1>3, <1>4, <1>5, <1>6, <1>7, <1>8 DEF RunStep, RunFault
<1> QED BY <1>9 DEF Goal

\* Every step of a run keeps the types.
LEMMA TypeStep == ASSUME TypeInv, NEW r \in Runs, RunStep(r) PROVE TypeInv'
<1>C. spent' \in Nat /\ shared' \in BOOLEAN
  BY TallyType
<1> USE <1>C, CountAssumption DEF storeVars, forgeVars, runVars, tally, history
<1> DEFINE Rest == <<job, saved, remote, prs, work, rank, winner, stopper, stops, rounds, rowLost, warned>>
<1>0. /\ TypeOK /\ pc \in [Runs -> Phases] /\ mem[r] \in Task /\ row \in Task
      /\ mem[r].round \in 0 .. MaxRounds /\ mem[r].spend \in Nat
  BY DEF TypeInv, TypeOK, Task
\* The run's copy is replaced.
<1>M. ASSUME NEW task \in Task, mem' = [mem EXCEPT ![r] = task]
      PROVE  mem' \in [Runs -> Task] /\ mem'[r] = task /\ \A q \in Runs \ {r} : mem'[q] = mem[q]
  BY <1>0, <1>M DEF TypeOK
\* The copy changes and is written, or the write fails: which phase is next, and what it needs.
<1>W. ASSUME NEW to \in Phases, NEW task \in Task, mem' = [mem EXCEPT ![r] = task], WriteOrFail(r, to),
             UNCHANGED Rest,
             to \in Entered => task.round < MaxRounds,
             to \in {"deliver", "record"} => winner[r] \in Indexes,
             to # "deliver"
      PROVE  TypeInv'
  <2>1. mem'[r] = task /\ mem' \in [Runs -> Task]
    BY <1>0, <1>W DEF TypeOK
  <2>2. /\ row' \in Task /\ faults' \in Nat
        /\ pc' = [pc EXCEPT ![r] = to] \/ pc' = [pc EXCEPT ![r] = "failing"]
    BY <1>W, <2>1, WriteType
  <2>3. TypeOK'
    BY <1>0, <1>W, <2>1, <2>2 DEF TypeOK
  <2>4. /\ pc' \in [Runs -> Phases]
        /\ \A q \in Runs \ {r} : pc'[q] = pc[q] /\ mem'[q] = mem[q]
        /\ pc'[r] \in {to, "failing"}
    BY <1>0, <1>W, <2>2 DEF Phases, TypeOK
  <2>5. \A q \in Runs : pc'[q] \in Entered => mem'[q].round < MaxRounds
    BY <1>W, <2>1, <2>4 DEF TypeInv, Entered
  <2>6. \A q \in Runs : pc'[q] \in {"deliver", "record"} => winner'[q] \in Indexes
    BY <1>W, <2>4 DEF TypeInv
  <2>7. \A q \in Runs : pc'[q] = "deliver" => HasForge
    BY <1>W, <2>4 DEF TypeInv
  <2> QED BY <2>3, <2>4, <2>5, <2>6, <2>7 DEF TypeInv
\* The run goes on and nothing else of what the types are about changes.
<1>G. ASSUME NEW to \in Phases, Goto(r, to), UNCHANGED <<Rest, row, mem, faults>>,
             to \in Entered => mem[r].round < MaxRounds,
             to \notin {"deliver", "record"}
      PROVE  TypeInv'
  <2>1. TypeOK'
    BY <1>0, <1>G DEF TypeOK
  <2>2. /\ pc' \in [Runs -> Phases]
        /\ \A q \in Runs \ {r} : pc'[q] = pc[q]
        /\ pc'[r] = to
    BY <1>0, <1>G DEF Goto
  <2> QED BY <1>G, <2>1, <2>2 DEF TypeInv
<1>1. CASE Start(r)
  <2>1. /\ mem' \in [Runs -> Task] /\ mem' = [mem EXCEPT ![r] = row]
        /\ pc' = [pc EXCEPT ![r] = IF row.planned THEN "round" ELSE "planning"]
        /\ UNCHANGED <<Rest, row, faults>>
    BY <1>0, <1>1 DEF Start, Goto, TypeOK
  <2>2. TypeOK'
    BY <1>0, <2>1 DEF TypeOK
  <2>3. /\ pc' \in [Runs -> Phases]
        /\ \A q \in Runs \ {r} : pc'[q] = pc[q] /\ mem'[q] = mem[q]
        /\ pc'[r] \in {"round", "planning"}
    BY <1>0, <2>1 DEF Phases, TypeOK
  <2> QED BY <2>1, <2>2, <2>3 DEF TypeInv, Entered
<1>2. CASE BeginPlanning(r)
  <2> DEFINE task == [mem[r] EXCEPT !.state = "planning"]
  <2>1. task \in Task /\ "plan" \in Phases
    BY <1>0 DEF Task, States, Phases
  <2>2. CASE mem[r].state # "planning"
    BY <2>1, <2>2, <1>2, <1>0, <1>W DEF BeginPlanning, Entered
  <2>3. CASE mem[r].state = "planning"
    <3>1. /\ mem' = [mem EXCEPT ![r] = task] /\ pc' = [pc EXCEPT ![r] = "plan"]
          /\ UNCHANGED Rest /\ row' = row /\ faults' = faults
      BY <1>2, <2>3 DEF BeginPlanning, Goto
    <3>2. TypeOK'
      BY <1>0, <2>1, <3>1 DEF TypeOK
    <3> QED BY <1>0, <2>1, <3>1, <3>2 DEF TypeInv, Entered, Phases
  <2> QED BY <2>2, <2>3
<1>3. CASE Plan(r)
  <2> DEFINE known == [mem[r] EXCEPT !.planned = TRUE]
             task == [known EXCEPT !.spend = @ + 1]
  <2>0. mem[r].spend + 1 \in Nat /\ "round" \in Phases
    BY <1>0 DEF Phases
  <2>1. task \in Task
    <3>1. known \in Task /\ known.spend = mem[r].spend
      BY <1>0 DEF Task
    <3> HIDE DEF known
    <3> QED BY <1>0, <2>0, <3>1 DEF Task
  <2> QED BY <2>0, <2>1, <1>3, <1>0, <1>W DEF Plan, Entered
<1>4. CASE EnterRound(r)
  BY <1>4, <1>G DEF EnterRound, Phases
<1>5. CASE NoticeCancellation(r)
  <2>1. /\ mem' \in [Runs -> Task]
        /\ pc' = [pc EXCEPT ![r] = "prune"]
        /\ UNCHANGED <<Rest, row, faults>>
    BY <1>0, <1>5 DEF NoticeCancellation, Goto, TypeOK, Task, States
  <2>2. TypeOK'
    BY <1>0, <2>1 DEF TypeOK
  <2>3. /\ pc' \in [Runs -> Phases]
        /\ \A q \in Runs \ {r} : pc'[q] = pc[q] /\ mem'[q] = mem[q]
        /\ pc'[r] = "prune"
    BY <1>0, <1>5, <2>1 DEF Phases, TypeOK, NoticeCancellation
  <2> QED BY <2>1, <2>2, <2>3 DEF TypeInv, Entered
<1>6. CASE ExhaustBudget(r)
  BY <1>6, <1>G DEF ExhaustBudget, Phases, Entered
<1>7. CASE BeginRound(r)
  <2> DEFINE task == [mem[r] EXCEPT !.state = "working"]
  <2>1. task \in Task /\ mem' = [mem EXCEPT ![r] = task] /\ mem'[r] = task /\ mem' \in [Runs -> Task]
    BY <1>0, <1>7 DEF Task, States, BeginRound, TypeOK
  <2>2. /\ row' \in Task /\ faults' \in Nat
        /\ pc' = [pc EXCEPT ![r] = "attempts"] \/ pc' = [pc EXCEPT ![r] = "failing"]
    <3>1. CASE mem[r].state = "working"
      BY <1>0, <1>7, <3>1 DEF BeginRound, Goto, TypeOK
    <3>2. CASE mem[r].state # "working"
      <4>1. WriteOrFail(r, "attempts") /\ "attempts" \in Phases
        BY <1>7, <3>2 DEF BeginRound, Phases
      <4> QED BY <2>1, <4>1, WriteType
    <3> QED BY <3>1, <3>2
  <2>3. /\ work' \in [Runs -> [Indexes -> Outcomes \cup {"pending"}]]
        /\ rank' \in [Runs -> [Indexes -> 0 .. MaxRank \cup {None}]]
        /\ rounds' \in Nat
        /\ UNCHANGED <<job, saved, remote, prs, winner, stopper, stops, rowLost, warned>>
    <3>1. NoWork \in [Indexes -> Outcomes \cup {"pending"}] /\ NoRank \in [Indexes -> 0 .. MaxRank \cup {None}]
      BY DEF NoWork, NoRank
    <3> QED BY <1>0, <1>7, <3>1 DEF BeginRound, TypeOK
  <2>4. TypeOK'
    BY <1>0, <2>1, <2>2, <2>3 DEF TypeOK
  <2>5. /\ pc' \in [Runs -> Phases]
        /\ \A q \in Runs \ {r} : pc'[q] = pc[q] /\ mem'[q] = mem[q]
        /\ pc'[r] \in {"attempts", "failing"} /\ mem'[r].round = mem[r].round /\ mem[r].round < MaxRounds
    BY <1>0, <1>7, <2>1, <2>2 DEF Phases, TypeOK, Task, BeginRound, TypeInv, Entered
  <2> QED BY <2>3, <2>4, <2>5 DEF TypeInv, Entered
<1>8. CASE CollectRound(r)
  <2>1. pc[r] \in Entered /\ mem[r].round < MaxRounds
    BY <1>8 DEF CollectRound, Entered, TypeInv
  <2>2. Passed(r) \subseteq Indexes /\ Returned(r) \subseteq Indexes
    BY DEF Passed, Returned
  <2>3. saved' \subseteq AttemptIds /\ warned' \subseteq Branches /\ faults' \in Nat
    BY <1>8, <2>1, <2>2, RoundIds, SaveType DEF CollectRound
  <2>4. Cardinality(Returned(r)) \in Nat
    BY <2>2, IndexSets
  <2>5. /\ mem' \in [Runs -> Task] /\ pc' = [pc EXCEPT ![r] = "collected"]
        /\ UNCHANGED <<row, job, remote, prs, work, rank, winner, stopper, stops, rounds, rowLost>>
        /\ mem'[r].round = mem[r].round /\ \A q \in Runs \ {r} : mem'[q] = mem[q]
    <3> DEFINE task == [mem[r] EXCEPT !.spend = @ + Cardinality(Returned(r))]
    <3>1. task \in Task /\ task.round = mem[r].round
      BY <1>0, <2>4 DEF Task
    <3>2. mem' = [mem EXCEPT ![r] = task]
      BY <1>0, <1>8 DEF CollectRound, TypeOK
    <3>3. /\ pc' = [pc EXCEPT ![r] = "collected"]
          /\ UNCHANGED <<row, job, remote, prs, work, rank, winner, stopper, stops, rounds, rowLost>>
      BY <1>8 DEF CollectRound, Goto
    <3> HIDE DEF task
    <3> QED BY <3>1, <3>2, <3>3, <1>M
  <2>6. TypeOK'
    BY <1>0, <2>3, <2>5 DEF TypeOK
  <2> QED BY <1>0, <2>1, <2>5, <2>6 DEF TypeInv, Entered, Phases
<1>9. CASE RoundWithoutSurvivor(r) \/ RoundWithoutReview(r) \/ RoundSentBack(r)
  <2> DEFINE task == [mem[r] EXCEPT !.round = @ + 1]
  <2>1. pc[r] \in Entered /\ CloseRound(r)
    BY <1>9 DEF RoundWithoutSurvivor, RoundWithoutReview, RoundSentBack, ReviewsAreIn, Entered
  <2>2. mem[r].round < MaxRounds
    BY <2>1 DEF TypeInv
  <2>3. task \in Task /\ "round" \in Phases
    <3>1. mem[r].round + 1 \in 0 .. MaxRounds
      BY <1>0, <2>2
    <3>2. task \in Task
      BY <1>0, <3>1 DEF Task
    <3> QED BY <3>2 DEF Phases
  <2> QED BY <2>1, <2>3, <1>W DEF CloseRound, Entered
<1>10. CASE BeginReviews(r)
  <2> DEFINE task == [mem[r] EXCEPT !.state = "reviewing"]
  <2>1. task \in Task /\ "reviews" \in Phases
    BY <1>0 DEF Task, States, Phases
  <2>2. mem[r].round < MaxRounds /\ task.round = mem[r].round
    BY <1>0, <1>10 DEF BeginReviews, TypeInv, Entered, Task
  <2>3. mem' = [mem EXCEPT ![r] = task] /\ WriteOrFail(r, "reviews") /\ UNCHANGED Rest
    BY <1>0, <1>10 DEF BeginReviews, TypeOK
  <2> HIDE DEF task, Rest
  <2> QED BY <2>1, <2>2, <2>3, <1>W
<1>11. ASSUME NEW i \in Indexes, NEW outcome \in Outcomes, EndAttempt(r, i, outcome) PROVE TypeInv'
  <2>1. pc[r] \in Entered
    BY <1>11 DEF EndAttempt, Entered
  <2>2. BranchOf(r, i) \in Branches /\ IdOf(r, i) \in AttemptIds
    BY <2>1, IdType
  <2>3. remote' \in [Branches -> AttemptIds \cup {None}] /\ faults' \in Nat
    <3>1. remote' = remote \/ remote' = [remote EXCEPT ![BranchOf(r, i)] = IdOf(r, i)]
      BY <1>11 DEF EndAttempt
    <3>2. remote \in [Branches -> AttemptIds \cup {None}] /\ faults \in Nat
      BY <1>0 DEF TypeOK
    <3>3. faults' = faults \/ faults' = faults + 1
      BY <1>11 DEF EndAttempt, Faults
    <3>4. remote' \in [Branches -> AttemptIds \cup {None}]
      BY <2>2, <3>1, <3>2
    <3> QED BY <3>2, <3>3, <3>4
  <2>4. work' \in [Runs -> [Indexes -> Outcomes \cup {"pending"}]]
    BY <1>0, <1>11 DEF EndAttempt, TypeOK
  <2>5. UNCHANGED <<row, job, saved, prs, pc, mem, rank, winner, stopper, stops, rounds, rowLost, warned>>
    BY <1>11 DEF EndAttempt
  <2>6. TypeOK'
    BY <1>0, <2>3, <2>4, <2>5 DEF TypeOK
  <2>7. pc' = pc /\ mem' = mem /\ winner' = winner
    BY <2>5
  <2> HIDE DEF storeVars, forgeVars, runVars, tally, history
  <2> QED BY <2>6, <2>7 DEF TypeInv
<1>12. ASSUME NEW i \in Indexes, NEW grade \in 0 .. MaxRank, Review(r, i, grade) PROVE TypeInv'
  <2>1. pc[r] \in Entered
    BY <1>12 DEF Review, Entered
  <2>2. {IdOf(r, i)} \subseteq AttemptIds /\ IsFiniteSet({IdOf(r, i)})
    BY <2>1, IdType, FS_Singleton
  <2>3. saved' \subseteq AttemptIds /\ warned' \subseteq Branches /\ faults' \in Nat
    BY <1>12, <2>2, SaveType DEF Review
  <2>4. PICK cost \in {0, 1} : mem' = [mem EXCEPT ![r].spend = @ + cost]
    BY <1>12 DEF Review
  <2>5. /\ mem' \in [Runs -> Task]
        /\ \A q \in Runs : mem'[q].round = mem[q].round
    <3> DEFINE task == [mem[r] EXCEPT !.spend = @ + cost]
    <3>1. task \in Task /\ task.round = mem[r].round
      BY <1>0 DEF Task
    <3>2. mem' = [mem EXCEPT ![r] = task]
      BY <1>0, <2>4 DEF TypeOK
    <3> HIDE DEF task
    <3> QED BY <3>1, <3>2, <1>M
  <2>6. rank' \in [Runs -> [Indexes -> 0 .. MaxRank \cup {None}]]
    BY <1>0, <1>12 DEF Review, TypeOK
  <2>7. UNCHANGED <<row, job, remote, prs, pc, work, winner, stopper, stops, rounds, rowLost>>
    BY <1>12 DEF Review
  <2>8. TypeOK'
    BY <1>0, <2>3, <2>5, <2>6, <2>7 DEF TypeOK
  <2> QED BY <2>5, <2>7, <2>8 DEF TypeInv
<1>13. CASE Approve(r)
  <2>1. pc[r] \in Entered /\ mem[r].round < MaxRounds /\ Reviewed(r) # {}
    BY <1>13 DEF Approve, ReviewsAreIn, Entered, TypeInv
  <2>2. Best(r) \in Indexes
    BY <1>0, <2>1, BestIsReviewed
  <2>3. {IdOf(r, Best(r))} \subseteq AttemptIds /\ IsFiniteSet({IdOf(r, Best(r))})
    BY <2>1, <2>2, IdType, FS_Singleton
  <2>4. saved' \subseteq AttemptIds /\ warned' \subseteq Branches /\ faults' \in Nat
    BY <1>13, <2>3, SaveType DEF Approve
  <2>5. winner' \in [Runs -> Indexes \cup {None}] /\ (\A q \in Runs \ {r} : winner'[q] = winner[q])
        /\ winner'[r] \in Indexes
    BY <1>0, <1>13, <2>2 DEF Approve, TypeOK
  <2>6. /\ mem' \in [Runs -> Task]
        /\ \A q \in Runs : mem'[q].round = mem[q].round
    <3> DEFINE task == [mem[r] EXCEPT !.spend = @ + 1]
    <3>1. task \in Task /\ task.round = mem[r].round
      BY <1>0 DEF Task
    <3>2. mem' = [mem EXCEPT ![r] = task]
      BY <1>0, <1>13 DEF Approve, TypeOK
    <3> HIDE DEF task
    <3> QED BY <3>1, <3>2, <1>M
  <2>7. /\ UNCHANGED <<row, job, remote, prs, work, rank, stopper, stops, rounds, rowLost>>
        /\ \E to \in {"deliver", "record"} : pc' = [pc EXCEPT ![r] = to]
    BY <1>13, SwitchAssumption DEF Approve, Goto
  <2>8. TypeOK'
    BY <1>0, <2>4, <2>5, <2>6, <2>7 DEF TypeOK
  <2>9. pc' \in [Runs -> Phases] /\ (\A q \in Runs \ {r} : pc'[q] = pc[q]) /\ pc'[r] \in {"deliver", "record"}
    BY <1>0, <2>7 DEF Phases
  <2>10. pc'[r] = "deliver" => HasForge
    BY <1>0, <1>13 DEF Approve, Goto
  <2> QED BY <2>1, <2>5, <2>6, <2>8, <2>9, <2>10 DEF TypeInv, Entered
<1>14. CASE SendBack(r)
  <2>1. pc[r] \in Entered /\ mem[r].round < MaxRounds /\ Reviewed(r) # {}
    BY <1>14 DEF SendBack, ReviewsAreIn, Entered, TypeInv
  <2>2. Reviewed(r) \subseteq Indexes
    BY DEF Reviewed, Passed
  <2>3. {IdOf(r, i) : i \in Reviewed(r)} \subseteq AttemptIds /\ IsFiniteSet({IdOf(r, i) : i \in Reviewed(r)})
    BY <2>1, <2>2, RoundIds
  <2>4. saved' \subseteq AttemptIds /\ warned' \subseteq Branches /\ faults' \in Nat
    BY <1>14, <2>3, SaveType DEF SendBack
  <2>5. winner' = winner
    BY <1>14 DEF SendBack
  <2>6. /\ mem' \in [Runs -> Task]
        /\ \A q \in Runs : mem'[q].round = mem[q].round
    <3> DEFINE task == [mem[r] EXCEPT !.spend = @ + 1]
    <3>1. task \in Task /\ task.round = mem[r].round
      BY <1>0 DEF Task
    <3>2. mem' = [mem EXCEPT ![r] = task]
      BY <1>0, <1>14 DEF SendBack, TypeOK
    <3> HIDE DEF task
    <3> QED BY <3>1, <3>2, <1>M
  <2>7. /\ UNCHANGED <<row, job, remote, prs, work, rank, stopper, stops, rounds, rowLost>>
        /\ \E to \in {"sentback"} : pc' = [pc EXCEPT ![r] = to]
    BY <1>14, SwitchAssumption DEF SendBack, Goto
  <2>8. TypeOK'
    BY <1>0, <2>4, <2>5, <2>6, <2>7 DEF TypeOK
  <2>9. pc' \in [Runs -> Phases] /\ (\A q \in Runs \ {r} : pc'[q] = pc[q]) /\ pc'[r] \in {"sentback"}
    BY <1>0, <2>7 DEF Phases
  <2>10. pc'[r] = "deliver" => HasForge
    BY <1>0, <1>14 DEF SendBack, Goto
  <2> QED BY <2>1, <2>5, <2>6, <2>8, <2>9, <2>10 DEF TypeInv, Entered
<1>15. CASE OpenPullRequest(r)
  <2>1. pc[r] \in Entered /\ mem[r].round < MaxRounds /\ winner[r] \in Indexes
    BY <1>15 DEF OpenPullRequest, Entered, TypeInv
  <2>2. Head(r) \in Branches /\ IdOf(r, winner[r]) \in AttemptIds
    BY <2>1, IdType DEF Head
  <2>3. prs' \subseteq [head : Branches, shown : AttemptIds]
    BY <1>0, <1>15, <2>2 DEF OpenPullRequest, Acceptable, TypeOK
  <2>4. /\ mem' \in [Runs -> Task]
        /\ \A q \in Runs : mem'[q].round = mem[q].round
    <3> DEFINE task == [mem[r] EXCEPT !.pr = IdOf(r, winner[r])]
    <3>1. task \in Task /\ task.round = mem[r].round
      BY <1>0, <2>2 DEF Task
    <3>2. mem' = [mem EXCEPT ![r] = task]
      BY <1>0, <1>15 DEF OpenPullRequest, TypeOK
    <3> HIDE DEF task
    <3> QED BY <3>1, <3>2, <1>M
  <2>5. /\ UNCHANGED <<row, job, saved, remote, work, rank, winner, stopper, stops, rounds, rowLost, warned, faults>>
        /\ pc' = [pc EXCEPT ![r] = "record"]
    BY <1>15 DEF OpenPullRequest, Goto
  <2>6. TypeOK'
    BY <1>0, <2>3, <2>4, <2>5 DEF TypeOK
  <2> QED BY <1>0, <2>1, <2>4, <2>5, <2>6 DEF TypeInv, Entered, Phases
<1>16. CASE RefusePullRequest(r)
  BY <1>16, <1>G DEF RefusePullRequest, Phases, Entered
<1>17. CASE RecordDelivery(r)
  <2> DEFINE task == [mem[r] EXCEPT !.state = "awaiting_human"]
  <2>1. task \in Task /\ "prune" \in Phases
    BY <1>0 DEF Task, States, Phases
  <2> QED BY <2>1, <1>17, <1>0, <1>W DEF RecordDelivery, Entered
<1>18. CASE RecordFailure(r)
  <2>1. /\ row' \in Task /\ faults' \in Nat /\ rowLost' \in BOOLEAN /\ mem' \in [Runs -> Task]
        /\ UNCHANGED <<job, saved, remote, prs, work, rank, winner, stopper, stops, rounds, warned>>
        /\ pc' = [pc EXCEPT ![r] = "prune"]
        /\ \A q \in Runs \ {r} : mem'[q] = mem[q]
    <3> DEFINE task == [mem[r] EXCEPT !.state = "failed"]
    <3>1. task \in Task
      BY <1>0 DEF Task, States
    <3>2. mem' = [mem EXCEPT ![r] = task]
      BY <1>0, <1>18 DEF RecordFailure, TypeOK
    <3>3. /\ UNCHANGED <<job, saved, remote, prs, work, rank, winner, stopper, stops, rounds, warned>>
          /\ pc' = [pc EXCEPT ![r] = "prune"]
      BY <1>18 DEF RecordFailure, Goto
    <3>4. /\ row' = row \/ row' = mem'[r]
          /\ faults' = faults \/ faults' = faults + 1
          /\ rowLost' = rowLost \/ rowLost' = TRUE
      BY <1>18 DEF RecordFailure, Save, Faults
    <3> HIDE DEF task
    <3>5. mem' \in [Runs -> Task] /\ mem'[r] \in Task /\ \A q \in Runs \ {r} : mem'[q] = mem[q]
      BY <3>1, <3>2, <1>M
    <3>6. row \in Task /\ rowLost \in BOOLEAN /\ faults \in Nat
      BY <1>0 DEF TypeOK
    <3>7. row' \in Task
      BY <3>4, <3>5, <3>6
    <3>8. rowLost' \in BOOLEAN
      BY <3>4, <3>6
    <3>9. faults' \in Nat
      BY <3>4, <3>6
    <3> QED BY <3>3, <3>5, <3>7, <3>8, <3>9
  <2>2. TypeOK'
    BY <1>0, <2>1 DEF TypeOK
  <2> QED BY <1>0, <2>1, <2>2 DEF TypeInv, Entered, Phases
<1>19. CASE PruneBranches(r)
  <2> DEFINE rejected == {a.branch : a \in saved} \ Kept(r)
  <2>1. /\ UNCHANGED <<row, job, saved, mem, work, rank, winner, stopper, stops, rounds, rowLost>>
        /\ pc' = [pc EXCEPT ![r] = "over"]
    BY <1>19 DEF PruneBranches, Goto
  <2>2. rejected \subseteq Branches /\ IsFiniteSet(rejected)
    <3>1. \A a \in saved : a.branch \in Branches
      BY <1>0 DEF TypeOK, AttemptIds
    <3> QED BY <3>1, BranchesFinite, FS_Subset
  <2>3. /\ remote' \in [Branches -> AttemptIds \cup {None}] /\ warned' \subseteq Branches
        /\ prs' \subseteq [head : Branches, shown : AttemptIds] /\ faults' \in Nat
    <3>1. CASE MayPrune
      <4>1. PICK failed \in SUBSET rejected :
              /\ Faults(Cardinality(failed)) \/ Faults(1)
              /\ remote' = [b \in Branches |-> IF b \in rejected \ failed THEN None ELSE remote[b]]
              /\ warned' = warned \cup failed
              /\ prs' = {p \in prs : remote'[p.head] # None}
        BY <1>19, <3>1 DEF PruneBranches
      <4>2. Cardinality(failed) \in Nat
        BY <2>2, FS_Subset, FS_CardinalityType
      <4> QED BY <1>0, <2>2, <4>1, <4>2 DEF TypeOK, Faults
    <3>2. CASE ~ MayPrune
      BY <1>0, <1>19, <3>2 DEF PruneBranches, TypeOK
    <3> QED BY <3>1, <3>2
  <2>4. TypeOK'
    BY <1>0, <2>1, <2>3 DEF TypeOK
  <2> QED BY <1>0, <2>1, <2>4 DEF TypeInv, Entered, Phases
<1>20. CASE FinishJob(r)
  <2>1. /\ UNCHANGED <<row, saved, remote, prs, mem, work, rank, winner, stopper, stops, rounds, rowLost, warned, faults>>
        /\ pc' = [pc EXCEPT ![r] = "ended"] /\ job' = FALSE
    BY <1>20 DEF FinishJob, Goto
  <2>2. TypeOK'
    BY <1>0, <2>1 DEF TypeOK
  <2> QED BY <1>0, <2>1, <2>2 DEF TypeInv, Entered, Phases
<1> QED BY <1>1, <1>2, <1>3, <1>4, <1>5, <1>6, <1>7, <1>8, <1>9, <1>10, <1>11, <1>12, <1>13, <1>14,
           <1>15, <1>16, <1>17, <1>18, <1>19, <1>20 DEF RunStep

\* So does everything that can happen to a run.
LEMMA TypeFault == ASSUME TypeInv, NEW r \in Runs, RunFault(r) PROVE TypeInv'
<1>C. spent' \in Nat /\ shared' \in BOOLEAN
  BY TallyType
<1> USE <1>C, CountAssumption DEF storeVars, forgeVars, runVars, tally, history
<1>0. TypeOK /\ pc \in [Runs -> Phases]
  BY DEF TypeInv
<1>1. ASSUME NEW i \in Indexes, LoseReview(r, i) PROVE TypeInv'
  <2>1. work' \in [Runs -> [Indexes -> Outcomes \cup {"pending"}]]
    BY <1>0, <1>1 DEF LoseReview, TypeOK, Outcomes
  <2>2. faults' \in Nat /\ UNCHANGED <<storeVars, forgeVars, pc, mem, rank, winner, stopper, stops, rounds, rowLost, warned>>
    BY <1>0, <1>1 DEF LoseReview, Faults, TypeOK
  <2>3. TypeOK'
    BY <1>0, <2>1, <2>2 DEF TypeOK
  <2>4. pc' = pc /\ mem' = mem /\ winner' = winner
    BY <2>2
  <2> QED BY <2>3, <2>4 DEF TypeInv, Entered
<1>2. CASE LoseAnswer(r) \/ Err(r)
  <2>1. /\ pc' = [pc EXCEPT ![r] = "failing"]
        /\ UNCHANGED <<storeVars, remote, mem, work, rank, winner, stopper, stops, rounds, rowLost, warned>>
        /\ faults' \in Nat
    BY <1>0, <1>2 DEF LoseAnswer, Err, Goto, Faults, TypeOK
  <2>2. prs' \subseteq [head : Branches, shown : AttemptIds]
    <3>1. CASE LoseAnswer(r)
      <4>1. pc[r] \in Entered /\ winner[r] \in Indexes
        BY <3>1 DEF LoseAnswer, Entered, TypeInv
      <4>2. Head(r) \in Branches
        BY <4>1, IdType DEF Head
      <4> QED BY <1>0, <3>1, <4>2 DEF LoseAnswer, Acceptable, TypeOK
    <3>2. CASE Err(r)
      BY <1>0, <3>2 DEF Err, TypeOK
    <3> QED BY <1>2, <3>1, <3>2
  <2>3. TypeOK'
    BY <1>0, <2>1, <2>2 DEF TypeOK
  <2> QED BY <1>0, <2>1, <2>3 DEF TypeInv, Entered, Phases
<1>3. CASE Crash(r)
  <2>1. /\ pc' = [pc EXCEPT ![r] = "dead"]
        /\ UNCHANGED <<storeVars, forgeVars, mem, work, rank, winner, stopper, stops, rounds, rowLost, faults>>
        /\ warned' \subseteq Branches
    BY <1>0, <1>3 DEF Crash, Goto, TypeOK
  <2>2. TypeOK'
    BY <1>0, <2>1 DEF TypeOK
  <2> QED BY <1>0, <2>1, <2>2 DEF TypeInv, Entered, Phases
<1> QED BY <1>1, <1>2, <1>3 DEF RunFault

\* And so does the handler of /stop.
LEMMA TypeStop == ASSUME TypeInv, ReadForStop \/ WriteStop PROVE TypeInv'
<1> USE DEF storeVars, forgeVars, runVars, tally, history
<1>0. TypeOK
  BY DEF TypeInv
<1>1. UNCHANGED <<job, saved, forgeVars, runVars, history>>
  BY DEF ReadForStop, WriteStop
<1>2. row' \in Task /\ stopper' \in Task \cup {None} /\ stops' \in Nat
  <2>1. CASE ReadForStop
    BY <1>0, <2>1 DEF ReadForStop, TypeOK
  <2>2. CASE WriteStop
    <3>1. stopper \in Task
      BY <1>0, <2>2 DEF WriteStop, TypeOK
    <3>2. [stopper EXCEPT !.state = "cancelled"] \in Task
      BY <3>1 DEF Task, States
    <3>3. row' \in Task /\ stopper' = None
      BY <2>2, <3>2 DEF WriteStop, Save
    <3>4. stops' \in Nat
      BY <1>0, <2>2 DEF WriteStop, TypeOK
    <3> QED BY <3>3, <3>4
  <2> QED BY <2>1, <2>2
<1>3. TypeOK'
  BY <1>0, <1>1, <1>2 DEF TypeOK
<1>4. pc' = pc /\ mem' = mem /\ winner' = winner
  BY <1>1
<1> QED BY <1>3, <1>4 DEF TypeInv, Entered

\* No step leaves the types: not a run's, not the stop handler's.
LEMMA TypeNext == TypeInv /\ [Next]_vars => TypeInv'
<1> SUFFICES ASSUME TypeInv, [Next]_vars PROVE TypeInv'
  OBVIOUS
<1>1. CASE UNCHANGED vars
  <2>1. TypeOK'
    BY <1>1 DEF TypeInv, TypeOK, vars, storeVars, forgeVars, runVars, tally, history
  <2>2. pc' = pc /\ mem' = mem /\ winner' = winner
    BY <1>1 DEF vars, runVars
  <2> QED BY <2>1, <2>2 DEF TypeInv, Entered
<1> QED BY <1>1, TypeStep, TypeFault, TypeStop DEF Next

\* So they are invariant.
LEMMA TypeInvariance == Spec => []TypeInv
BY TypeInit, TypeNext, PTL DEF Spec

\* The types hold in every reachable state: the row, every run's copy of it, the outcomes, the
\* ranks and the branches keep their shapes whatever fails.
THEOREM TypeCorrect == Spec => []TypeOK
BY TypeInvariance, PTL DEF TypeInv

-----------------------------------------------------------------------------
(* What a step of one run leaves alone *)

\* A step of a run moves that run, and reads and writes no other run's memory.
LEMMA Frame ==
  ASSUME TypeInv, NEW r \in Runs, RunStep(r) \/ RunFault(r)
  PROVE  /\ pc' \in [Runs -> Phases]
         /\ UNCHANGED <<stopper, stops>>
         /\ \A q \in Runs \ {r} :
              /\ pc'[q] = pc[q] /\ mem'[q] = mem[q] /\ work'[q] = work[q]
              /\ rank'[q] = rank[q] /\ winner'[q] = winner[q]
<1> USE DEF storeVars, forgeVars, runVars, tally, history
<1> DEFINE Local == \A q \in Runs \ {r} :
              /\ pc'[q] = pc[q] /\ mem'[q] = mem[q] /\ work'[q] = work[q]
              /\ rank'[q] = rank[q] /\ winner'[q] = winner[q]
<1>0. /\ pc \in [Runs -> Phases] /\ DOMAIN mem = Runs /\ DOMAIN work = Runs /\ DOMAIN rank = Runs
      /\ DOMAIN winner = Runs
  BY DEF TypeInv, TypeOK
<1>1. ASSUME Start(r)
      PROVE  Local /\ UNCHANGED <<stopper, stops>>
  BY <1>0, <1>1 DEF Start, Goto
<1>2. ASSUME BeginPlanning(r) \/ Plan(r) \/ BeginReviews(r) \/ RecordDelivery(r)
      PROVE  Local /\ UNCHANGED <<stopper, stops>>
  BY <1>0, <1>2 DEF BeginPlanning, Plan, BeginReviews, RecordDelivery, WriteOrFail, Goto
<1>3. ASSUME RoundWithoutSurvivor(r) \/ RoundWithoutReview(r) \/ RoundSentBack(r)
      PROVE  Local /\ UNCHANGED <<stopper, stops>>
  BY <1>0, <1>3 DEF RoundWithoutSurvivor, RoundWithoutReview, RoundSentBack, CloseRound, WriteOrFail, Goto
<1>4. ASSUME EnterRound(r) \/ NoticeCancellation(r) \/ ExhaustBudget(r)
      PROVE  Local /\ UNCHANGED <<stopper, stops>>
  BY <1>0, <1>4 DEF EnterRound, NoticeCancellation, ExhaustBudget, Goto
<1>5. ASSUME BeginRound(r)
      PROVE  Local /\ UNCHANGED <<stopper, stops>>
  BY <1>0, <1>5 DEF BeginRound, WriteOrFail, Goto
<1>6. ASSUME CollectRound(r) \/ Approve(r) \/ SendBack(r)
      PROVE  Local /\ UNCHANGED <<stopper, stops>>
  BY <1>0, <1>6 DEF CollectRound, Approve, SendBack, Goto
<1>7. ASSUME NEW i \in Indexes, NEW outcome \in Outcomes, EndAttempt(r, i, outcome)
      PROVE  Local /\ UNCHANGED <<stopper, stops>>
  BY <1>0, <1>7 DEF EndAttempt
<1>8. ASSUME NEW i \in Indexes, NEW grade \in 0 .. MaxRank, Review(r, i, grade)
      PROVE  Local /\ UNCHANGED <<stopper, stops>>
  BY <1>0, <1>8 DEF Review
<1>9. ASSUME OpenPullRequest(r) \/ RefusePullRequest(r) \/ RecordFailure(r) \/ FinishJob(r)
      PROVE  Local /\ UNCHANGED <<stopper, stops>>
  BY <1>0, <1>9 DEF OpenPullRequest, RefusePullRequest, RecordFailure, FinishJob, Goto
<1>10. ASSUME PruneBranches(r)
      PROVE  Local /\ UNCHANGED <<stopper, stops>>
  BY <1>0, <1>10 DEF PruneBranches, Goto
<1>11. ASSUME RunFault(r)
      PROVE  Local /\ UNCHANGED <<stopper, stops>>
  BY <1>0, <1>11 DEF RunFault, LoseReview, LoseAnswer, Err, Crash, Goto
<1>12. pc' \in [Runs -> Phases]
  BY TypeStep, TypeFault DEF TypeInv
<1> HIDE DEF Local
<1>13. Local /\ UNCHANGED <<stopper, stops>>
  BY <1>1, <1>2, <1>3, <1>4, <1>5, <1>6, <1>7, <1>8, <1>9, <1>10, <1>11 DEF RunStep, Local
<1> QED BY <1>12, <1>13 DEF Local

-----------------------------------------------------------------------------
(* Pull requests *)

\* A run only moves on, and only a delivering run opens a pull request.
LEMMA Onward ==
  ASSUME TypeInv, NEW r \in Runs, RunStep(r) \/ RunFault(r)
  PROVE  /\ Past \subseteq Past'
         /\ \/ prs' \subseteq prs
            \/ r \notin Past /\ r \in Past' /\ \E p : prs' = prs \cup {p}
<1> USE DEF storeVars, forgeVars, runVars, tally, history
<1> DEFINE Over == {"record", "failing", "prune", "over", "ended", "dead"}
           Goal == /\ pc[r] \in Over => pc'[r] \in Over
                   /\ \/ prs' \subseteq prs
                      \/ pc[r] \notin Over /\ pc'[r] \in Over /\ \E p : prs' = prs \cup {p}
<1>0. pc \in [Runs -> Phases]
  BY DEF TypeInv
<1>1. ASSUME Start(r) \/ EnterRound(r) \/ NoticeCancellation(r) \/ ExhaustBudget(r)
      PROVE  Goal
  BY <1>0, <1>1 DEF Start, EnterRound, NoticeCancellation, ExhaustBudget, Goto
<1>2. ASSUME BeginPlanning(r) \/ Plan(r) \/ BeginReviews(r) \/ RecordDelivery(r) \/ BeginRound(r)
      PROVE  Goal
  BY <1>0, <1>2 DEF BeginPlanning, Plan, BeginReviews, RecordDelivery, BeginRound, WriteOrFail, Goto
<1>3. ASSUME RoundWithoutSurvivor(r) \/ RoundWithoutReview(r) \/ RoundSentBack(r)
      PROVE  Goal
  BY <1>0, <1>3 DEF RoundWithoutSurvivor, RoundWithoutReview, RoundSentBack, ReviewsAreIn, CloseRound,
                    WriteOrFail, Goto
<1>4. ASSUME CollectRound(r) \/ Approve(r) \/ SendBack(r)
      PROVE  Goal
  BY <1>0, <1>4 DEF CollectRound, Approve, SendBack, ReviewsAreIn, Goto
<1>5. ASSUME NEW i \in Indexes, NEW outcome \in Outcomes, EndAttempt(r, i, outcome)
      PROVE  Goal
  BY <1>0, <1>5 DEF EndAttempt
<1>6. ASSUME NEW i \in Indexes, NEW grade \in 0 .. MaxRank, Review(r, i, grade)
      PROVE  Goal
  BY <1>0, <1>6 DEF Review
<1>7. ASSUME OpenPullRequest(r) \/ LoseAnswer(r)
      PROVE  Goal
  BY <1>0, <1>7 DEF OpenPullRequest, LoseAnswer, Goto
<1>8. ASSUME RefusePullRequest(r) \/ RecordFailure(r) \/ FinishJob(r)
      PROVE  Goal
  BY <1>0, <1>8 DEF RefusePullRequest, RecordFailure, FinishJob, Goto
<1>9. ASSUME PruneBranches(r)
      PROVE  Goal
  <2>1. prs' \subseteq prs
    BY <1>9 DEF PruneBranches
  <2>2. pc' = [pc EXCEPT ![r] = "over"]
    BY <1>9 DEF PruneBranches, Goto
  <2> QED BY <1>0, <2>1, <2>2
<1>10. ASSUME Err(r) \/ Crash(r) \/ (\E i \in Indexes : LoseReview(r, i))
       PROVE  Goal
  BY <1>0, <1>10 DEF Err, Crash, LoseReview, ReviewsAreIn, Goto
<1> HIDE DEF Goal
<1>11. Goal
  BY <1>1, <1>2, <1>3, <1>4, <1>5, <1>6, <1>7, <1>8, <1>9, <1>10 DEF RunStep, RunFault
<1>12. \A q \in Runs \ {r} : pc'[q] = pc[q]
  BY Frame
<1> QED BY <1>11, <1>12 DEF Goal, Past

\* The runs are finitely many.
LEMMA RunSets ==
  ASSUME NEW S, S \subseteq Runs
  PROVE  IsFiniteSet(S) /\ Cardinality(S) \in Nat
<1>1. IsFiniteSet(Runs)
  BY CountAssumption, FS_Interval DEF Runs
<1> QED BY <1>1, FS_Subset, FS_CardinalityType

\* A pull request more means a run more that has delivered.
LEMMA PullRequestsNext == TypeInv /\ PullRequestsPast /\ [Next]_vars => PullRequestsPast'
<1> SUFFICES ASSUME TypeInv, PullRequestsPast, [Next]_vars PROVE PullRequestsPast'
  OBVIOUS
<1>1. Past \subseteq Runs /\ Past' \subseteq Runs
  BY DEF Past
<1>2. IsFiniteSet(Past) /\ Cardinality(Past) \in Nat /\ IsFiniteSet(Past') /\ Cardinality(Past') \in Nat
  BY <1>1, RunSets
<1>3. IsFiniteSet(prs) /\ Cardinality(prs) \in Nat /\ Cardinality(prs) <= Cardinality(Past)
  BY FS_CardinalityType DEF PullRequestsPast
<1>4. ASSUME NEW r \in Runs, RunStep(r) \/ RunFault(r) PROVE PullRequestsPast'
  <2>1. Past \subseteq Past' /\ Cardinality(Past) <= Cardinality(Past')
    BY <1>2, <1>4, Onward, FS_Subset
  <2>2. CASE prs' \subseteq prs
    <3>1. IsFiniteSet(prs') /\ Cardinality(prs') <= Cardinality(prs)
      BY <1>3, <2>2, FS_Subset
    <3> QED BY <1>2, <1>3, <2>1, <3>1, FS_CardinalityType DEF PullRequestsPast
  <2>3. CASE ~ (prs' \subseteq prs)
    <3>1. PICK p : r \notin Past /\ r \in Past' /\ prs' = prs \cup {p}
      BY <1>4, <2>3, Onward
    <3>2. IsFiniteSet(prs') /\ Cardinality(prs') <= Cardinality(prs) + 1
      <4>1. IsFiniteSet(prs \cup {p}) /\ Cardinality(prs \cup {p}) <= Cardinality(prs) + 1
        BY <1>3, FS_AddElement
      <4> QED BY <3>1, <4>1
    <3>3. Cardinality(Past \cup {r}) = Cardinality(Past) + 1
      BY <1>2, <3>1, FS_AddElement
    <3>4. Past \cup {r} \subseteq Past'
      BY <2>1, <3>1
    <3>5. Cardinality(Past \cup {r}) <= Cardinality(Past')
      BY <1>2, <3>4, FS_Subset
    <3> QED BY <1>2, <1>3, <3>2, <3>3, <3>5, FS_CardinalityType DEF PullRequestsPast
  <2> QED BY <2>2, <2>3
<1>5. CASE prs' = prs /\ pc' = pc
  BY <1>5 DEF PullRequestsPast, Past
<1>6. CASE ReadForStop \/ WriteStop
  BY <1>5, <1>6 DEF ReadForStop, WriteStop, forgeVars, runVars
<1>7. CASE UNCHANGED vars
  BY <1>5, <1>7 DEF vars, forgeVars, runVars
<1> QED BY <1>4, <1>6, <1>7 DEF Next

\* Over a task's life no more pull requests are open than runs have begun, however often its
\* runs die, their leases run out, answers of the forge are lost or the branches are pruned.
THEOREM PullRequestsCorrect == Spec => []PullRequestsBounded
<1>1. Init => PullRequestsPast
  <2> SUFFICES ASSUME Init PROVE PullRequestsPast
    OBVIOUS
  <2>1. prs = {} /\ Past \subseteq Runs
    BY DEF Init, Past
  <2>2. IsFiniteSet(prs) /\ Cardinality(prs) = 0 /\ Cardinality(Past) \in Nat
    BY <2>1, FS_EmptySet, RunSets
  <2> QED BY <2>2 DEF PullRequestsPast
<1>2. TypeInv /\ PullRequestsPast => PullRequestsBounded
  <2> SUFFICES ASSUME TypeInv, PullRequestsPast PROVE PullRequestsBounded
    OBVIOUS
  <2> DEFINE Started == {r \in Runs : pc[r] # "off"}
  <2>1. Past \subseteq Started /\ Started \subseteq Runs /\ Past \subseteq Runs
    BY DEF Past
  <2>2. IsFiniteSet(Started) /\ Cardinality(Started) \in Nat /\ Cardinality(Past) \in Nat
    BY <2>1, RunSets
  <2>3. Cardinality(Past) <= Cardinality(Started)
    BY <2>1, <2>2, FS_Subset
  <2>4. Cardinality(prs) \in Nat /\ Cardinality(prs) <= Cardinality(Past)
    BY FS_CardinalityType DEF PullRequestsPast
  <2> QED BY <2>2, <2>3, <2>4 DEF PullRequestsBounded, RunsBegun
<1>3. Spec => []PullRequestsPast
  BY <1>1, TypeInvariance, PullRequestsNext, PTL DEF Spec
<1> QED BY <1>2, <1>3, TypeInvariance, PTL

-----------------------------------------------------------------------------
(* Spending *)

\* What Spending says of one run.
Thrifty(r) ==
  /\ Sound(mem[r])
  /\ pc[r] \in {"begin", "attempts"} => mem[r].spend <= MaxSpend
  /\ pc[r] \in {"planning", "plan"} => ~ mem[r].planned
  /\ pc[r] \in Entered \cup {"round"} => mem[r].planned
  /\ pc[r] \in {"attempts", "collected"} => Graded(r) = {}
  /\ pc[r] \in {"collected", "reviews"} => mem[r].spend <= MaxSpend + Attempts + Cardinality(Graded(r))

\* A step of a run keeps what the run, the row and a stop handler's copy have spent in bounds.
LEMMA SpendingStep ==
  ASSUME TypeInv, Spending, NEW r \in Runs, RunStep(r) \/ RunFault(r)
  PROVE  Spending'
<1> USE CountAssumption DEF storeVars, forgeVars, runVars, tally, history
<1> DEFINE Goal == Thrifty(r)' /\ Sound(row)'
<1>0. /\ pc \in [Runs -> Phases] /\ mem \in [Runs -> Task] /\ mem[r] \in Task /\ row \in Task
      /\ mem[r].spend \in Nat
  BY DEF TypeInv, TypeOK, Task
<1>S. Thrifty(r) /\ Sound(row) /\ Sound(mem[r])
  BY DEF Spending, Thrifty
<1>N. Graded(r) \subseteq Indexes /\ Cardinality(Graded(r)) \in Nat /\ Cardinality(Graded(r)) <= Attempts
      /\ IsFiniteSet(Graded(r))
  <2>1. Graded(r) \subseteq Indexes
    BY DEF Graded
  <2> QED BY <2>1, IndexSets
\* A write that may fail, of a copy that costs as much as before, to a phase with no bound of its own.
<1>W. ASSUME NEW to \in {"plan", "round", "prune"}, NEW task \in Task, mem' = [mem EXCEPT ![r] = task],
             WriteOrFail(r, to), Sound(task), to = "plan" => ~ task.planned,
             to = "round" => task.planned
      PROVE  Goal
  <2>1. mem'[r] = task
    BY <1>0, <1>W
  <2>2. (row' = task \/ row' = row) /\ pc'[r] \in {to, "failing"}
    BY <1>0, <1>W, <2>1 DEF WriteOrFail, Save, Goto
  <2> QED BY <1>S, <1>W, <2>1, <2>2 DEF Thrifty, Sound, Entered
\* A phase with no bound of its own, the copy unchanged.
<1>G. ASSUME mem'[r] = mem[r], row' = row, 
             pc'[r] \in {"failing", "prune", "over", "ended", "dead"}
      PROVE  Goal
  BY <1>S, <1>G DEF Thrifty, Sound, Entered
<1>1. ASSUME Start(r)
      PROVE  Goal
  <2>1. mem'[r] = row /\ row' = row /\ pc'[r] = IF row.planned THEN "round" ELSE "planning"
    BY <1>0, <1>1 DEF Start, Goto
  <2> QED BY <1>S, <2>1 DEF Thrifty, Sound, Entered
<1>2. ASSUME BeginPlanning(r)
      PROVE  Goal
  <2> DEFINE task == [mem[r] EXCEPT !.state = "planning"]
  <2>1. task \in Task /\ task.planned = mem[r].planned /\ task.spend = mem[r].spend
    BY <1>0 DEF Task, States
  <2>2. /\ mem' = [mem EXCEPT ![r] = task] /\ ~ mem[r].planned
        /\ WriteOrFail(r, "plan") \/ (row' = row /\ pc'[r] = "plan")
    BY <1>0, <1>2, <1>S DEF BeginPlanning, Thrifty, Goto
  <2> HIDE DEF task
  <2>3. Sound(task) /\ ~ task.planned
    BY <1>S, <2>1, <2>2 DEF Sound
  <2>4. CASE row' = row /\ pc'[r] = "plan"
    BY <1>0, <1>S, <2>2, <2>3, <2>4 DEF Thrifty, Sound, Entered
  <2> QED BY <2>1, <2>2, <2>3, <2>4, <1>W
<1>3. ASSUME Plan(r)
      PROVE  Goal
  <2> DEFINE known == [mem[r] EXCEPT !.planned = TRUE]
             task == [known EXCEPT !.spend = @ + 1]
  <2>1. ~ mem[r].planned /\ mem[r].spend = 0
    BY <1>3, <1>S DEF Plan, Thrifty, Sound
  <2>2. task \in Task /\ task.planned /\ task.spend = 1
    <3>1. known \in Task /\ known.spend = 0 /\ known.planned = TRUE
      BY <1>0, <2>1 DEF Task
    <3> HIDE DEF known
    <3> QED BY <3>1 DEF Task
  <2>3. mem' = [mem EXCEPT ![r] = task] /\ WriteOrFail(r, "round")
    BY <1>0, <1>3 DEF Plan
  <2> HIDE DEF task
  <2>4. Sound(task)
    BY <2>2 DEF Sound
  <2> QED BY <2>2, <2>3, <2>4, <1>W
<1>4. ASSUME EnterRound(r)
      PROVE  Goal
  <2>1. mem'[r] = mem[r] /\ row' = row /\ pc'[r] = "begin" /\ mem[r].spend <= MaxSpend
    BY <1>0, <1>4 DEF EnterRound, Goto
  <2>2. mem[r].planned
    BY <1>4, <1>S DEF EnterRound, Thrifty
  <2> QED BY <1>S, <2>1, <2>2 DEF Thrifty, Sound, Entered
<1>5. ASSUME NoticeCancellation(r)
      PROVE  Goal
  <2>1. mem'[r].spend = mem[r].spend /\ mem'[r].planned = mem[r].planned /\ row' = row /\ pc'[r] = "prune"
    BY <1>0, <1>5 DEF NoticeCancellation, Goto, Task
  <2> QED BY <1>S, <2>1 DEF Thrifty, Sound, Entered
<1>6. ASSUME ExhaustBudget(r) \/ RefusePullRequest(r) \/ FinishJob(r) \/ PruneBranches(r)
      PROVE  Goal
  BY <1>0, <1>6, <1>G DEF ExhaustBudget, RefusePullRequest, FinishJob, PruneBranches, Goto
<1>7. ASSUME BeginRound(r)
      PROVE  Goal
  <2>1. /\ mem'[r].spend = mem[r].spend /\ mem'[r].planned = mem[r].planned /\ pc'[r] \in {"attempts", "failing"}
        /\ row' = row \/ row' = mem'[r]
    BY <1>0, <1>7 DEF BeginRound, WriteOrFail, Save, Goto, Task
  <2>2. rank'[r] = NoRank
    BY <1>7 DEF BeginRound, TypeInv, TypeOK
  <2>3. Graded(r)' = {}
    BY <2>2 DEF Graded, NoRank
  <2>4. mem[r].spend <= MaxSpend /\ mem[r].planned
    BY <1>7, <1>S DEF BeginRound, Thrifty, Entered
  <2> QED BY <1>S, <2>1, <2>3, <2>4 DEF Thrifty, Sound, Entered
<1>8. ASSUME CollectRound(r)
      PROVE  Goal
  <2>1. Cardinality(Returned(r)) \in Nat /\ Cardinality(Returned(r)) <= Attempts
    BY IndexSets DEF Returned
  <2>2. /\ mem'[r].spend = mem[r].spend + Cardinality(Returned(r)) /\ mem'[r].planned = mem[r].planned
        /\ row' = row /\ pc'[r] = "collected" /\ rank' = rank
    BY <1>0, <1>8 DEF CollectRound, Goto, Task
  <2>3. mem[r].spend <= MaxSpend /\ Graded(r) = {} /\ Graded(r)' = {}
    BY <1>8, <1>S, <2>2 DEF CollectRound, Thrifty, Graded
  <2>4. mem'[r].spend <= MaxSpend + Attempts /\ mem'[r].spend <= MaxSpend + 2 * Attempts + 1
    BY <1>0, <2>1, <2>2, <2>3
  <2>5. mem[r].planned
    BY <1>8, <1>S DEF CollectRound, Thrifty, Entered
  <2> QED BY <1>0, <1>S, <2>2, <2>3, <2>4, <2>5, FS_EmptySet DEF Thrifty, Sound, Entered
<1>9. ASSUME RoundWithoutSurvivor(r) \/ RoundWithoutReview(r) \/ RoundSentBack(r)
      PROVE  Goal
  <2> DEFINE task == [mem[r] EXCEPT !.round = @ + 1]
  <2>1. pc[r] \in Entered /\ CloseRound(r)
    BY <1>9 DEF RoundWithoutSurvivor, RoundWithoutReview, RoundSentBack, ReviewsAreIn, Entered
  <2>2. mem' = [mem EXCEPT ![r] = task] /\ WriteOrFail(r, "round") /\ mem[r].planned
    BY <1>0, <1>S, <2>1 DEF CloseRound, Thrifty
  <2>3. task.spend = mem[r].spend /\ task.planned = mem[r].planned /\ task \in Task
    <3>1. mem[r].round + 1 \in 0 .. MaxRounds
      BY <1>0, <2>1 DEF TypeInv, Task
    <3> QED BY <1>0, <3>1 DEF Task
  <2> HIDE DEF task
  <2>4. Sound(task)
    BY <1>S, <2>3 DEF Sound
  <2> QED BY <2>2, <2>3, <2>4, <1>W
<1>10. ASSUME BeginReviews(r)
       PROVE  Goal
  <2>1. /\ mem'[r].spend = mem[r].spend /\ mem'[r].planned = mem[r].planned /\ pc'[r] \in {"reviews", "failing"}
        /\ row' = row \/ row' = mem'[r]
        /\ rank' = rank
    BY <1>0, <1>10 DEF BeginReviews, WriteOrFail, Save, Goto, Task
  <2>2. Graded(r)' = Graded(r) /\ pc[r] = "collected"
    BY <1>10, <2>1 DEF BeginReviews, Graded
  <2> QED BY <1>S, <2>1, <2>2 DEF Thrifty, Sound, Entered
<1>11. ASSUME NEW i \in Indexes, NEW outcome \in Outcomes, EndAttempt(r, i, outcome)
       PROVE  Goal
  <2>1. pc' = pc /\ mem' = mem /\ row' = row /\ rank' = rank
    BY <1>11 DEF EndAttempt
  <2>2. Graded(r)' = Graded(r)
    BY <2>1 DEF Graded
  <2> QED BY <1>S, <2>1, <2>2 DEF Thrifty, Sound
<1>12. ASSUME NEW i \in Indexes, NEW grade \in 0 .. MaxRank, Review(r, i, grade)
       PROVE  Goal
  <2>1. pc[r] = "reviews" /\ pc' = pc /\ row' = row /\ rank' = [rank EXCEPT ![r][i] = grade] /\ rank[r][i] = None
    BY <1>12 DEF Review
  <2>2. PICK cost \in {0, 1} : mem' = [mem EXCEPT ![r].spend = @ + cost]
    BY <1>12 DEF Review
  <2>3. mem'[r].spend = mem[r].spend + cost /\ mem'[r].planned = mem[r].planned
    BY <1>0, <2>2 DEF Task
  <2>4. Graded(r)' = Graded(r) \cup {i} /\ i \notin Graded(r)
    <3>1. rank'[r] = [rank[r] EXCEPT ![i] = grade] /\ rank[r] \in [Indexes -> 0 .. MaxRank \cup {None}]
      BY <2>1 DEF TypeInv, TypeOK
    <3>2. grade # None
      BY NoneAssumption
    <3> QED BY <2>1, <3>1, <3>2 DEF Graded
  <2>5. Cardinality(Graded(r)') = Cardinality(Graded(r)) + 1 /\ Cardinality(Graded(r)') <= Attempts
    <3>1. Cardinality(Graded(r) \cup {i}) = Cardinality(Graded(r)) + 1
      BY <1>N, <2>4, FS_AddElement
    <3>2. Cardinality(Graded(r) \cup {i}) <= Attempts
      BY <1>N, IndexSets
    <3> QED BY <2>4, <3>1, <3>2
  <2>6. mem[r].spend <= MaxSpend + Attempts + Cardinality(Graded(r)) /\ mem[r].planned
    BY <2>1, <1>S DEF Thrifty, Entered
  <2>7. /\ mem'[r].spend <= MaxSpend + Attempts + (Cardinality(Graded(r)) + 1)
        /\ mem'[r].spend <= MaxSpend + 2 * Attempts + 1
    BY <1>0, <1>N, <2>3, <2>5, <2>6
  <2>8. Cardinality(Graded(r))' = Cardinality(Graded(r)')
    BY DEF Graded
  <2> QED BY <1>S, <2>1, <2>3, <2>5, <2>6, <2>7, <2>8 DEF Thrifty, Sound, Entered
<1>13. ASSUME Approve(r) \/ SendBack(r)
       PROVE  Goal
  <2>1. /\ pc[r] = "reviews" /\ pc'[r] \in {"deliver", "record", "sentback"} /\ row' = row
        /\ mem' = [mem EXCEPT ![r].spend = @ + 1]
    BY <1>0, <1>13 DEF Approve, SendBack, ReviewsAreIn, Goto
  <2>2. mem'[r].spend = mem[r].spend + 1 /\ mem'[r].planned = mem[r].planned
    BY <1>0, <2>1 DEF Task
  <2>3. mem[r].spend <= MaxSpend + Attempts + Cardinality(Graded(r)) /\ mem[r].planned
    BY <2>1, <1>S DEF Thrifty, Entered
  <2>4. mem'[r].spend <= MaxSpend + 2 * Attempts + 1
    BY <1>0, <1>N, <2>2, <2>3
  <2> QED BY <1>S, <2>1, <2>2, <2>3, <2>4 DEF Thrifty, Sound
<1>14. ASSUME OpenPullRequest(r)
       PROVE  Goal
  <2>1. /\ mem'[r].spend = mem[r].spend /\ mem'[r].planned = mem[r].planned /\ row' = row
        /\ pc[r] = "deliver" /\ pc'[r] = "record"
    BY <1>0, <1>14 DEF OpenPullRequest, Goto, Task
  <2> QED BY <1>S, <2>1 DEF Thrifty, Sound, Entered
<1>15. ASSUME RecordDelivery(r) \/ RecordFailure(r)
       PROVE  Goal
  <2>1. /\ mem'[r].spend = mem[r].spend /\ mem'[r].planned = mem[r].planned
        /\ row' = row \/ row' = mem'[r]
        /\ pc'[r] \in {"prune", "failing"}
    BY <1>0, <1>15 DEF RecordDelivery, RecordFailure, WriteOrFail, Save, Goto, Task
  <2> QED BY <1>S, <2>1 DEF Thrifty, Sound, Entered
<1>16. ASSUME NEW i \in Indexes, LoseReview(r, i)
       PROVE  Goal
  <2>1. pc' = pc /\ mem' = mem /\ row' = row /\ rank' = rank
    BY <1>16 DEF LoseReview
  <2>2. Graded(r)' = Graded(r)
    BY <2>1 DEF Graded
  <2> QED BY <1>S, <2>1, <2>2 DEF Thrifty, Sound
<1>17. ASSUME LoseAnswer(r) \/ Err(r) \/ Crash(r)
       PROVE  Goal
  BY <1>0, <1>17, <1>G DEF LoseAnswer, Err, Crash, Goto
<1> HIDE DEF Goal
<1>18. Goal
  BY <1>1, <1>2, <1>3, <1>4, <1>5, <1>6, <1>7, <1>8, <1>9, <1>10, <1>11, <1>12, <1>13, <1>14, <1>15, <1>16, <1>17
     DEF RunStep, RunFault
<1>19. ASSUME NEW q \in Runs \ {r} PROVE Thrifty(q)'
  <2>1. pc'[q] = pc[q] /\ mem'[q] = mem[q] /\ rank'[q] = rank[q]
    BY Frame
  <2>2. Thrifty(q) /\ Graded(q)' = Graded(q)
    BY <2>1 DEF Spending, Thrifty, Graded
  <2> QED BY <2>1, <2>2 DEF Thrifty, Sound
<1>20. stopper' # None => Sound(stopper)'
  <2>1. stopper' = stopper
    BY Frame
  <2> QED BY <2>1 DEF Spending, Sound
<1>21. Sound(row)' /\ \A q \in Runs : Thrifty(q)'
  BY <1>18, <1>19 DEF Goal
<1> HIDE DEF Goal
<1> QED BY <1>20, <1>21 DEF Spending, Thrifty

\* The same for every step of the system.
LEMMA SpendingNext == TypeInv /\ Spending /\ [Next]_vars => Spending'
<1> SUFFICES ASSUME TypeInv, Spending, [Next]_vars PROVE Spending'
  OBVIOUS
<1>1. CASE UNCHANGED <<row, stopper, pc, mem, rank>>
  BY <1>1 DEF Spending, Sound, Graded
<1>2. ASSUME ReadForStop \/ WriteStop PROVE Spending'
  <2>1. UNCHANGED <<pc, mem, rank>>
    BY <1>2 DEF ReadForStop, WriteStop, runVars
  <2>2. Sound(row)' /\ (stopper' # None => Sound(stopper)')
    <3>1. CASE ReadForStop
      BY <3>1 DEF ReadForStop, Spending, Sound, storeVars
    <3>2. CASE WriteStop
      <4>1. stopper \in Task /\ Sound(stopper)
        BY <3>2 DEF WriteStop, TypeInv, TypeOK, Spending
      <4>2. row'.spend = stopper.spend /\ row'.planned = stopper.planned /\ stopper' = None
        BY <3>2, <4>1 DEF WriteStop, Save, Task
      <4> QED BY <4>1, <4>2 DEF Sound
    <3> QED BY <1>2, <3>1, <3>2
  <2> QED BY <2>1, <2>2 DEF Spending, Sound, Graded
<1>3. CASE UNCHANGED vars
  BY <1>1, <1>3 DEF vars, storeVars, runVars
<1> QED BY <1>2, <1>3, SpendingStep DEF Next

\* No run's copy ever shows more than the ceiling and what one more round of attempts, reviews and
\* an arbiter costs: the budget is checked at the top of a round only, and a run starts from
\* whatever an earlier one, or a stop, has left in the row.
LEMMA SpendingInvariance == Spec => []Spending
<1>1. Init => Spending
  <2> SUFFICES ASSUME Init PROVE Spending
    OBVIOUS
  <2>1. /\ row.spend = 0 /\ ~ row.planned /\ stopper = None
        /\ \A r \in Runs : pc[r] = "off" /\ mem[r] = row
    BY DEF Init
  <2>2. Sound(row)
    BY <2>1, CountAssumption DEF Sound
  <2> QED BY <2>1, <2>2 DEF Spending, Entered
<1> QED BY <1>1, TypeInvariance, SpendingNext, PTL DEF Spec

-----------------------------------------------------------------------------
(* One run at a time: what follows holds when no lease runs out under a live run *)

\* Who steps is neither dead nor done, is not off afterwards, begins only after the dead, and dies
\* only by a crash.
LEMMA Moves ==
  ASSUME TypeInv, NEW r \in Runs, RunStep(r) \/ RunFault(r)
  PROVE  /\ pc[r] \notin {"ended", "dead"} /\ pc'[r] # "off"
         /\ pc[r] = "off" => Start(r) /\ \A q \in Runs : q < r => pc[q] = "dead" \/ Overlap
         /\ pc'[r] = "dead" => Crash(r)
<1> DEFINE Goal ==
         /\ pc[r] \notin {"ended", "dead"} /\ pc'[r] # "off"
         /\ pc[r] = "off" => Start(r) /\ \A q \in Runs : q < r => pc[q] = "dead" \/ Overlap
         /\ pc'[r] = "dead" => Crash(r)
<1>0. pc \in [Runs -> Phases]
  BY DEF TypeInv
<1>1. ASSUME Start(r)
      PROVE  Goal
  BY <1>0, <1>1 DEF Start, Goto
<1>2. ASSUME EnterRound(r) \/ NoticeCancellation(r) \/ ExhaustBudget(r) \/ RefusePullRequest(r)
             \/ RecordFailure(r) \/ PruneBranches(r) \/ FinishJob(r) \/ OpenPullRequest(r)
      PROVE  Goal
  BY <1>0, <1>2 DEF EnterRound, NoticeCancellation, ExhaustBudget, RefusePullRequest, RecordFailure,
                    PruneBranches, FinishJob, OpenPullRequest, Goto
<1>3. ASSUME BeginPlanning(r) \/ Plan(r) \/ BeginReviews(r) \/ RecordDelivery(r) \/ BeginRound(r)
      PROVE  Goal
  BY <1>0, <1>3 DEF BeginPlanning, Plan, BeginReviews, RecordDelivery, BeginRound, WriteOrFail, Goto
<1>4. ASSUME RoundWithoutSurvivor(r) \/ RoundWithoutReview(r) \/ RoundSentBack(r)
      PROVE  Goal
  BY <1>0, <1>4 DEF RoundWithoutSurvivor, RoundWithoutReview, RoundSentBack, ReviewsAreIn, CloseRound,
                    WriteOrFail, Goto
<1>5. ASSUME CollectRound(r) \/ Approve(r) \/ SendBack(r)
      PROVE  Goal
  BY <1>0, <1>5 DEF CollectRound, Approve, SendBack, ReviewsAreIn, Goto
<1>6. ASSUME NEW i \in Indexes, NEW outcome \in Outcomes, EndAttempt(r, i, outcome)
      PROVE  Goal
  BY <1>0, <1>6 DEF EndAttempt
<1>7. ASSUME NEW i \in Indexes, NEW grade \in 0 .. MaxRank, Review(r, i, grade)
      PROVE  Goal
  BY <1>0, <1>7 DEF Review
<1>8. ASSUME LoseAnswer(r) \/ Err(r) \/ Crash(r) \/ (\E i \in Indexes : LoseReview(r, i))
      PROVE  Goal
  BY <1>0, <1>8 DEF LoseAnswer, Err, Crash, LoseReview, ReviewsAreIn, Goto
<1> HIDE DEF Goal
<1>9. Goal
  BY <1>1, <1>2, <1>3, <1>4, <1>5, <1>6, <1>7, <1>8 DEF RunStep, RunFault
<1> QED BY <1>9 DEF Goal

\* The others are dead or have not begun.
LEMMA Alone ==
  ASSUME TypeInv, OneAtATime, ~ Overlap, NEW r \in Runs, RunStep(r) \/ RunFault(r)
  PROVE  /\ \A q \in Runs : q < r => pc[q] = "dead" /\ pc'[q] = "dead"
         /\ \A q \in Runs : q > r => pc[q] = "off" /\ pc'[q] = "off"
         /\ OneAtATime'
<1>1. /\ pc[r] \notin {"ended", "dead"} /\ pc'[r] # "off"
      /\ pc[r] = "off" => \A q \in Runs : q < r => pc[q] = "dead"
  BY Moves
<1>2. \A q \in Runs : q \in Int
  BY DEF Runs
<1>3. \A q \in Runs : q < r => pc[q] = "dead"
  BY <1>1 DEF OneAtATime
<1>4. \A q \in Runs : q > r => pc[q] = "off"
  BY <1>1, <1>2 DEF OneAtATime
<1>5. \A q \in Runs \ {r} : pc'[q] = pc[q]
  BY Frame
<1>6. \A q \in Runs : (q < r => pc'[q] = "dead") /\ (q > r => pc'[q] = "off")
  BY <1>2, <1>3, <1>4, <1>5
<1>7. OneAtATime'
  <2> SUFFICES ASSUME NEW p \in Runs, NEW q \in Runs, p < q, pc'[q] # "off" PROVE pc'[p] = "dead"
    BY DEF OneAtATime
  <2>1. q <= r
    BY <1>2, <1>6
  <2>2. p < r
    BY <1>2, <2>1
  <2> QED BY <1>6, <2>2
<1> QED BY <1>3, <1>4, <1>6, <1>7

\* What is always so when runs do not overlap.
Single == TypeInv /\ OneAtATime /\ ~ Overlap

\* It is invariant.
LEMMA SingleInvariance == ~ Overlap /\ Spec => []Single
<1>1. ~ Overlap /\ Init => Single
  <2> SUFFICES ASSUME ~ Overlap, Init PROVE Single
    OBVIOUS
  <2>1. \A r \in Runs : pc[r] = "off"
    BY DEF Init
  <2> QED BY <2>1, TypeInit DEF Single, OneAtATime
<1>2. Single /\ [Next]_vars => Single'
  <2> SUFFICES ASSUME Single, [Next]_vars PROVE Single'
    OBVIOUS
  <2>1. TypeInv'
    BY TypeNext DEF Single
  <2>2. OneAtATime'
    <3>1. CASE pc' = pc
      BY <3>1 DEF Single, OneAtATime
    <3>2. CASE ReadForStop \/ WriteStop \/ UNCHANGED vars
      BY <3>1, <3>2 DEF ReadForStop, WriteStop, vars, runVars
    <3>3. ASSUME NEW r \in Runs, RunStep(r) \/ RunFault(r) PROVE OneAtATime'
      BY <3>3, Alone DEF Single
    <3> QED BY <3>2, <3>3 DEF Next
  <2> QED BY <2>1, <2>2 DEF Single
<1> QED BY <1>1, <1>2, PTL DEF Spec

-----------------------------------------------------------------------------
(* How a task ends *)

\* A run writes how the task ended before it prunes, and no other run writes after that.
LEMMA SettlingStep ==
  ASSUME Single, Settling, NEW r \in Runs, RunStep(r) \/ RunFault(r)
  PROVE  Settling'
<1> USE DEF storeVars, forgeVars, runVars, tally, history
<1> DEFINE Final == {"prune", "over", "ended"}
           Settled == rowLost \/ row.state \in Terminal
           Goal == /\ job' = job \/ pc'[r] = "ended"
                   /\ pc'[r] \in Final => Settled'
<1>0. pc \in [Runs -> Phases] /\ mem \in [Runs -> Task] /\ mem[r] \in Task
  BY DEF Single, TypeInv, TypeOK
<1>1. ASSUME Start(r) \/ EnterRound(r) \/ ExhaustBudget(r) \/ RefusePullRequest(r) \/ OpenPullRequest(r)
      PROVE  Goal
  BY <1>0, <1>1 DEF Start, EnterRound, ExhaustBudget, RefusePullRequest, OpenPullRequest, Goto
<1>2. ASSUME BeginPlanning(r) \/ Plan(r) \/ BeginReviews(r) \/ BeginRound(r)
      PROVE  Goal
  BY <1>0, <1>2 DEF BeginPlanning, Plan, BeginReviews, BeginRound, WriteOrFail, Goto
<1>3. ASSUME RoundWithoutSurvivor(r) \/ RoundWithoutReview(r) \/ RoundSentBack(r)
      PROVE  Goal
  BY <1>0, <1>3 DEF RoundWithoutSurvivor, RoundWithoutReview, RoundSentBack, CloseRound, WriteOrFail, Goto
<1>4. ASSUME CollectRound(r) \/ Approve(r) \/ SendBack(r)
      PROVE  Goal
  BY <1>0, <1>4 DEF CollectRound, Approve, SendBack, Goto
<1>5. ASSUME NEW i \in Indexes, NEW outcome \in Outcomes, EndAttempt(r, i, outcome)
      PROVE  Goal
  BY <1>0, <1>5 DEF EndAttempt
<1>6. ASSUME NEW i \in Indexes, NEW grade \in 0 .. MaxRank, Review(r, i, grade)
      PROVE  Goal
  BY <1>0, <1>6 DEF Review
<1>7. ASSUME LoseAnswer(r) \/ Err(r) \/ Crash(r) \/ (\E i \in Indexes : LoseReview(r, i))
      PROVE  Goal
  BY <1>0, <1>7 DEF LoseAnswer, Err, Crash, LoseReview, Goto
<1>8. ASSUME NoticeCancellation(r)
      PROVE  Goal
  BY <1>0, <1>8 DEF NoticeCancellation, Goto, Terminal
<1>9. ASSUME RecordDelivery(r) \/ RecordFailure(r)
      PROVE  Goal
  <2>1. /\ job' = job
        /\ \/ row' = mem'[r] /\ mem'[r].state \in {"awaiting_human", "failed"}
           \/ rowLost' = TRUE
           \/ pc'[r] = "failing"
    BY <1>0, <1>9 DEF RecordDelivery, RecordFailure, WriteOrFail, Save, Goto, Task
  <2> QED BY <2>1 DEF Terminal
<1>10. ASSUME PruneBranches(r) \/ FinishJob(r)
       PROVE  Goal
  <2>1. pc[r] \in Final /\ row' = row /\ rowLost' = rowLost /\ (job' = job \/ pc'[r] = "ended")
    BY <1>0, <1>10 DEF PruneBranches, FinishJob, Goto
  <2> QED BY <2>1 DEF Settling
<1> HIDE DEF Goal
<1>11. Goal
  BY <1>1, <1>2, <1>3, <1>4, <1>5, <1>6, <1>7, <1>8, <1>9, <1>10 DEF RunStep, RunFault
<1>12. pc[r] # "ended" /\ \A q \in Runs \ {r} : pc'[q] \in {"dead", "off"} /\ pc'[q] = pc[q]
  <2>1. \A q \in Runs \ {r} : q < r \/ q > r
    BY DEF Runs
  <2> QED BY <2>1, Alone, Frame, Moves DEF Single
<1>13. (~ job)' => \E q \in Runs : pc'[q] = "ended"
  BY <1>11, <1>12 DEF Settling, Goal
<1>14. \A q \in Runs : pc'[q] \in Final => Settled'
  BY <1>11, <1>12 DEF Goal
<1> QED BY <1>13, <1>14 DEF Settling

\* A task whose job has left the queue says in its row how it ended, unless the write of a failure was
\* lost: nothing would look at it again.
THEOREM SettledCorrect == ~ Overlap /\ Spec => []SettledWhenJobIsGone
<1>1. Init => Settling
  BY DEF Init, Settling
<1>2. Single /\ Settling /\ [Next]_vars => Settling'
  <2> SUFFICES ASSUME Single, Settling, [Next]_vars PROVE Settling'
    OBVIOUS
  <2>1. CASE ReadForStop \/ UNCHANGED vars
    BY <2>1 DEF ReadForStop, vars, storeVars, runVars, tally, history, Settling
  <2>2. CASE WriteStop
    <3>1. stopper \in Task
      BY <2>2 DEF WriteStop, Single, TypeInv, TypeOK
    <3>2. row'.state = "cancelled" /\ job' = job /\ pc' = pc
      BY <2>2, <3>1 DEF WriteStop, Save, runVars, Task
    <3> QED BY <3>2 DEF Settling, Terminal
  <2> QED BY <2>1, <2>2, SettlingStep DEF Next
<1>3. Settling => SettledWhenJobIsGone
  BY DEF Settling, SettledWhenJobIsGone
<1> QED BY <1>1, <1>2, <1>3, SingleInvariance, PTL DEF Spec

-----------------------------------------------------------------------------
(* Whose patch is where *)

\* What Pushed says of one run, and that it shows what it delivers.
Late == {"deliver", "record", "failing", "prune", "over", "ended", "dead"}
Shown(r) ==
  /\ pc[r] \in Phases \ Late => winner[r] = None
  /\ pc[r] \in Underway => \A i \in Indexes : work[r][i] = "pushed" => remote[BranchOf(r, i)] = IdOf(r, i)
  /\ pc[r] = "record" /\ HasForge /\ work[r][winner[r]] = "pushed" =>
       \E p \in prs : p.head = Head(r) /\ p.shown = IdOf(r, winner[r])

\* A step keeps every pushed attempt of the round under way on its branch.
LEMMA ShownStep ==
  ASSUME Single, \A q \in Runs : Shown(q), NEW r \in Runs, RunStep(r) \/ RunFault(r)
  PROVE  \A q \in Runs : Shown(q)'
<1> USE DEF storeVars, forgeVars, runVars, tally, history
<1> DEFINE Goal == Shown(r)'
<1>0. /\ TypeInv /\ pc \in [Runs -> Phases] /\ mem \in [Runs -> Task] /\ mem[r] \in Task
      /\ work \in [Runs -> [Indexes -> Outcomes \cup {"pending"}]] /\ winner \in [Runs -> Indexes \cup {None}]
      /\ remote \in [Branches -> AttemptIds \cup {None}]
  BY DEF Single, TypeInv, TypeOK
<1>S. Shown(r)
  OBVIOUS
\* The run is in no round afterwards, and has no winner unless it is late.
<1>G. ASSUME winner'[r] = winner[r], pc'[r] \in Phases \ Underway, pc[r] \in Phases \ Late \/ pc'[r] \in Late
      PROVE  Goal
  BY <1>S, <1>G DEF Shown, Underway, Entered
\* The run stays in its round, where nobody else can touch its branches.
<1>R. ASSUME winner'[r] = winner[r], pc[r] \in Underway, pc'[r] \in Underway \ Late, mem'[r].round = mem[r].round,
             pc[r] \notin Late, remote' = remote, \A i \in Indexes : work'[r][i] \in {work[r][i], "panicked"}
      PROVE  Goal
  <2>1. \A i \in Indexes : BranchOf(r, i)' = BranchOf(r, i) /\ IdOf(r, i)' = IdOf(r, i)
    BY <1>R DEF BranchOf, IdOf
  <2>2. pc[r] \in Phases \ Late
    BY <1>0, <1>R
  <2>3. winner'[r] = None
    BY <1>R, <1>S, <2>2 DEF Shown
  <2>4. ASSUME NEW i \in Indexes, work'[r][i] = "pushed" PROVE (remote[BranchOf(r, i)] = IdOf(r, i))'
    <3>1. work[r][i] = "pushed"
      BY <1>R, <2>4
    <3>2. remote[BranchOf(r, i)] = IdOf(r, i)
      BY <1>R, <1>S, <3>1 DEF Shown
    <3> QED BY <1>R, <2>1, <3>2
  <2>5. pc'[r] # "record"
    BY <1>R DEF Late
  <2> QED BY <2>3, <2>4, <2>5 DEF Shown
<1>1. ASSUME Start(r) \/ EnterRound(r) \/ NoticeCancellation(r) \/ ExhaustBudget(r) \/ RefusePullRequest(r)
             \/ RecordFailure(r) \/ PruneBranches(r) \/ FinishJob(r)
      PROVE  Goal
  <2>1. winner' = winner /\ (pc[r] \in Phases \ Late \/ pc'[r] \in Late)
        /\ pc'[r] \in {"round", "planning", "begin", "failing", "prune", "over", "ended"}
    BY <1>0, <1>1 DEF Start, EnterRound, NoticeCancellation, ExhaustBudget, RefusePullRequest, RecordFailure,
                      PruneBranches, FinishJob, Goto, Late, Phases
  <2> QED BY <1>G, <2>1 DEF Underway, Entered, Phases
<1>2. ASSUME BeginPlanning(r) \/ Plan(r) \/ RecordDelivery(r)
      PROVE  Goal
  <2>1. winner' = winner /\ (pc[r] \in Phases \ Late \/ pc'[r] \in Late)
        /\ pc'[r] \in {"plan", "round", "prune", "failing"}
    BY <1>0, <1>2 DEF BeginPlanning, Plan, RecordDelivery, WriteOrFail, Goto, Late, Phases
  <2> QED BY <1>G, <2>1 DEF Underway, Entered, Phases
<1>3. ASSUME RoundWithoutSurvivor(r) \/ RoundWithoutReview(r) \/ RoundSentBack(r)
      PROVE  Goal
  <2>1. winner' = winner /\ pc[r] \in Phases \ Late /\ pc'[r] \in {"round", "failing"}
    BY <1>0, <1>3 DEF RoundWithoutSurvivor, RoundWithoutReview, RoundSentBack, ReviewsAreIn, CloseRound,
                      WriteOrFail, Goto, Late, Phases
  <2> QED BY <1>G, <2>1 DEF Underway, Entered, Phases
<1>4. ASSUME BeginRound(r)
      PROVE  Goal
  <2>1. winner' = winner /\ pc[r] \in Phases \ Late /\ pc'[r] \in {"attempts", "failing"}
    BY <1>0, <1>4 DEF BeginRound, WriteOrFail, Goto, Late, Phases
  <2>2. work'[r] = NoWork
    BY <1>0, <1>4 DEF BeginRound
  <2>3. \A i \in Indexes : work'[r][i] # "pushed"
    BY <2>2 DEF NoWork
  <2> QED BY <1>S, <2>1, <2>3 DEF Shown, Underway, Entered
<1>5. ASSUME CollectRound(r) \/ SendBack(r)
      PROVE  Goal
  <2>1. /\ winner' = winner /\ remote' = remote /\ work' = work /\ mem'[r].round = mem[r].round
        /\ pc[r] \in {"attempts", "reviews"} /\ pc'[r] \in {"collected", "sentback"}
    BY <1>0, <1>5 DEF CollectRound, SendBack, ReviewsAreIn, Goto, Task
  <2> QED BY <1>R, <2>1 DEF Underway, Entered, Late
<1>6. ASSUME BeginReviews(r)
      PROVE  Goal
  <2>1. /\ winner' = winner /\ remote' = remote /\ work' = work /\ mem'[r].round = mem[r].round
        /\ pc[r] = "collected" /\ pc'[r] \in {"reviews", "failing"}
    BY <1>0, <1>6 DEF BeginReviews, WriteOrFail, Goto, Task
  <2> QED BY <1>R, <1>G, <2>1 DEF Underway, Entered, Late, Phases
<1>7. ASSUME NEW i \in Indexes, NEW grade \in 0 .. MaxRank, Review(r, i, grade)
      PROVE  Goal
  <2>1. /\ winner' = winner /\ remote' = remote /\ work' = work /\ pc' = pc /\ pc[r] = "reviews"
        /\ \E cost \in {0, 1} : mem' = [mem EXCEPT ![r].spend = @ + cost]
    BY <1>7 DEF Review
  <2>2. mem'[r].round = mem[r].round
    BY <1>0, <2>1 DEF Task
  <2> QED BY <1>R, <2>1, <2>2 DEF Underway, Entered, Late
<1>8. ASSUME NEW i \in Indexes, LoseReview(r, i)
      PROVE  Goal
  <2>1. /\ winner' = winner /\ remote' = remote /\ pc' = pc /\ pc[r] = "reviews" /\ mem' = mem
        /\ work' = [work EXCEPT ![r][i] = "panicked"]
    BY <1>8 DEF LoseReview
  <2>2. \A k \in Indexes : work'[r][k] \in {work[r][k], "panicked"}
    BY <1>0, <2>1
  <2> QED BY <1>R, <2>1, <2>2 DEF Underway, Entered, Late
<1>9. ASSUME NEW i \in Indexes, NEW outcome \in Outcomes, EndAttempt(r, i, outcome)
      PROVE  Goal
  <2>1. /\ winner' = winner /\ pc' = pc /\ pc[r] = "attempts" /\ mem' = mem
        /\ work' = [work EXCEPT ![r][i] = outcome]
        /\ remote' = [remote EXCEPT ![BranchOf(r, i)] = IdOf(r, i)] \/ (outcome # "pushed" /\ remote' = remote)
    BY <1>9 DEF EndAttempt
  <2>2. winner'[r] = None
    BY <1>S, <2>1 DEF Shown, Phases, Late
  <2>3. \A k \in Indexes : BranchOf(r, k)' = BranchOf(r, k) /\ IdOf(r, k)' = IdOf(r, k)
    BY <2>1 DEF BranchOf, IdOf
  <2>4. ASSUME NEW k \in Indexes, work'[r][k] = "pushed" PROVE (remote[BranchOf(r, k)] = IdOf(r, k))'
    <3>1. BranchOf(r, i) \in Branches
      BY <1>0, <2>1, IdType DEF Entered
    <3>2. CASE k = i
      <4>1. outcome = "pushed"
        BY <1>0, <2>1, <2>4, <3>2
      <4> QED BY <1>0, <2>1, <2>3, <3>1, <3>2, <4>1
    <3>3. CASE k # i
      <4>1. work[r][k] = "pushed"
        BY <1>0, <2>1, <2>4, <3>3
      <4>2. remote[BranchOf(r, k)] = IdOf(r, k)
        BY <1>S, <2>1, <4>1 DEF Shown, Underway, Entered
      <4>3. BranchOf(r, k) # BranchOf(r, i)
        BY <3>3 DEF BranchOf
      <4>4. BranchOf(r, k) \in Branches
        BY <1>0, <2>1, IdType DEF Entered
      <4>5. remote'[BranchOf(r, k)] = remote[BranchOf(r, k)]
        BY <1>0, <2>1, <4>3, <4>4
      <4> QED BY <2>3, <4>2, <4>5
    <3> QED BY <3>2, <3>3
  <2> QED BY <2>1, <2>2, <2>4 DEF Shown
<1>10. ASSUME Approve(r)
       PROVE  Goal
  <2>1. /\ pc[r] = "reviews" /\ pc'[r] = (IF HasForge THEN "deliver" ELSE "record")
        /\ remote' = remote /\ work' = work /\ mem'[r].round = mem[r].round
    BY <1>0, <1>10 DEF Approve, ReviewsAreIn, Goto, Task
  <2>2. \A i \in Indexes : BranchOf(r, i)' = BranchOf(r, i) /\ IdOf(r, i)' = IdOf(r, i)
    BY <2>1 DEF BranchOf, IdOf
  <2>3. \A i \in Indexes : work[r][i] = "pushed" => remote[BranchOf(r, i)] = IdOf(r, i)
    BY <1>S, <2>1 DEF Shown, Underway, Entered
  <2>4. \A i \in Indexes : (work[r][i] = "pushed" => remote[BranchOf(r, i)] = IdOf(r, i))'
    BY <2>1, <2>2, <2>3
  <2> QED BY <2>1, <2>4 DEF Shown, Late
<1>11. ASSUME OpenPullRequest(r)
       PROVE  Goal
  <2>1. /\ pc[r] = "deliver" /\ pc'[r] = "record" /\ winner' = winner
        /\ remote' = remote /\ work' = work /\ mem'[r].round = mem[r].round
        /\ prs' = prs \cup {[head |-> Head(r), shown |-> remote[Head(r)]]}
    BY <1>0, <1>11 DEF OpenPullRequest, Goto, Task
  <2>2. \A i \in Indexes : BranchOf(r, i)' = BranchOf(r, i) /\ IdOf(r, i)' = IdOf(r, i)
    BY <2>1 DEF BranchOf, IdOf
  <2>3. \A i \in Indexes : work[r][i] = "pushed" => remote[BranchOf(r, i)] = IdOf(r, i)
    BY <1>S, <2>1 DEF Shown, Underway, Entered
  <2>4. \A i \in Indexes : (work[r][i] = "pushed" => remote[BranchOf(r, i)] = IdOf(r, i))'
    BY <2>1, <2>2, <2>3
  <2>5. winner[r] \in Indexes /\ Head(r)' = Head(r) /\ IdOf(r, winner[r])' = IdOf(r, winner[r])
    BY <1>0, <2>1 DEF TypeInv, Head, IdOf, BranchOf
  <2>6. work[r][winner[r]] = "pushed" => remote[Head(r)] = IdOf(r, winner[r])
    BY <2>3, <2>5 DEF Head
  <2>7. work[r][winner[r]] = "pushed" =>
          \E p \in prs' : p.head = Head(r) /\ p.shown = IdOf(r, winner[r])
    <3>1. [head |-> Head(r), shown |-> remote[Head(r)]] \in prs'
      BY <2>1
    <3> QED BY <2>6, <3>1
  <2>8. (work[r][winner[r]] = "pushed" =>
          \E p \in prs : p.head = Head(r) /\ p.shown = IdOf(r, winner[r]))'
    BY <2>1, <2>5, <2>7
  <2> QED BY <2>1, <2>4, <2>8 DEF Shown, Late
<1>12. ASSUME LoseAnswer(r) \/ Err(r) \/ Crash(r)
       PROVE  Goal
  <2>1. winner' = winner /\ pc'[r] \in {"failing", "dead"}
    BY <1>0, <1>12 DEF LoseAnswer, Err, Crash, Goto
  <2> QED BY <1>G, <2>1 DEF Underway, Entered, Late, Phases
<1> HIDE DEF Goal
<1>13. Goal
  BY <1>1, <1>2, <1>3, <1>4, <1>5, <1>6, <1>7, <1>8, <1>9, <1>10, <1>11, <1>12 DEF RunStep, RunFault
<1>14. ASSUME NEW q \in Runs \ {r} PROVE Shown(q)'
  <2>1. pc'[q] = pc[q] /\ winner'[q] = winner[q]
    BY Frame DEF Single
  <2>2. pc[q] \in {"dead", "off"}
    <3>1. q < r \/ q > r
      BY DEF Runs
    <3> QED BY <3>1, Alone DEF Single
  <2>3. Shown(q)
    OBVIOUS
  <2> QED BY <2>1, <2>2, <2>3 DEF Shown, Underway, Entered
<1> QED BY <1>13, <1>14 DEF Goal

\* So it does in every reachable state.
LEMMA ShownInvariance == ~ Overlap /\ Spec => [](\A q \in Runs : Shown(q))
<1>1. Init => \A q \in Runs : Shown(q)
  BY DEF Init, Shown, Underway, Entered
<1>2. Single /\ (\A q \in Runs : Shown(q)) /\ [Next]_vars => (\A q \in Runs : Shown(q))'
  <2> SUFFICES ASSUME Single, \A q \in Runs : Shown(q), [Next]_vars PROVE \A q \in Runs : Shown(q)'
    OBVIOUS
  <2>1. CASE UNCHANGED <<pc, mem, work, winner, remote, prs>>
    BY <2>1 DEF Shown, Head, IdOf, BranchOf
  <2>2. CASE ReadForStop \/ WriteStop \/ UNCHANGED vars
    BY <2>1, <2>2 DEF ReadForStop, WriteStop, vars, runVars, forgeVars
  <2> QED BY <2>2, ShownStep DEF Next
<1> QED BY <1>1, <1>2, SingleInvariance, PTL DEF Spec

\* The patch a pull request is opened with is the one the arbiter approved, if its push succeeded:
\* an earlier run's push to a branch of the same name cannot take its place.
THEOREM ApprovedPatchCorrect == ~ Overlap /\ Spec => []ApprovedPatchIsShown
<1>1. (\A q \in Runs : Shown(q)) => ApprovedPatchIsShown
  BY DEF Shown, ApprovedPatchIsShown
<1> QED BY <1>1, ShownInvariance, PTL

-----------------------------------------------------------------------------
(* The pull request a task names *)

\* The row of a task that awaits a human, the copy its run works on and the pull request it names.
NamedBy(r) ==
  /\ pc[r] = "plan" => mem[r].state = "planning"
  /\ pc[r] \in {"round", "begin"} => row.state \in {mem[r].state, "cancelled"}
  /\ pc[r] \in Underway => mem[r].state \in {"working", "reviewing"} /\ row.state # "awaiting_human"
  /\ pc[r] = "record" /\ HasForge =>
       /\ mem[r].pr = IdOf(r, winner[r])
       /\ remote[Head(r)] # None
       /\ \E p \in prs : p.head = Head(r)
  /\ pc[r] \in {"prune", "over", "ended"} /\ row.state = "awaiting_human" /\ row.pr # None /\ ~ rowLost
       => mem[r].state = "awaiting_human" /\ row.pr.branch = Head(r)

\* Without a forge nothing names a pull request.
Forgeless ==
  ~ HasForge => /\ row.pr = None /\ \A r \in Runs : mem[r].pr = None
                /\ stopper # None => stopper.pr = None

Named == Forgeless /\ RecordedPullRequestIsOpen /\ \A r \in Runs : NamedBy(r)

\* A run on a local checkout never gets a pull request.
LEMMA ForgelessStep ==
  ASSUME TypeInv, Forgeless, NEW r \in Runs, RunStep(r) \/ RunFault(r)
  PROVE  Forgeless'
<1> USE DEF storeVars, forgeVars, runVars, tally, history
<1> DEFINE Goal == ~ HasForge => mem'[r].pr = None /\ row'.pr = None
<1>0. pc \in [Runs -> Phases] /\ mem \in [Runs -> Task] /\ mem[r] \in Task /\ row \in Task
  BY DEF TypeInv, TypeOK
<1>S. ~ HasForge => row.pr = None /\ mem[r].pr = None
  BY DEF Forgeless
<1>W. ASSUME mem'[r].pr = mem[r].pr, row' = row \/ row' = mem'[r]
      PROVE  Goal
  BY <1>S, <1>W
<1>1. ASSUME Start(r)
      PROVE  Goal
  BY <1>0, <1>1, <1>S DEF Start
<1>2. ASSUME EnterRound(r) \/ NoticeCancellation(r) \/ ExhaustBudget(r) \/ RefusePullRequest(r)
             \/ PruneBranches(r) \/ FinishJob(r) \/ RecordFailure(r) \/ CollectRound(r) \/ Approve(r) \/ SendBack(r)
      PROVE  Goal
  <2>1. mem'[r].pr = mem[r].pr /\ (row' = row \/ row' = mem'[r])
    BY <1>0, <1>2 DEF EnterRound, NoticeCancellation, ExhaustBudget, RefusePullRequest, PruneBranches, FinishJob,
                      RecordFailure, CollectRound, Approve, SendBack, Save, Task
  <2> QED BY <2>1, <1>W
<1>3. ASSUME BeginPlanning(r) \/ BeginReviews(r) \/ RecordDelivery(r) \/ BeginRound(r)
      PROVE  Goal
  <2>1. mem'[r].pr = mem[r].pr /\ (row' = row \/ row' = mem'[r])
    BY <1>0, <1>3 DEF BeginPlanning, BeginReviews, RecordDelivery, BeginRound, WriteOrFail, Save, Task
  <2> QED BY <2>1, <1>W
<1>4. ASSUME Plan(r)
      PROVE  Goal
  <2> DEFINE known == [mem[r] EXCEPT !.planned = TRUE]
             task == [known EXCEPT !.spend = @ + 1]
  <2>1. task.pr = mem[r].pr
    <3>1. known \in Task /\ known.pr = mem[r].pr
      BY <1>0 DEF Task
    <3> HIDE DEF known
    <3> QED BY <3>1 DEF Task
  <2>2. mem' = [mem EXCEPT ![r] = task] /\ (row' = row \/ row' = mem'[r])
    BY <1>0, <1>4 DEF Plan, WriteOrFail, Save
  <2> HIDE DEF task
  <2> QED BY <1>0, <1>W, <2>1, <2>2
<1>5. ASSUME RoundWithoutSurvivor(r) \/ RoundWithoutReview(r) \/ RoundSentBack(r)
      PROVE  Goal
  <2>1. mem'[r].pr = mem[r].pr /\ (row' = row \/ row' = mem'[r])
    BY <1>0, <1>5 DEF RoundWithoutSurvivor, RoundWithoutReview, RoundSentBack, CloseRound, WriteOrFail, Save, Task
  <2> QED BY <2>1, <1>W
<1>6. ASSUME NEW i \in Indexes, NEW outcome \in Outcomes, EndAttempt(r, i, outcome)
      PROVE  Goal
  BY <1>6, <1>W DEF EndAttempt
<1>7. ASSUME NEW i \in Indexes, NEW grade \in 0 .. MaxRank, Review(r, i, grade)
      PROVE  Goal
  <2>1. PICK cost \in {0, 1} : mem' = [mem EXCEPT ![r].spend = @ + cost]
    BY <1>7 DEF Review
  <2>2. row' = row
    BY <1>7 DEF Review
  <2> QED BY <1>0, <2>1, <2>2, <1>W DEF Task
<1>8. ASSUME OpenPullRequest(r)
      PROVE  Goal
  BY <1>8 DEF OpenPullRequest, TypeInv
<1>9. ASSUME RunFault(r)
      PROVE  Goal
  BY <1>9, <1>W DEF RunFault, LoseReview, LoseAnswer, Err, Crash
<1> HIDE DEF Goal
<1>10. Goal
  BY <1>1, <1>2, <1>3, <1>4, <1>5, <1>6, <1>7, <1>8, <1>9 DEF RunStep
<1>11. stopper' = stopper /\ \A q \in Runs \ {r} : mem'[q] = mem[q]
  BY Frame
<1> QED BY <1>10, <1>11 DEF Forgeless, Goal

\* A step keeps the row, the copy and the forge in agreement.
LEMMA NamedStep ==
  ASSUME Single, Named, NEW r \in Runs, RunStep(r) \/ RunFault(r)
  PROVE  Named'
<1> USE DEF storeVars, forgeVars, runVars, tally, history
<1> DEFINE Goal == NamedBy(r)' /\ RecordedPullRequestIsOpen'
<1>0. /\ TypeInv /\ pc \in [Runs -> Phases] /\ mem \in [Runs -> Task] /\ mem[r] \in Task /\ row \in Task
      /\ remote \in [Branches -> AttemptIds \cup {None}]
  BY DEF Single, TypeInv, TypeOK
<1>S. NamedBy(r) /\ RecordedPullRequestIsOpen
  BY DEF Named
\* Nothing of the forge is lost and the row is not written.
<1>K. ASSUME row' = row, rowLost' = rowLost \/ rowLost' = TRUE, remote' = remote, prs \subseteq prs'
      PROVE  RecordedPullRequestIsOpen'
  BY <1>K, <1>S DEF RecordedPullRequestIsOpen
\* The row does not await a human.
<1>A. ASSUME row'.state # "awaiting_human"
      PROVE  RecordedPullRequestIsOpen'
  BY <1>A DEF RecordedPullRequestIsOpen
\* A write that may fail, of a copy that does not await a human.
<1>W. ASSUME NEW to \in {"plan", "round", "attempts", "reviews"}, WriteOrFail(r, to),
             mem'[r].state # "awaiting_human",
             to = "plan" => mem'[r].state = "planning",
             to \in {"attempts", "reviews"} => mem'[r].state \in {"working", "reviewing"},
             rowLost' = rowLost, remote' = remote, prs' = prs
      PROVE  Goal
  <2>1. \/ row' = mem'[r] /\ pc'[r] = to
        \/ row' = row /\ pc'[r] = "failing"
    BY <1>0, <1>W DEF WriteOrFail, Save, Goto
  <2>2. RecordedPullRequestIsOpen'
    BY <2>1, <1>W, <1>A, <1>K
  <2>3. NamedBy(r)'
    BY <2>1, <1>W DEF NamedBy, Underway, Entered
  <2> QED BY <2>2, <2>3
\* The run stays in its round and writes nothing.
<1>R. ASSUME row' = row, pc[r] \in Underway, pc'[r] \in (Underway \ {"record"}) \cup {"failing", "dead"},
             mem'[r].state = mem[r].state
      PROVE  Goal
  <2>1. row.state # "awaiting_human" /\ mem[r].state \in {"working", "reviewing"}
    BY <1>R, <1>S DEF NamedBy
  <2>2. NamedBy(r)'
    BY <1>R, <2>1 DEF NamedBy, Underway, Entered
  <2> QED BY <1>A, <1>R, <2>1, <2>2
<1>1. ASSUME Start(r)
      PROVE  Goal
  <2>1. /\ row' = row /\ rowLost' = rowLost /\ remote' = remote /\ prs' = prs /\ mem'[r] = row
        /\ pc'[r] \in {"round", "planning"}
    BY <1>0, <1>1 DEF Start, Goto
  <2> QED BY <1>K, <2>1 DEF NamedBy, Underway, Entered
<1>2. ASSUME BeginPlanning(r)
      PROVE  Goal
  <2>1. mem'[r].state = "planning"
    BY <1>0, <1>2 DEF BeginPlanning, Task
  <2>2. CASE mem[r].state # "planning"
    BY <1>2, <2>1, <2>2, <1>W DEF BeginPlanning
  <2>3. CASE mem[r].state = "planning"
    <3>1. row' = row /\ rowLost' = rowLost /\ remote' = remote /\ prs' = prs /\ pc'[r] = "plan"
      BY <1>0, <1>2, <2>3 DEF BeginPlanning, Goto
    <3> QED BY <2>1, <3>1, <1>K DEF NamedBy, Underway, Entered
  <2> QED BY <2>2, <2>3
<1>3. ASSUME Plan(r)
      PROVE  Goal
  <2> DEFINE known == [mem[r] EXCEPT !.planned = TRUE]
             task == [known EXCEPT !.spend = @ + 1]
  <2>1. task.state = mem[r].state
    <3>1. known \in Task /\ known.state = mem[r].state
      BY <1>0 DEF Task
    <3> HIDE DEF known
    <3> QED BY <3>1 DEF Task
  <2>2. mem' = [mem EXCEPT ![r] = task] /\ mem[r].state = "planning"
    BY <1>0, <1>3, <1>S DEF Plan, NamedBy
  <2> HIDE DEF task
  <2>3. mem'[r].state = "planning"
    BY <1>0, <2>1, <2>2
  <2> QED BY <1>3, <2>3, <1>W DEF Plan
<1>4. ASSUME EnterRound(r) \/ ExhaustBudget(r)
      PROVE  Goal
  <2>1. /\ row' = row /\ rowLost' = rowLost /\ remote' = remote /\ prs' = prs /\ mem'[r] = mem[r]
        /\ pc[r] = "round" /\ pc'[r] \in {"begin", "failing"}
    BY <1>0, <1>4 DEF EnterRound, ExhaustBudget, Goto
  <2> QED BY <1>K, <1>S, <2>1 DEF NamedBy, Underway, Entered
<1>5. ASSUME NoticeCancellation(r)
      PROVE  Goal
  <2>1. row' = row /\ row.state = "cancelled" /\ pc'[r] = "prune"
    BY <1>0, <1>5 DEF NoticeCancellation, Goto
  <2> QED BY <1>A, <2>1 DEF NamedBy, Underway, Entered
<1>6. ASSUME BeginRound(r)
      PROVE  Goal
  <2>1. mem'[r].state = "working" /\ rowLost' = rowLost /\ remote' = remote /\ prs' = prs
    BY <1>0, <1>6 DEF BeginRound, Task
  <2>2. CASE mem[r].state = "working"
    <3>1. row' = row /\ pc'[r] = "attempts" /\ row.state \in {"working", "cancelled"}
      BY <1>0, <1>6, <1>S, <2>2 DEF BeginRound, Goto, NamedBy
    <3> QED BY <1>A, <2>1, <3>1 DEF NamedBy, Underway, Entered
  <2>3. CASE mem[r].state # "working"
    BY <1>6, <2>1, <2>3, <1>W DEF BeginRound
  <2> QED BY <2>2, <2>3
<1>7. ASSUME CollectRound(r) \/ SendBack(r)
      PROVE  Goal
  <2>1. /\ row' = row /\ mem'[r].state = mem[r].state
        /\ pc[r] \in {"attempts", "reviews"} /\ pc'[r] \in {"collected", "sentback"}
    BY <1>0, <1>7 DEF CollectRound, SendBack, ReviewsAreIn, Goto, Task
  <2> QED BY <1>R, <2>1 DEF Underway, Entered
<1>8. ASSUME RoundWithoutSurvivor(r) \/ RoundWithoutReview(r) \/ RoundSentBack(r)
      PROVE  Goal
  <2>1. pc[r] \in Underway /\ CloseRound(r)
    BY <1>8 DEF RoundWithoutSurvivor, RoundWithoutReview, RoundSentBack, ReviewsAreIn, Underway, Entered
  <2>2. mem[r].state \in {"working", "reviewing"}
    BY <1>S, <2>1 DEF NamedBy
  <2>3. mem'[r].state = mem[r].state
    BY <1>0, <2>1 DEF CloseRound, Task
  <2> QED BY <2>1, <2>2, <2>3, <1>W DEF CloseRound
<1>9. ASSUME BeginReviews(r)
      PROVE  Goal
  <2>1. mem'[r].state = "reviewing"
    BY <1>0, <1>9 DEF BeginReviews, Task
  <2> QED BY <1>9, <2>1, <1>W DEF BeginReviews
<1>10. ASSUME NEW i \in Indexes, NEW outcome \in Outcomes, EndAttempt(r, i, outcome)
       PROVE  Goal
  BY <1>10, <1>R DEF EndAttempt, Underway, Entered
<1>11. ASSUME NEW i \in Indexes, NEW grade \in 0 .. MaxRank, Review(r, i, grade)
       PROVE  Goal
  <2>1. PICK cost \in {0, 1} : mem' = [mem EXCEPT ![r].spend = @ + cost]
    BY <1>11 DEF Review
  <2>2. mem'[r].state = mem[r].state
    BY <1>0, <2>1 DEF Task
  <2> QED BY <1>11, <2>2, <1>R DEF Review, Underway, Entered
<1>12. ASSUME Approve(r)
       PROVE  Goal
  <2>1. /\ row' = row /\ mem'[r].state = mem[r].state
        /\ pc[r] = "reviews" /\ pc'[r] = (IF HasForge THEN "deliver" ELSE "record")
    BY <1>0, <1>12 DEF Approve, ReviewsAreIn, Goto, Task
  <2>2. row.state # "awaiting_human" /\ mem[r].state \in {"working", "reviewing"}
    BY <1>S, <2>1 DEF NamedBy, Underway, Entered
  <2> QED BY <1>A, <2>1, <2>2 DEF NamedBy, Underway, Entered
<1>13. ASSUME OpenPullRequest(r)
       PROVE  Goal
  <2> DEFINE p == [head |-> Head(r), shown |-> remote[Head(r)]]
  <2>1. /\ pc[r] = "deliver" /\ pc'[r] = "record" /\ winner' = winner /\ row' = row /\ remote' = remote
        /\ prs' = prs \cup {p} /\ remote[Head(r)] # None /\ p.head = Head(r)
    BY <1>0, <1>13 DEF OpenPullRequest, Acceptable, Goto
  <2>2. mem'[r].state = mem[r].state /\ mem'[r].round = mem[r].round /\ mem'[r].pr = IdOf(r, winner[r])
    BY <1>0, <1>13 DEF OpenPullRequest, Task
  <2>3. Head(r)' = Head(r) /\ IdOf(r, winner[r])' = IdOf(r, winner[r])
    BY <2>1, <2>2 DEF Head, IdOf, BranchOf
  <2>4. row.state # "awaiting_human" /\ mem[r].state \in {"working", "reviewing"}
    BY <1>S, <2>1 DEF NamedBy, Underway, Entered
  <2> HIDE DEF p
  <2>5. p \in prs' /\ p.head = Head(r)'
    BY <2>1, <2>3
  <2> QED BY <1>A, <2>1, <2>2, <2>3, <2>4, <2>5 DEF NamedBy, Underway, Entered
<1>14. ASSUME RefusePullRequest(r) \/ LoseAnswer(r)
       PROVE  Goal
  BY <1>0, <1>14, <1>R DEF RefusePullRequest, LoseAnswer, Goto, Underway, Entered
<1>15. ASSUME RecordDelivery(r)
       PROVE  Goal
  <2>1. /\ pc[r] = "record" /\ remote' = remote /\ prs' = prs /\ rowLost' = rowLost /\ winner' = winner
        /\ mem'[r].state = "awaiting_human" /\ mem'[r].round = mem[r].round /\ mem'[r].pr = mem[r].pr
        /\ \/ row' = mem'[r] /\ pc'[r] = "prune"
           \/ row' = row /\ pc'[r] = "failing"
    BY <1>0, <1>15 DEF RecordDelivery, WriteOrFail, Save, Goto, Task
  <2>2. Head(r)' = Head(r)
    BY <2>1 DEF Head, BranchOf
  <2>3. row.state # "awaiting_human"
    BY <1>S, <2>1 DEF NamedBy, Underway, Entered
  <2>4. CASE row' = row /\ pc'[r] = "failing"
    BY <1>A, <2>3, <2>4 DEF NamedBy, Underway, Entered
  <2>5. CASE row' = mem'[r] /\ pc'[r] = "prune" /\ ~ HasForge
    <3>1. row'.pr = None
      BY <2>1, <2>5 DEF Named, Forgeless
    <3> QED BY <2>5, <3>1 DEF RecordedPullRequestIsOpen, NamedBy, Underway, Entered
  <2>6. CASE row' = mem'[r] /\ pc'[r] = "prune" /\ HasForge
    <3>1. /\ row'.pr = IdOf(r, winner[r]) /\ row'.state = "awaiting_human" /\ remote[Head(r)] # None
          /\ \E p \in prs : p.head = Head(r)
      BY <1>S, <2>1, <2>6 DEF NamedBy
    <3>2. row'.pr.branch = Head(r)
      BY <3>1 DEF IdOf, Head
    <3> QED BY <2>1, <2>2, <2>6, <3>1, <3>2 DEF RecordedPullRequestIsOpen, NamedBy, Underway, Entered
  <2> QED BY <2>1, <2>4, <2>5, <2>6
<1>16. ASSUME RecordFailure(r)
       PROVE  Goal
  <2>1. /\ remote' = remote /\ prs' = prs /\ pc'[r] = "prune"
        /\ \/ row'.state = "failed" /\ rowLost' = rowLost
           \/ row' = row /\ rowLost' = TRUE
    BY <1>0, <1>16 DEF RecordFailure, Save, Goto, Task
  <2> QED BY <2>1 DEF RecordedPullRequestIsOpen, NamedBy, Underway, Entered
<1>17. ASSUME PruneBranches(r)
       PROVE  Goal
  <2>1. pc[r] = "prune" /\ pc'[r] = "over" /\ row' = row /\ mem' = mem /\ winner' = winner /\ rowLost' = rowLost
    BY <1>0, <1>17 DEF PruneBranches, Goto
  <2>2. Head(r)' = Head(r)
    BY <2>1 DEF Head, BranchOf
  <2>3. NamedBy(r)'
    BY <1>S, <2>1, <2>2 DEF NamedBy, Underway, Entered
  <2>4. ASSUME row.state = "awaiting_human", row.pr # None, ~ rowLost
        PROVE  /\ remote'[row.pr.branch] # None
               /\ \E p \in prs' : p.head = row.pr.branch
    <3>1. mem[r].state = "awaiting_human" /\ row.pr.branch = Head(r)
      BY <1>S, <2>1, <2>4 DEF NamedBy
    <3>2. remote[Head(r)] # None
      BY <1>S, <2>4, <3>1 DEF RecordedPullRequestIsOpen
    <3>3. PICK p \in prs : p.head = Head(r)
      BY <1>S, <2>4, <3>1 DEF RecordedPullRequestIsOpen
    <3>4. Head(r) \in Kept(r)
      BY <3>1 DEF Kept
    <3>5. p.head \in Branches
      BY DEF Single, TypeInv, TypeOK
    <3>6. CASE ~ MayPrune
      BY <1>17, <3>1, <3>2, <3>3, <3>6 DEF PruneBranches
    <3>7. CASE MayPrune
      <4>1. PICK failed :
              /\ remote' = [b \in Branches |->
                              IF b \in ({a.branch : a \in saved} \ Kept(r)) \ failed THEN None ELSE remote[b]]
              /\ prs' = {q \in prs : remote'[q.head] # None}
        BY <1>17, <3>7 DEF PruneBranches
      <4>2. remote'[Head(r)] = remote[Head(r)]
        BY <3>3, <3>4, <3>5, <4>1
      <4>3. p \in prs'
        BY <3>2, <3>3, <4>1, <4>2
      <4> QED BY <3>1, <3>2, <3>3, <4>2, <4>3
    <3> QED BY <3>6, <3>7
  <2>5. RecordedPullRequestIsOpen'
    BY <2>1, <2>4 DEF RecordedPullRequestIsOpen
  <2> QED BY <2>3, <2>5
<1>18. ASSUME FinishJob(r)
       PROVE  Goal
  <2>1. /\ pc[r] = "over" /\ pc'[r] = "ended" /\ row' = row /\ mem' = mem /\ winner' = winner /\ rowLost' = rowLost
        /\ remote' = remote /\ prs' = prs
    BY <1>0, <1>18 DEF FinishJob, Goto
  <2>2. Head(r)' = Head(r)
    BY <2>1 DEF Head, BranchOf
  <2> QED BY <1>K, <1>S, <2>1, <2>2 DEF NamedBy, Underway, Entered
<1>19. ASSUME Err(r) \/ Crash(r)
       PROVE  Goal
  <2>1. row' = row /\ rowLost' = rowLost /\ remote' = remote /\ prs' = prs /\ pc'[r] \in {"failing", "dead"}
    BY <1>0, <1>19 DEF Err, Crash, Goto
  <2> QED BY <1>K, <2>1 DEF NamedBy, Underway, Entered
<1>20. ASSUME NEW i \in Indexes, LoseReview(r, i)
       PROVE  Goal
  BY <1>20, <1>R DEF LoseReview, Underway, Entered
<1> HIDE DEF Goal
<1>21. Goal
  BY <1>1, <1>2, <1>3, <1>4, <1>5, <1>6, <1>7, <1>8, <1>9, <1>10, <1>11, <1>12, <1>13, <1>14, <1>15, <1>16, <1>17,
     <1>18, <1>19, <1>20 DEF RunStep, RunFault
<1>22. ASSUME NEW q \in Runs \ {r} PROVE NamedBy(q)'
  <2>1. pc'[q] \in {"dead", "off"}
    <3>1. q < r \/ q > r
      BY DEF Runs
    <3> QED BY <3>1, Alone DEF Single
  <2> QED BY <2>1 DEF NamedBy, Underway, Entered
<1>23. Forgeless'
  BY <1>0, ForgelessStep DEF Named
<1> QED BY <1>21, <1>22, <1>23 DEF Named, Goal

\* They agree in every reachable state.
LEMMA NamedInvariance == ~ Overlap /\ Spec => []Named
<1>1. Init => Named
  <2> SUFFICES ASSUME Init PROVE Named
    OBVIOUS
  <2>1. row.state = "queued" /\ row.pr = None /\ stopper = None /\ \A r \in Runs : mem[r] = row /\ pc[r] = "off"
    BY DEF Init
  <2> QED BY <2>1 DEF Named, Forgeless, RecordedPullRequestIsOpen, NamedBy, Underway, Entered
<1>2. Single /\ Named /\ [Next]_vars => Named'
  <2> SUFFICES ASSUME Single, Named, [Next]_vars PROVE Named'
    OBVIOUS
  <2>1. ASSUME UNCHANGED <<pc, mem, winner, remote, prs, rowLost>>,
               row' = row \/ row'.state = "cancelled", ~ HasForge => row'.pr = None,
               ~ HasForge /\ stopper' # None => stopper'.pr = None
        PROVE  Named'
    BY <2>1 DEF Named, Forgeless, RecordedPullRequestIsOpen, NamedBy, Head, IdOf, BranchOf
  <2>2. CASE ReadForStop
    BY <2>1, <2>2 DEF ReadForStop, storeVars, forgeVars, runVars, tally, history, Named, Forgeless
  <2>3. CASE WriteStop
    <3>1. stopper \in Task
      BY <2>3 DEF WriteStop, Single, TypeInv, TypeOK
    <3>2. row'.state = "cancelled" /\ row'.pr = stopper.pr /\ stopper' = None
          /\ UNCHANGED <<pc, mem, winner, remote, prs, rowLost>>
      BY <2>3, <3>1 DEF WriteStop, Save, forgeVars, runVars, tally, history, Task
    <3> QED BY <2>1, <2>3, <3>2 DEF WriteStop, Named, Forgeless
  <2>4. CASE UNCHANGED vars
    BY <2>1, <2>4 DEF vars, storeVars, forgeVars, runVars, tally, history, Named, Forgeless
  <2> QED BY <2>2, <2>3, <2>4, NamedStep DEF Next
<1> QED BY <1>1, <1>2, SingleInvariance, PTL DEF Spec

\* The pull request that a task awaiting a human names is open and its branch is there: neither
\* pruning, nor the run after a crash, nor a stop that writes an older row back closes it.
THEOREM RecordedCorrect == ~ Overlap /\ Spec => []RecordedPullRequestIsOpen
BY NamedInvariance, PTL DEF Named

-----------------------------------------------------------------------------
(* The delivered patch *)

\* What DeliveredPatchStays says of one run, and that its branch is a branch of the task.
Stays(r) ==
  /\ mem[r].state = "awaiting_human"
  /\ winner[r] # None /\ work[r][winner[r]] = "pushed"
  /\ \A q \in Runs : q > r => pc[q] = "off"
  => Head(r) \in Branches /\ remote[Head(r)] = IdOf(r, winner[r])

\* No step takes a delivered patch off its branch.
LEMMA StaysStep ==
  ASSUME Single, Named, Named', \A q \in Runs : Shown(q), \A q \in Runs : Shown(q)', \A q \in Runs : Stays(q),
         NEW r \in Runs, RunStep(r) \/ RunFault(r)
  PROVE  \A q \in Runs : Stays(q)'
<1> USE DEF storeVars, forgeVars, runVars, tally, history
<1> DEFINE Goal == Stays(r)'
<1>0. /\ TypeInv /\ pc \in [Runs -> Phases] /\ mem \in [Runs -> Task] /\ mem[r] \in Task
      /\ winner \in [Runs -> Indexes \cup {None}] /\ remote \in [Branches -> AttemptIds \cup {None}]
  BY DEF Single, TypeInv, TypeOK
<1>P. pc' \in [Runs -> Phases]
  BY Frame DEF Single
<1>S. Stays(r) /\ Shown(r) /\ Shown(r)' /\ NamedBy(r) /\ NamedBy(r)'
  BY DEF Named
<1>L. \A q \in Runs : q > r => pc[q] = "off"
  BY Alone DEF Single
\* The arbiter has not approved anything.
<1>E. ASSUME pc'[r] \notin Late
      PROVE  Goal
  <2>1. winner'[r] = None
    BY <1>E, <1>P, <1>S DEF Shown
  <2> QED BY <2>1 DEF Stays
\* The run has not ended.
<1>B. ASSUME mem'[r].state # "awaiting_human"
      PROVE  Goal
  BY <1>B DEF Stays
\* Nothing the property is about changes.
<1>U. ASSUME mem' = mem, winner' = winner, work' = work, remote' = remote
      PROVE  Goal
  <2>1. Head(r)' = Head(r) /\ IdOf(r, winner[r])' = IdOf(r, winner[r])
    BY <1>U DEF Head, IdOf, BranchOf
  <2> QED BY <1>L, <1>S, <1>U, <2>1 DEF Stays
<1>1. ASSUME Start(r) \/ EnterRound(r) \/ ExhaustBudget(r) \/ RefusePullRequest(r) \/ FinishJob(r) \/ Err(r) \/ Crash(r)
      PROVE  Goal
  <2>1. CASE Start(r)
    <3>1. pc'[r] \in {"round", "planning"}
      BY <1>0, <2>1 DEF Start, Goto
    <3> QED BY <1>E, <3>1 DEF Late
  <2>2. CASE ~ Start(r)
    BY <1>1, <1>U, <2>2 DEF EnterRound, ExhaustBudget, RefusePullRequest, FinishJob, Err, Crash
  <2> QED BY <2>1, <2>2
<1>2. ASSUME BeginPlanning(r) \/ NoticeCancellation(r) \/ BeginRound(r) \/ BeginReviews(r) \/ RecordFailure(r)
      PROVE  Goal
  <2>1. mem'[r].state # "awaiting_human"
    BY <1>0, <1>2 DEF BeginPlanning, NoticeCancellation, BeginRound, BeginReviews, RecordFailure, Task
  <2> QED BY <1>B, <2>1
<1>3. ASSUME Plan(r)
      PROVE  Goal
  <2>1. pc[r] = "plan" /\ winner' = winner
    BY <1>3 DEF Plan
  <2>2. winner'[r] = None
    BY <1>S, <2>1 DEF Shown, Phases, Late
  <2> QED BY <2>2 DEF Stays
<1>4. ASSUME RoundWithoutSurvivor(r) \/ RoundWithoutReview(r) \/ RoundSentBack(r)
      PROVE  Goal
  <2>1. pc[r] \in {"collected", "reviews", "sentback"} /\ winner' = winner
    BY <1>4 DEF RoundWithoutSurvivor, RoundWithoutReview, RoundSentBack, ReviewsAreIn, CloseRound
  <2>2. winner'[r] = None
    BY <1>S, <2>1 DEF Shown, Phases, Late
  <2> QED BY <2>2 DEF Stays
<1>5. ASSUME CollectRound(r) \/ SendBack(r) \/ Approve(r)
      PROVE  Goal
  <2>1. pc[r] \in Underway /\ mem'[r].state = mem[r].state
    BY <1>0, <1>5 DEF CollectRound, SendBack, Approve, ReviewsAreIn, Underway, Entered, Task
  <2> QED BY <1>B, <1>S, <2>1 DEF NamedBy
<1>6. ASSUME NEW i \in Indexes, NEW outcome \in Outcomes, EndAttempt(r, i, outcome)
      PROVE  Goal
  BY <1>6, <1>E DEF EndAttempt, Late
<1>7. ASSUME NEW i \in Indexes, NEW grade \in 0 .. MaxRank, Review(r, i, grade)
      PROVE  Goal
  BY <1>7, <1>E DEF Review, Late
<1>8. ASSUME NEW i \in Indexes, LoseReview(r, i)
      PROVE  Goal
  BY <1>8, <1>E DEF LoseReview, Late
<1>9. ASSUME OpenPullRequest(r) \/ LoseAnswer(r)
      PROVE  Goal
  <2>1. pc[r] = "deliver" /\ mem'[r].state = mem[r].state
    BY <1>0, <1>9 DEF OpenPullRequest, LoseAnswer, Task
  <2> QED BY <1>B, <1>S, <2>1 DEF NamedBy, Underway, Entered
<1>10. ASSUME RecordDelivery(r)
       PROVE  Goal
  <2>1. /\ pc[r] = "record" /\ winner' = winner /\ work' = work /\ remote' = remote
        /\ mem'[r].round = mem[r].round
    BY <1>0, <1>10 DEF RecordDelivery, Task
  <2>2. winner[r] \in Indexes
    BY <1>0, <2>1 DEF TypeInv
  <2>3. work[r][winner[r]] = "pushed" => remote[BranchOf(r, winner[r])] = IdOf(r, winner[r])
    BY <1>S, <2>1, <2>2 DEF Shown, Underway, Entered
  <2>4. Head(r)' = BranchOf(r, winner[r]) /\ IdOf(r, winner[r])' = IdOf(r, winner[r])
    BY <2>1 DEF Head, IdOf, BranchOf
  <2>5. BranchOf(r, winner[r]) \in Branches
    BY <1>0, <2>1, <2>2, IdType DEF Entered
  <2> QED BY <2>1, <2>3, <2>4, <2>5 DEF Stays
<1>11. ASSUME PruneBranches(r)
       PROVE  Goal
  <2>1. mem' = mem /\ winner' = winner /\ work' = work
    BY <1>11 DEF PruneBranches
  <2>2. Head(r)' = Head(r) /\ IdOf(r, winner[r])' = IdOf(r, winner[r])
    BY <2>1 DEF Head, IdOf, BranchOf
  <2>3. ASSUME mem[r].state = "awaiting_human", Head(r) \in Branches, remote[Head(r)] = IdOf(r, winner[r])
        PROVE  remote'[Head(r)] = IdOf(r, winner[r])
    <3>1. CASE ~ MayPrune
      BY <1>11, <2>3, <3>1 DEF PruneBranches
    <3>2. CASE MayPrune
      <4>1. PICK failed :
              remote' = [b \in Branches |->
                           IF b \in ({a.branch : a \in saved} \ Kept(r)) \ failed THEN None ELSE remote[b]]
        BY <1>11, <3>2 DEF PruneBranches
      <4>2. Head(r) \in Kept(r)
        BY <2>3 DEF Kept
      <4> QED BY <2>3, <4>1, <4>2
    <3> QED BY <3>1, <3>2
  <2> QED BY <1>L, <1>S, <2>1, <2>2, <2>3 DEF Stays
<1> HIDE DEF Goal
<1>12. Goal
  BY <1>1, <1>2, <1>3, <1>4, <1>5, <1>6, <1>7, <1>8, <1>9, <1>10, <1>11 DEF RunStep, RunFault
<1>13. ASSUME NEW q \in Runs \ {r} PROVE Stays(q)'
  <2>1. mem'[q] = mem[q] /\ winner'[q] = winner[q] /\ work'[q] = work[q] /\ pc'[q] = pc[q]
    BY Frame DEF Single
  <2>2. CASE q < r
    <3>1. pc'[r] # "off"
      BY Moves DEF Single
    <3>2. r > q
      BY <2>2 DEF Runs
    <3> QED BY <3>1, <3>2 DEF Stays
  <2>3. CASE q > r
    <3>1. pc'[q] = "off"
      BY <2>3, Alone DEF Single
    <3>2. winner'[q] = None
      BY <3>1 DEF Shown, Phases, Late
    <3> QED BY <3>2 DEF Stays
  <2> QED BY <2>2, <2>3 DEF Runs
<1> QED BY <1>12, <1>13 DEF Goal

\* A delivered patch stays on the branch the task names while the other branches are deleted, and
\* until another run of the task begins.
THEOREM DeliveredCorrect == ~ Overlap /\ Spec => []DeliveredPatchStays
<1> DEFINE Shows == \A q \in Runs : Shown(q)
           Stay == \A q \in Runs : Stays(q)
<1>1. Init => Stay
  BY DEF Init, Stays
<1>2. Single /\ Named /\ Named' /\ Shows /\ Shows' /\ Stay /\ [Next]_vars => Stay'
  <2> SUFFICES ASSUME Single, Named, Named', Shows, Shows', Stay, [Next]_vars PROVE Stay'
    OBVIOUS
  <2>1. CASE UNCHANGED <<pc, mem, work, winner, remote>>
    BY <2>1 DEF Stays, Head, IdOf, BranchOf
  <2>2. CASE ReadForStop \/ WriteStop \/ UNCHANGED vars
    BY <2>1, <2>2 DEF ReadForStop, WriteStop, vars, runVars, forgeVars
  <2> QED BY <2>2, StaysStep DEF Next
<1>3. Stay => DeliveredPatchStays
  BY DEF Stays, DeliveredPatchStays
<1>4. ~ Overlap /\ Spec => []Shows
  BY ShownInvariance
<1> HIDE DEF Shows, Stay
<1> QED BY <1>1, <1>2, <1>3, <1>4, NamedInvariance, SingleInvariance, PTL DEF Spec

-----------------------------------------------------------------------------
(* Rounds *)

\* Rounds begun, against the number in the row and in the copy of a run.
Follows(r) ==
  stops = 0 =>
    /\ pc[r] \in {"planning", "plan", "round", "begin"} =>
         rounds <= mem[r].round + DeadRuns /\ row.round = mem[r].round
    /\ pc[r] \in Underway => rounds <= mem[r].round + 1 + DeadRuns /\ row.round = mem[r].round
    /\ pc[r] = "failing" => row.round <= mem[r].round
    /\ pc[r] \in {"failing", "prune", "over", "ended"} =>
         rounds <= row.round + 1 + DeadRuns /\ rounds <= MaxRounds + DeadRuns

\* Between two runs the row has the number.
Between == stops = 0 /\ (\A r \in Runs : pc[r] \in {"off", "dead"}) => rounds <= row.round + DeadRuns

RoundsFollow == Between /\ \A r \in Runs : Follows(r)

\* A step adds one dead run, or none.
LEMMA DeadStep ==
  ASSUME TypeInv, NEW r \in Runs, RunStep(r) \/ RunFault(r)
  PROVE  /\ DeadRuns \in Nat /\ DeadRuns' \in Nat
         /\ DeadRuns' = IF pc'[r] = "dead" THEN DeadRuns + 1 ELSE DeadRuns
<1> DEFINE D == {q \in Runs : pc[q] = "dead"}
           E == {q \in Runs : pc'[q] = "dead"}
<1>1. IsFiniteSet(D) /\ Cardinality(D) \in Nat /\ Cardinality(E) \in Nat
  BY RunSets
<1>2. pc[r] # "dead" /\ \A q \in Runs \ {r} : pc'[q] = pc[q]
  BY Frame, Moves
<1>3. CASE pc'[r] = "dead"
  <2>1. E = D \cup {r} /\ r \notin D
    BY <1>2, <1>3
  <2>2. Cardinality(D \cup {r}) = Cardinality(D) + 1
    BY <1>1, <2>1, FS_AddElement
  <2> QED BY <1>1, <1>3, <2>1, <2>2 DEF DeadRuns
<1>4. CASE pc'[r] # "dead"
  <2>1. E = D
    BY <1>2, <1>4
  <2> QED BY <1>1, <1>4, <2>1 DEF DeadRuns
<1> QED BY <1>3, <1>4

\* A step keeps the count of rounds: only a crash costs one that is not in the row.
LEMMA RoundsStep ==
  ASSUME Single, RoundsFollow, NEW r \in Runs, RunStep(r) \/ RunFault(r)
  PROVE  RoundsFollow'
<1> USE CountAssumption DEF storeVars, forgeVars, runVars, tally, history
<1> DEFINE Goal == Follows(r)'
<1>0. /\ TypeInv /\ pc \in [Runs -> Phases] /\ mem \in [Runs -> Task] /\ mem[r] \in Task /\ row \in Task
      /\ rounds \in Nat /\ stops \in Nat /\ mem[r].round \in 0 .. MaxRounds /\ row.round \in 0 .. MaxRounds
  BY DEF Single, TypeInv, TypeOK, Task
<1>F. Follows(r)
  BY DEF RoundsFollow
<1>D. /\ DeadRuns \in Nat /\ DeadRuns' \in Nat /\ stops' = stops
      /\ DeadRuns' = IF pc'[r] = "dead" THEN DeadRuns + 1 ELSE DeadRuns
  BY <1>0, DeadStep, Frame
<1>B. pc[r] \in Entered => mem[r].round < MaxRounds
  BY <1>0 DEF TypeInv
\* The run fails, or a round goes on: nothing is written and no round begins.
<1>U. ASSUME rounds' = rounds, row' = row, mem'[r].round = mem[r].round,
             \/ pc'[r] = "failing" /\ pc[r] \in Entered \cup {"planning", "plan", "round"}
             \/ pc[r] \in Underway /\ pc'[r] \in Underway
             \/ pc[r] \in {"planning", "plan", "round", "begin"} /\ pc'[r] \in {"planning", "plan", "round", "begin", "prune"}
             \/ pc[r] \in {"failing", "prune", "over"} /\ pc'[r] \in {"prune", "over", "ended"}
             \/ pc'[r] = "dead"
      PROVE  Goal
  BY <1>0, <1>F, <1>D, <1>B, <1>U DEF Follows, Underway, Entered
\* A write that may fail, of a copy with the same round.
<1>W. ASSUME NEW to \in {"plan", "round", "reviews", "prune"}, WriteOrFail(r, to), rounds' = rounds,
             mem'[r].round = mem[r].round,
             \/ pc[r] \in Underway /\ to \in {"reviews", "prune"}
             \/ pc[r] \in {"planning", "plan"} /\ to \in {"plan", "round"}
      PROVE  Goal
  <2>1. \/ row' = mem'[r] /\ pc'[r] = to
        \/ row' = row /\ pc'[r] = "failing"
    BY <1>0, <1>W DEF WriteOrFail, Save, Goto
  <2>2. CASE row' = row /\ pc'[r] = "failing"
    BY <1>U, <1>W, <2>2 DEF Underway, Entered
  <2>3. CASE row' = mem'[r] /\ pc'[r] = to
    BY <1>0, <1>F, <1>D, <1>B, <1>W, <2>3 DEF Follows, Underway, Entered
  <2> QED BY <2>1, <2>2, <2>3
<1>1. ASSUME Start(r)
      PROVE  Goal
  <2>1. /\ rounds' = rounds /\ row' = row /\ mem'[r] = row /\ pc[r] = "off" /\ pc'[r] \in {"round", "planning"}
    BY <1>0, <1>1 DEF Start, Goto
  <2>2. \A q \in Runs : pc[q] \in {"off", "dead"}
    BY <2>1, Alone DEF Single, Runs
  <2> QED BY <1>0, <1>D, <2>1, <2>2 DEF RoundsFollow, Between, Follows, Underway, Entered
<1>2. ASSUME BeginPlanning(r)
      PROVE  Goal
  <2>1. mem'[r].round = mem[r].round
    BY <1>0, <1>2 DEF BeginPlanning, Task
  <2>2. CASE mem[r].state # "planning"
    BY <1>2, <2>1, <2>2, <1>W DEF BeginPlanning
  <2>3. CASE mem[r].state = "planning"
    <3>1. rounds' = rounds /\ row' = row /\ pc[r] = "planning" /\ pc'[r] = "plan"
      BY <1>0, <1>2, <2>3 DEF BeginPlanning, Goto
    <3> QED BY <1>U, <2>1, <3>1
  <2> QED BY <2>2, <2>3
<1>3. ASSUME Plan(r)
      PROVE  Goal
  <2> DEFINE known == [mem[r] EXCEPT !.planned = TRUE]
             task == [known EXCEPT !.spend = @ + 1]
  <2>1. task.round = mem[r].round
    <3>1. known \in Task /\ known.round = mem[r].round
      BY <1>0 DEF Task
    <3> HIDE DEF known
    <3> QED BY <3>1 DEF Task
  <2>2. mem' = [mem EXCEPT ![r] = task]
    BY <1>0, <1>3 DEF Plan
  <2> HIDE DEF task
  <2>3. mem'[r].round = mem[r].round
    BY <1>0, <2>1, <2>2
  <2> QED BY <1>3, <2>3, <1>W DEF Plan
<1>4. ASSUME EnterRound(r) \/ ExhaustBudget(r)
      PROVE  Goal
  <2>1. rounds' = rounds /\ row' = row /\ mem' = mem /\ pc[r] = "round" /\ pc'[r] \in {"begin", "failing"}
    BY <1>0, <1>4 DEF EnterRound, ExhaustBudget, Goto
  <2> QED BY <1>U, <2>1
<1>5. ASSUME NoticeCancellation(r)
      PROVE  Goal
  <2>1. rounds' = rounds /\ row' = row /\ mem'[r].round = mem[r].round /\ pc[r] = "round" /\ pc'[r] = "prune"
    BY <1>0, <1>5 DEF NoticeCancellation, Goto, Task
  <2> QED BY <1>U, <2>1
<1>6. ASSUME BeginRound(r)
      PROVE  Goal
  <2>1. /\ mem'[r].round = mem[r].round /\ pc[r] = "begin" /\ (row' = row \/ row' = mem'[r])
        /\ \/ pc'[r] = "attempts" /\ rounds' = rounds + 1
           \/ pc'[r] = "failing" /\ row' = row /\ rounds' = rounds
    BY <1>0, <1>6 DEF BeginRound, WriteOrFail, Save, Goto, Task
  <2> QED BY <1>0, <1>F, <1>D, <1>B, <2>1 DEF Follows, Underway, Entered
<1>7. ASSUME CollectRound(r) \/ SendBack(r) \/ Approve(r)
      PROVE  Goal
  <2>1. /\ rounds' = rounds /\ row' = row /\ mem'[r].round = mem[r].round
        /\ pc[r] \in {"attempts", "reviews"} /\ pc'[r] \in {"collected", "sentback", "deliver", "record"}
    BY <1>0, <1>7 DEF CollectRound, SendBack, Approve, ReviewsAreIn, Goto, Task
  <2> QED BY <1>U, <2>1 DEF Underway, Entered
<1>8. ASSUME RoundWithoutSurvivor(r) \/ RoundWithoutReview(r) \/ RoundSentBack(r)
      PROVE  Goal
  <2> DEFINE task == [mem[r] EXCEPT !.round = @ + 1]
  <2>1. pc[r] \in Underway /\ CloseRound(r)
    BY <1>8 DEF RoundWithoutSurvivor, RoundWithoutReview, RoundSentBack, ReviewsAreIn, Underway, Entered
  <2>2. mem[r].round < MaxRounds
    BY <1>B, <2>1 DEF Underway
  <2>3. task.round = mem[r].round + 1
    BY <1>0 DEF Task
  <2>4. mem' = [mem EXCEPT ![r] = task] /\ rounds' = rounds
        /\ \/ row' = mem'[r] /\ pc'[r] = "round"
           \/ row' = row /\ pc'[r] = "failing"
    BY <1>0, <2>1 DEF CloseRound, WriteOrFail, Save, Goto
  <2> HIDE DEF task
  <2>5. mem'[r].round = mem[r].round + 1
    BY <1>0, <2>3, <2>4
  <2> QED BY <1>0, <1>F, <1>D, <2>1, <2>2, <2>4, <2>5 DEF Follows, Underway, Entered
<1>9. ASSUME BeginReviews(r)
      PROVE  Goal
  <2>1. mem'[r].round = mem[r].round
    BY <1>0, <1>9 DEF BeginReviews, Task
  <2>2. WriteOrFail(r, "reviews") /\ rounds' = rounds /\ pc[r] \in Underway
    BY <1>9 DEF BeginReviews, Underway, Entered
  <2> QED BY <2>1, <2>2, <1>W
<1>10. ASSUME NEW i \in Indexes, NEW outcome \in Outcomes, EndAttempt(r, i, outcome)
       PROVE  Goal
  BY <1>10, <1>U DEF EndAttempt, Underway, Entered
<1>11. ASSUME NEW i \in Indexes, NEW grade \in 0 .. MaxRank, Review(r, i, grade)
       PROVE  Goal
  <2>1. PICK cost \in {0, 1} : mem' = [mem EXCEPT ![r].spend = @ + cost]
    BY <1>11 DEF Review
  <2>2. mem'[r].round = mem[r].round
    BY <1>0, <2>1 DEF Task
  <2> QED BY <1>11, <2>2, <1>U DEF Review, Underway, Entered
<1>12. ASSUME OpenPullRequest(r) \/ RefusePullRequest(r) \/ LoseAnswer(r)
       PROVE  Goal
  <2>1. /\ rounds' = rounds /\ row' = row /\ mem'[r].round = mem[r].round
        /\ pc[r] = "deliver" /\ pc'[r] \in {"record", "failing"}
    BY <1>0, <1>12 DEF OpenPullRequest, RefusePullRequest, LoseAnswer, Goto, Task
  <2>2. pc[r] \in Underway /\ (pc'[r] \in Underway \/ (pc'[r] = "failing" /\ pc[r] \in Entered))
    BY <2>1 DEF Underway, Entered
  <2> QED BY <1>U, <2>1, <2>2
<1>13. ASSUME RecordDelivery(r)
       PROVE  Goal
  <2>1. mem'[r].round = mem[r].round
    BY <1>0, <1>13 DEF RecordDelivery, Task
  <2>2. WriteOrFail(r, "prune") /\ rounds' = rounds /\ pc[r] \in Underway
    BY <1>13 DEF RecordDelivery, Underway, Entered
  <2> QED BY <2>1, <2>2, <1>W
<1>14. ASSUME RecordFailure(r)
       PROVE  Goal
  <2>1. /\ mem'[r].round = mem[r].round /\ rounds' = rounds /\ (row' = row \/ row' = mem'[r])
        /\ pc[r] = "failing" /\ pc'[r] = "prune"
    BY <1>0, <1>14 DEF RecordFailure, Save, Goto, Task
  <2> QED BY <1>0, <1>F, <1>D, <2>1 DEF Follows, Underway, Entered
<1>15. ASSUME PruneBranches(r) \/ FinishJob(r)
       PROVE  Goal
  <2>1. /\ mem' = mem /\ rounds' = rounds /\ row' = row
        /\ pc[r] \in {"prune", "over"} /\ pc'[r] \in {"over", "ended"}
    BY <1>0, <1>15 DEF PruneBranches, FinishJob, Goto
  <2> QED BY <1>U, <2>1
<1>16. ASSUME Err(r)
       PROVE  Goal
  <2>1. /\ mem' = mem /\ rounds' = rounds /\ row' = row /\ pc'[r] = "failing"
        /\ pc[r] \in {"planning", "plan", "round", "deliver", "reviews"}
    BY <1>0, <1>16 DEF Err, ReviewsAreIn, Goto
  <2> QED BY <1>U, <2>1 DEF Entered
<1>17. ASSUME Crash(r)
       PROVE  Goal
  <2>1. mem' = mem /\ rounds' = rounds /\ row' = row /\ pc'[r] = "dead"
    BY <1>0, <1>17 DEF Crash, Goto
  <2> QED BY <1>U, <2>1
<1>18. ASSUME NEW i \in Indexes, LoseReview(r, i)
       PROVE  Goal
  BY <1>18, <1>U DEF LoseReview, Underway, Entered
<1> HIDE DEF Goal
<1>19. Goal
  BY <1>1, <1>2, <1>3, <1>4, <1>5, <1>6, <1>7, <1>8, <1>9, <1>10, <1>11, <1>12, <1>13, <1>14, <1>15, <1>16, <1>17,
     <1>18 DEF RunStep, RunFault
<1>20. ASSUME NEW q \in Runs \ {r} PROVE Follows(q)'
  <2>1. pc'[q] \in {"dead", "off"}
    <3>1. q < r \/ q > r
      BY DEF Runs
    <3> QED BY <3>1, Alone DEF Single
  <2> QED BY <2>1 DEF Follows, Underway, Entered
<1>21. Between'
  <2> SUFFICES ASSUME stops = 0, pc'[r] = "dead" PROVE (rounds <= row.round + DeadRuns)'
    <3>1. pc'[r] # "off"
      BY <1>0, Moves
    <3> QED BY <1>D, <3>1 DEF Between
  <2>1. Crash(r)
    BY <1>0, Moves
  <2>2. rounds' = rounds /\ row' = row /\ DeadRuns' = DeadRuns + 1
    BY <1>D, <2>1 DEF Crash
  <2>3. CASE pc[r] \in Phases \ {"off", "dead"}
    BY <1>0, <1>F, <1>D, <2>2, <2>3 DEF Follows, Phases, Underway, Entered
  <2> QED BY <1>0, <2>1, <2>3 DEF Crash
<1> QED BY <1>19, <1>20, <1>21 DEF RoundsFollow, Goal

\* A crash repeats the round it interrupts and no other.
THEOREM RoundsCorrect == Spec => []RoundsBounded
<1>1. Init => RoundsFollow
  <2> SUFFICES ASSUME Init PROVE RoundsFollow
    OBVIOUS
  <2>1. /\ rounds = 0 /\ row.round = 0 /\ \A r \in Runs : pc[r] = "off"
    BY DEF Init
  <2>2. DeadRuns \in Nat
    BY RunSets DEF DeadRuns
  <2> QED BY <2>1, <2>2 DEF RoundsFollow, Between, Follows, Underway, Entered
<1>2. Single /\ RoundsFollow /\ [Next]_vars => RoundsFollow'
  <2> SUFFICES ASSUME Single, RoundsFollow, [Next]_vars PROVE RoundsFollow'
    OBVIOUS
  <2>1. CASE WriteStop
    <3>1. stops \in Nat
      BY DEF Single, TypeInv, TypeOK
    <3>2. stops' # 0
      BY <2>1, <3>1 DEF WriteStop
    <3> QED BY <3>2 DEF RoundsFollow, Between, Follows
  <2>2. CASE ReadForStop \/ UNCHANGED vars
    <3>1. UNCHANGED <<row, pc, mem, rounds, stops>>
      BY <2>2 DEF ReadForStop, vars, storeVars, runVars, tally, history
    <3> QED BY <3>1 DEF RoundsFollow, Between, Follows, DeadRuns
  <2> QED BY <2>1, <2>2, RoundsStep DEF Next
<1>3. Single /\ RoundsFollow => RoundsBounded
  <2> SUFFICES ASSUME Single, RoundsFollow, stops = 0 PROVE rounds <= MaxRounds + DeadRuns
    BY DEF RoundsBounded
  <2>1. /\ rounds \in Nat /\ DeadRuns \in Nat /\ row.round \in 0 .. MaxRounds
        /\ \A r \in Runs : mem[r].round \in 0 .. MaxRounds /\ (pc[r] \in Entered => mem[r].round < MaxRounds)
    BY RunSets DEF Single, TypeInv, TypeOK, Task, DeadRuns
  <2>2. CASE \A r \in Runs : pc[r] \in {"off", "dead"}
    BY <2>1, <2>2, CountAssumption DEF RoundsFollow, Between
  <2>3. ASSUME NEW r \in Runs, pc[r] \notin {"off", "dead"} PROVE rounds <= MaxRounds + DeadRuns
    <3>1. pc[r] \in Phases /\ Follows(r)
      BY DEF Single, TypeInv, RoundsFollow
    <3> QED BY <2>1, <2>3, <3>1, CountAssumption DEF Follows, Phases, Underway, Entered
  <2> QED BY <2>2, <2>3
<1>4. ~ Overlap /\ Spec => []RoundsBounded
  BY <1>1, <1>2, <1>3, SingleInvariance, PTL DEF Spec
<1>5. Overlap /\ Spec => []RoundsBounded
  <2>1. Overlap /\ [Next]_vars => Overlap'
    OBVIOUS
  <2>2. Overlap => RoundsBounded
    BY DEF RoundsBounded
  <2> QED BY <2>1, <2>2, PTL DEF Spec
<1> QED BY <1>4, <1>5, PTL

-----------------------------------------------------------------------------
(* Costs *)

\* Attempts of the round that have ended, and are not yet in the copy's spend.
Ended(r) == {i \in Indexes : work[r][i] \notin {"pending", "panicked"}}
Owed(r) == IF pc[r] = "attempts" THEN Cardinality(Ended(r)) ELSE 0

\* Saving counts each save that is lost.
LEMMA SaveCosts ==
  ASSUME TypeInv, NEW ids, IsFiniteSet(ids), SaveAttempts(ids)
  PROVE  faults' \in Nat /\ faults <= faults'
<1>1. PICK lost \in SUBSET ids : Faults(Cardinality(lost))
  BY DEF SaveAttempts
<1>2. Cardinality(lost) \in Nat /\ faults \in Nat
  BY FS_Subset, FS_CardinalityType DEF TypeInv, TypeOK
<1> QED BY <1>1, <1>2 DEF Faults

\* Faults are only counted up.
LEMMA FaultsStep ==
  ASSUME TypeInv, NEW r \in Runs, RunStep(r) \/ RunFault(r)
  PROVE  faults' \in Nat /\ faults <= faults'
<1> DEFINE Goal == faults' \in Nat /\ faults <= faults'
<1>0. faults \in Nat
  BY DEF TypeInv, TypeOK
<1> USE <1>0 DEF tally, history
<1>1. ASSUME Start(r) \/ EnterRound(r) \/ NoticeCancellation(r) \/ ExhaustBudget(r) \/ RefusePullRequest(r)
             \/ FinishJob(r) \/ OpenPullRequest(r) \/ Crash(r)
      PROVE  Goal
  BY <1>1 DEF Start, EnterRound, NoticeCancellation, ExhaustBudget, RefusePullRequest, FinishJob,
              OpenPullRequest, Crash
<1>2. ASSUME BeginPlanning(r) \/ Plan(r) \/ BeginReviews(r) \/ RecordDelivery(r) \/ BeginRound(r)
      PROVE  Goal
  BY <1>2 DEF BeginPlanning, Plan, BeginReviews, RecordDelivery, BeginRound, WriteOrFail, Faults
<1>3. ASSUME RoundWithoutSurvivor(r) \/ RoundWithoutReview(r) \/ RoundSentBack(r)
      PROVE  Goal
  BY <1>3 DEF RoundWithoutSurvivor, RoundWithoutReview, RoundSentBack, CloseRound, WriteOrFail, Faults
<1>4. ASSUME LoseAnswer(r) \/ Err(r) \/ RecordFailure(r) \/ (\E i \in Indexes : LoseReview(r, i))
      PROVE  Goal
  BY <1>4 DEF LoseAnswer, Err, RecordFailure, LoseReview, Faults
<1>5. ASSUME NEW i \in Indexes, NEW outcome \in Outcomes, EndAttempt(r, i, outcome)
      PROVE  Goal
  BY <1>5 DEF EndAttempt, Faults
<1>6. ASSUME CollectRound(r) \/ Approve(r) \/ SendBack(r)
      PROVE  Goal
  <2>1. pc[r] \in Entered
    BY <1>6 DEF CollectRound, Approve, SendBack, ReviewsAreIn, Entered
  <2>2. Passed(r) \subseteq Indexes /\ Reviewed(r) \subseteq Indexes
    BY DEF Passed, Reviewed
  <2>3. IsFiniteSet({IdOf(r, i) : i \in Passed(r)}) /\ IsFiniteSet({IdOf(r, i) : i \in Reviewed(r)})
    BY <2>1, <2>2, RoundIds
  <2>4. IsFiniteSet({IdOf(r, Best(r))})
    BY FS_Singleton
  <2> QED BY <1>6, <2>3, <2>4, SaveCosts DEF CollectRound, Approve, SendBack
<1>7. ASSUME NEW i \in Indexes, NEW grade \in 0 .. MaxRank, Review(r, i, grade)
      PROVE  Goal
  <2>1. IsFiniteSet({IdOf(r, i)})
    BY FS_Singleton
  <2> QED BY <1>7, <2>1, SaveCosts DEF Review
<1>8. ASSUME PruneBranches(r)
      PROVE  Goal
  <2> DEFINE rejected == {a.branch : a \in saved} \ Kept(r)
  <2>1. CASE MayPrune
    <3>1. PICK failed \in SUBSET rejected :
            Faults(Cardinality(failed)) \/ (failed = rejected /\ Faults(1))
      BY <1>8, <2>1 DEF PruneBranches
    <3>2. rejected \subseteq Branches
      BY DEF TypeInv, TypeOK, AttemptIds
    <3>3. Cardinality(failed) \in Nat
      BY <3>2, BranchesFinite, FS_Subset, FS_CardinalityType
    <3> QED BY <3>1, <3>3 DEF Faults
  <2>2. CASE ~ MayPrune
    BY <1>8, <2>2 DEF PruneBranches
  <2> QED BY <2>1, <2>2
<1> HIDE DEF Goal
<1>9. Goal
  BY <1>1, <1>2, <1>3, <1>4, <1>5, <1>6, <1>7, <1>8 DEF RunStep, RunFault
<1> QED BY <1>9 DEF Goal

\* What a step of a run costs is in its copy, or owed to it, or was lost with a panic. Only a
\* crash forgets what is owed.
LEMMA CostStep ==
  ASSUME TypeInv, Spending, NEW r \in Runs, RunStep(r) \/ RunFault(r)
  PROVE  /\ Owed(r) \in Nat /\ Owed(r)' \in Nat
         /\ pc[r] = "off" => spent' = spent /\ mem'[r] = row /\ row' = row /\ Owed(r)' = 0
         /\ pc'[r] = "dead" => spent' = spent /\ mem' = mem /\ row' = row
         /\ pc[r] # "off" /\ pc'[r] # "dead" =>
              spent' + mem[r].spend + Owed(r) + faults <= spent + mem'[r].spend + Owed(r)' + faults'
<1> USE DEF storeVars, forgeVars, runVars, tally, history
<1> DEFINE Paid == spent' + mem[r].spend + Owed(r) + faults <= spent + mem'[r].spend + Owed(r)' + faults'
<1>0. /\ pc \in [Runs -> Phases] /\ mem \in [Runs -> Task] /\ mem[r] \in Task /\ mem[r].spend \in Nat
      /\ spent \in Nat /\ faults \in Nat /\ faults' \in Nat /\ faults <= faults'
      /\ work \in [Runs -> [Indexes -> Outcomes \cup {"pending"}]]
  BY FaultsStep DEF TypeInv, TypeOK, Task
<1>E. /\ IsFiniteSet(Ended(r)) /\ Cardinality(Ended(r)) \in Nat
      /\ IsFiniteSet(Ended(r)') /\ Cardinality(Ended(r)') \in Nat
  <2>1. Ended(r) \subseteq Indexes /\ Ended(r)' \subseteq Indexes
    BY DEF Ended
  <2> QED BY <2>1, IndexSets
<1>O. Owed(r) \in Nat /\ Owed(r)' \in Nat
  <2>1. Owed(r)' = IF pc'[r] = "attempts" THEN Cardinality(Ended(r)') ELSE 0
    BY DEF Owed
  <2> QED BY <1>E, <2>1 DEF Owed
\* Nothing is spent, and no attempt is under way.
<1>G. ASSUME spent' = spent, mem'[r].spend = mem[r].spend, pc[r] # "attempts", pc'[r] # "attempts"
      PROVE  Paid
  <2>1. Owed(r) = 0 /\ Owed(r)' = 0
    BY <1>G DEF Owed
  <2> QED BY <1>0, <1>G, <2>1
<1>1. ASSUME EnterRound(r) \/ ExhaustBudget(r) \/ RefusePullRequest(r) \/ PruneBranches(r) \/ FinishJob(r)
             \/ LoseAnswer(r) \/ Err(r)
      PROVE  Paid
  <2>1. spent' = spent /\ mem' = mem /\ pc[r] # "attempts" /\ pc'[r] # "attempts"
    BY <1>0, <1>1 DEF EnterRound, ExhaustBudget, RefusePullRequest, PruneBranches, FinishJob, LoseAnswer, Err,
                      ReviewsAreIn, Goto
  <2> QED BY <2>1, <1>G
<1>2. ASSUME NoticeCancellation(r) \/ OpenPullRequest(r) \/ RecordFailure(r)
      PROVE  Paid
  <2>1. spent' = spent /\ mem'[r].spend = mem[r].spend /\ pc[r] # "attempts" /\ pc'[r] # "attempts"
    BY <1>0, <1>2 DEF NoticeCancellation, OpenPullRequest, RecordFailure, Goto, Task
  <2> QED BY <2>1, <1>G
<1>3. ASSUME BeginPlanning(r) \/ BeginReviews(r) \/ RecordDelivery(r)
      PROVE  Paid
  <2>1. spent' = spent /\ mem'[r].spend = mem[r].spend /\ pc[r] # "attempts" /\ pc'[r] # "attempts"
    BY <1>0, <1>3 DEF BeginPlanning, BeginReviews, RecordDelivery, WriteOrFail, Goto, Task
  <2> QED BY <2>1, <1>G
<1>4. ASSUME RoundWithoutSurvivor(r) \/ RoundWithoutReview(r) \/ RoundSentBack(r)
      PROVE  Paid
  <2>1. spent' = spent /\ mem'[r].spend = mem[r].spend /\ pc[r] # "attempts" /\ pc'[r] # "attempts"
    BY <1>0, <1>4 DEF RoundWithoutSurvivor, RoundWithoutReview, RoundSentBack, ReviewsAreIn, CloseRound,
                      WriteOrFail, Goto, Task
  <2> QED BY <2>1, <1>G
<1>5. ASSUME Plan(r)
      PROVE  Paid
  <2> DEFINE known == [mem[r] EXCEPT !.planned = TRUE]
             task == [known EXCEPT !.spend = @ + 1]
  <2>1. task.spend = mem[r].spend + 1
    <3>1. known \in Task /\ known.spend = mem[r].spend
      BY <1>0 DEF Task
    <3> HIDE DEF known
    <3> QED BY <1>0, <3>1 DEF Task
  <2>2. mem' = [mem EXCEPT ![r] = task] /\ spent' = spent + 1 /\ WriteOrFail(r, "round") /\ pc[r] = "plan"
    BY <1>0, <1>5 DEF Plan
  <2> HIDE DEF task
  <2>3. Owed(r) = 0 /\ Owed(r)' = 0
    BY <1>0, <2>2 DEF Owed, WriteOrFail, Goto
  <2>4. mem'[r].spend = mem[r].spend + 1
    BY <1>0, <2>1, <2>2
  <2> QED BY <1>0, <2>2, <2>3, <2>4
<1>6. ASSUME BeginRound(r)
      PROVE  Paid
  <2>1. spent' = spent /\ mem'[r].spend = mem[r].spend /\ pc[r] = "begin" /\ work'[r] = NoWork
    BY <1>0, <1>6 DEF BeginRound, Task
  <2>2. Ended(r)' = {}
    BY <2>1 DEF Ended, NoWork
  <2>3. Owed(r) = 0 /\ Owed(r)' = 0
    BY <2>1, <2>2, FS_EmptySet DEF Owed
  <2> QED BY <1>0, <2>1, <2>3
<1>7. ASSUME CollectRound(r)
      PROVE  Paid
  <2>1. pc[r] = "attempts" /\ pc'[r] = "collected" /\ spent' = spent /\ Returned(r) = Ended(r)
    BY <1>0, <1>7 DEF CollectRound, Goto, Returned, Ended
  <2>2. mem'[r].spend = mem[r].spend + Cardinality(Returned(r))
    BY <1>0, <1>7 DEF CollectRound, Task
  <2>3. Owed(r) = Cardinality(Ended(r)) /\ Owed(r)' = 0
    BY <2>1 DEF Owed
  <2>4. mem'[r].spend = mem[r].spend + Owed(r)
    BY <2>1, <2>2, <2>3
  <2> QED BY <1>0, <1>O, <2>1, <2>3, <2>4
<1>8. ASSUME NEW i \in Indexes, NEW outcome \in Outcomes, EndAttempt(r, i, outcome)
      PROVE  Paid
  <2>1. /\ pc[r] = "attempts" /\ pc' = pc /\ mem' = mem /\ spent' = spent + 1 /\ work[r][i] = "pending"
        /\ work'[r] = [work[r] EXCEPT ![i] = outcome]
    BY <1>0, <1>8 DEF EndAttempt
  <2>2. Owed(r) = Cardinality(Ended(r)) /\ Owed(r)' = Cardinality(Ended(r)')
    BY <2>1 DEF Owed
  <2>3. CASE outcome = "panicked"
    <3>1. Ended(r)' = Ended(r)
      BY <1>0, <2>1, <2>3 DEF Ended
    <3>2. faults' = faults + 1
      BY <1>8, <2>3 DEF EndAttempt, Faults
    <3> QED BY <1>0, <1>E, <2>1, <2>2, <3>1, <3>2
  <2>4. CASE outcome # "panicked"
    <3>1. Ended(r)' = Ended(r) \cup {i} /\ i \notin Ended(r)
      BY <1>0, <2>1, <2>4 DEF Ended, Outcomes
    <3>2. Cardinality(Ended(r) \cup {i}) = Cardinality(Ended(r)) + 1
      BY <1>E, <3>1, FS_AddElement
    <3> QED BY <1>0, <1>E, <2>1, <2>2, <3>1, <3>2
  <2> QED BY <2>3, <2>4
<1>9. ASSUME NEW i \in Indexes, NEW grade \in 0 .. MaxRank, Review(r, i, grade)
      PROVE  Paid
  <2>1. pc[r] = "reviews" /\ pc' = pc
    BY <1>9 DEF Review
  <2>2. PICK cost \in {0, 1} : mem' = [mem EXCEPT ![r].spend = @ + cost] /\ spent' = spent + cost
    BY <1>9 DEF Review
  <2>3. mem'[r].spend = mem[r].spend + cost
    BY <1>0, <2>2 DEF Task
  <2>4. Owed(r) = 0 /\ Owed(r)' = 0
    BY <2>1 DEF Owed
  <2> QED BY <1>0, <2>2, <2>3, <2>4
<1>10. ASSUME Approve(r) \/ SendBack(r)
       PROVE  Paid
  <2>1. /\ pc[r] = "reviews" /\ pc'[r] # "attempts" /\ spent' = spent + 1
        /\ mem' = [mem EXCEPT ![r].spend = @ + 1]
    BY <1>0, <1>10 DEF Approve, SendBack, ReviewsAreIn, Goto
  <2>2. mem'[r].spend = mem[r].spend + 1
    BY <1>0, <2>1 DEF Task
  <2>3. Owed(r) = 0 /\ Owed(r)' = 0
    BY <2>1 DEF Owed
  <2> QED BY <1>0, <2>1, <2>2, <2>3
<1>11. ASSUME NEW i \in Indexes, LoseReview(r, i)
       PROVE  Paid
  <2>1. /\ pc[r] = "reviews" /\ pc' = pc /\ mem' = mem /\ faults' = faults + 1
        /\ spent' = spent \/ spent' = spent + 1
    BY <1>11 DEF LoseReview, Faults
  <2>2. Owed(r) = 0 /\ Owed(r)' = 0
    BY <2>1 DEF Owed
  <2> QED BY <1>0, <2>1, <2>2
<1> HIDE DEF Paid
<1>12. ASSUME pc[r] # "off", pc'[r] # "dead"
       PROVE  Paid
  <2>1. ~ Start(r) /\ ~ Crash(r)
    BY <1>0, <1>12 DEF Start, Crash, Goto
  <2> QED BY <2>1, <1>1, <1>2, <1>3, <1>4, <1>5, <1>6, <1>7, <1>8, <1>9, <1>10, <1>11 DEF RunStep, RunFault
<1>13. ASSUME pc[r] = "off"
       PROVE  spent' = spent /\ mem'[r] = row /\ row' = row /\ Owed(r)' = 0
  <2>1. Start(r)
    BY <1>13, Moves
  <2>2. pc'[r] # "attempts"
    BY <1>0, <2>1 DEF Start, Goto
  <2> QED BY <1>0, <2>1, <2>2 DEF Start, Owed
<1>14. ASSUME pc'[r] = "dead"
       PROVE  spent' = spent /\ mem' = mem /\ row' = row
  <2>1. Crash(r)
    BY <1>14, Moves
  <2> QED BY <2>1 DEF Crash
<1> QED BY <1>O, <1>12, <1>13, <1>14 DEF Paid

\* How far the row is behind the copy: what a crash would forget, but for what is owed.
Lags(r) ==
  stops = 0 =>
    /\ pc[r] \in {"planning", "plan", "round", "begin", "attempts"} => mem[r].spend <= row.spend
    /\ pc[r] = "collected" => mem[r].spend <= row.spend + Attempts
    /\ pc[r] = "reviews" => mem[r].spend <= row.spend + Cardinality(Graded(r))
    /\ pc[r] \in {"sentback", "deliver", "record", "failing", "prune", "over", "ended"} =>
         mem[r].spend <= row.spend + Attempts + 1

\* A step of the only run keeps the row that close behind.
LEMMA LagStep ==
  ASSUME Single, Spending, NEW r \in Runs, Lags(r), RunStep(r) \/ RunFault(r)
  PROVE  Lags(r)'
<1> USE CountAssumption DEF storeVars, forgeVars, runVars, tally, history
<1> DEFINE Goal == Lags(r)'
           First == {"planning", "plan", "round", "begin", "attempts"}
           Last == {"sentback", "deliver", "record", "failing", "prune", "over", "ended"}
<1>0. /\ TypeInv /\ pc \in [Runs -> Phases] /\ mem \in [Runs -> Task] /\ mem[r] \in Task /\ row \in Task
      /\ mem[r].spend \in Nat /\ row.spend \in Nat /\ stops \in Nat /\ stops' = stops
  BY Frame DEF Single, TypeInv, TypeOK, Task
<1>N. Graded(r) \subseteq Indexes /\ Cardinality(Graded(r)) \in Nat /\ Cardinality(Graded(r)) <= Attempts
      /\ IsFiniteSet(Graded(r))
  <2>1. Graded(r) \subseteq Indexes
    BY DEF Graded
  <2> QED BY <2>1, IndexSets
\* In a phase that is not the first of a round the row is behind by one round at most.
<1>M. stops = 0 /\ pc[r] \in {"collected", "reviews"} \cup First \cup Last => mem[r].spend <= row.spend + Attempts + 1
  BY <1>0, <1>N DEF Lags
\* Nothing is spent and nothing written, and the row may be as far behind as it is.
<1>U. ASSUME row' = row, mem'[r].spend = mem[r].spend,
             \/ pc[r] \in First /\ pc'[r] \in First
             \/ pc[r] \in {"collected", "reviews"} \cup First \cup Last /\ pc'[r] \in Last
             \/ pc'[r] = "dead"
      PROVE  Goal
  BY <1>0, <1>M, <1>U DEF Lags
\* A write that may fail.
<1>W. ASSUME NEW to \in Phases \ {"collected", "reviews"}, WriteOrFail(r, to), mem'[r].spend = mem[r].spend,
             pc[r] \in {"collected", "reviews"} \cup First \cup Last
      PROVE  Goal
  <2>1. (row' = mem'[r] /\ pc'[r] = to) \/ (row' = row /\ pc'[r] = "failing")
    BY <1>0, <1>W DEF WriteOrFail, Save, Goto
  <2> QED BY <1>0, <1>M, <1>U, <1>W, <2>1 DEF Lags, Phases
<1>1. ASSUME Start(r)
      PROVE  Goal
  <2>1. mem'[r] = row /\ row' = row /\ pc'[r] \in {"round", "planning"}
    BY <1>0, <1>1 DEF Start, Goto
  <2> QED BY <1>0, <2>1 DEF Lags
<1>2. ASSUME BeginPlanning(r)
      PROVE  Goal
  <2>1. mem'[r].spend = mem[r].spend /\ pc[r] = "planning"
    BY <1>0, <1>2 DEF BeginPlanning, Task
  <2>2. WriteOrFail(r, "plan") \/ (row' = row /\ pc'[r] = "plan")
    BY <1>0, <1>2 DEF BeginPlanning, Goto
  <2> QED BY <2>1, <2>2, <1>U, <1>W DEF Phases
<1>3. ASSUME Plan(r)
      PROVE  Goal
  <2> DEFINE known == [mem[r] EXCEPT !.planned = TRUE]
             task == [known EXCEPT !.spend = @ + 1]
  <2>1. task.spend = mem[r].spend + 1
    <3>1. known \in Task /\ known.spend = mem[r].spend
      BY <1>0 DEF Task
    <3> HIDE DEF known
    <3> QED BY <1>0, <3>1 DEF Task
  <2>2. mem' = [mem EXCEPT ![r] = task] /\ pc[r] = "plan" /\ WriteOrFail(r, "round")
    BY <1>0, <1>3 DEF Plan
  <2> HIDE DEF task
  <2>3. /\ mem'[r].spend = mem[r].spend + 1
        /\ (row' = mem'[r] /\ pc'[r] = "round") \/ (row' = row /\ pc'[r] = "failing")
    BY <1>0, <2>1, <2>2 DEF WriteOrFail, Save, Goto
  <2> QED BY <1>0, <2>2, <2>3 DEF Lags
<1>4. ASSUME EnterRound(r) \/ ExhaustBudget(r) \/ RefusePullRequest(r) \/ PruneBranches(r) \/ FinishJob(r)
             \/ LoseAnswer(r) \/ Err(r) \/ Crash(r)
      PROVE  Goal
  <2>1. /\ row' = row /\ mem' = mem
        /\ \/ pc[r] = "round" /\ pc'[r] = "begin"
           \/ pc[r] \in {"reviews"} \cup First \cup Last /\ pc'[r] \in {"failing", "over", "ended"}
           \/ pc'[r] = "dead"
    BY <1>0, <1>4 DEF EnterRound, ExhaustBudget, RefusePullRequest, PruneBranches, FinishJob, LoseAnswer, Err,
                      Crash, ReviewsAreIn, Goto
  <2> QED BY <2>1, <1>U
<1>5. ASSUME NoticeCancellation(r) \/ OpenPullRequest(r)
      PROVE  Goal
  <2>1. /\ row' = row /\ mem'[r].spend = mem[r].spend
        /\ pc[r] \in {"round", "deliver"} /\ pc'[r] \in {"prune", "record"}
    BY <1>0, <1>5 DEF NoticeCancellation, OpenPullRequest, Goto, Task
  <2> QED BY <2>1, <1>U
<1>6. ASSUME BeginRound(r)
      PROVE  Goal
  <2>1. mem'[r].spend = mem[r].spend /\ pc[r] = "begin"
    BY <1>0, <1>6 DEF BeginRound, Task
  <2>2. WriteOrFail(r, "attempts") \/ (row' = row /\ pc'[r] = "attempts")
    BY <1>0, <1>6 DEF BeginRound, Goto
  <2> QED BY <2>1, <2>2, <1>U, <1>W DEF Phases
<1>7. ASSUME CollectRound(r)
      PROVE  Goal
  <2>1. Cardinality(Returned(r)) \in Nat /\ Cardinality(Returned(r)) <= Attempts
    BY IndexSets DEF Returned
  <2>2. /\ mem'[r].spend = mem[r].spend + Cardinality(Returned(r))
        /\ row' = row /\ pc[r] = "attempts" /\ pc'[r] = "collected"
    BY <1>0, <1>7 DEF CollectRound, Goto, Task
  <2> QED BY <1>0, <2>1, <2>2 DEF Lags
<1>8. ASSUME RoundWithoutSurvivor(r) \/ RoundWithoutReview(r) \/ RoundSentBack(r)
      PROVE  Goal
  <2>1. pc[r] \in {"collected", "reviews", "sentback"} /\ CloseRound(r)
    BY <1>8 DEF RoundWithoutSurvivor, RoundWithoutReview, RoundSentBack, ReviewsAreIn
  <2>2. mem'[r].spend = mem[r].spend /\ WriteOrFail(r, "round")
    BY <1>0, <2>1 DEF CloseRound, Task
  <2> QED BY <2>1, <2>2, <1>W DEF Phases
<1>9. ASSUME BeginReviews(r)
      PROVE  Goal
  <2>1. /\ mem'[r].spend = mem[r].spend /\ pc[r] = "collected" /\ rank' = rank
        /\ (row' = mem'[r] /\ pc'[r] = "reviews") \/ (row' = row /\ pc'[r] = "failing")
    BY <1>0, <1>9 DEF BeginReviews, WriteOrFail, Save, Goto, Task
  <2>2. Graded(r)' = Graded(r)
    BY <2>1 DEF Graded
  <2>3. Cardinality(Graded(r))' = Cardinality(Graded(r)')
    BY DEF Graded
  <2> QED BY <1>0, <1>N, <1>M, <2>1, <2>2, <2>3 DEF Lags
<1>10. ASSUME NEW i \in Indexes, NEW outcome \in Outcomes, EndAttempt(r, i, outcome)
       PROVE  Goal
  BY <1>10, <1>U DEF EndAttempt
<1>11. ASSUME NEW i \in Indexes, NEW grade \in 0 .. MaxRank, Review(r, i, grade)
       PROVE  Goal
  <2>1. pc[r] = "reviews" /\ pc' = pc /\ row' = row /\ rank' = [rank EXCEPT ![r][i] = grade] /\ rank[r][i] = None
    BY <1>11 DEF Review
  <2>2. PICK cost \in {0, 1} : mem' = [mem EXCEPT ![r].spend = @ + cost]
    BY <1>11 DEF Review
  <2>3. mem'[r].spend = mem[r].spend + cost
    BY <1>0, <2>2 DEF Task
  <2>4. Graded(r)' = Graded(r) \cup {i} /\ i \notin Graded(r)
    <3>1. rank'[r] = [rank[r] EXCEPT ![i] = grade] /\ rank[r] \in [Indexes -> 0 .. MaxRank \cup {None}]
      BY <1>0, <2>1 DEF TypeInv, TypeOK
    <3>2. grade # None
      BY NoneAssumption
    <3> QED BY <2>1, <3>1, <3>2 DEF Graded
  <2>5. Cardinality(Graded(r)') = Cardinality(Graded(r)) + 1
    <3>1. Cardinality(Graded(r) \cup {i}) = Cardinality(Graded(r)) + 1
      BY <1>N, <2>4, FS_AddElement
    <3> QED BY <2>4, <3>1
  <2>6. Cardinality(Graded(r))' = Cardinality(Graded(r)')
    BY DEF Graded
  <2> QED BY <1>0, <1>N, <2>1, <2>3, <2>5, <2>6 DEF Lags
<1>12. ASSUME Approve(r) \/ SendBack(r)
       PROVE  Goal
  <2>1. /\ pc[r] = "reviews" /\ pc'[r] \in {"deliver", "record", "sentback"} /\ row' = row
        /\ mem' = [mem EXCEPT ![r].spend = @ + 1]
    BY <1>0, <1>12 DEF Approve, SendBack, ReviewsAreIn, Goto
  <2>2. mem'[r].spend = mem[r].spend + 1
    BY <1>0, <2>1 DEF Task
  <2> QED BY <1>0, <1>N, <2>1, <2>2 DEF Lags
<1>13. ASSUME RecordDelivery(r)
       PROVE  Goal
  <2>1. mem'[r].spend = mem[r].spend /\ WriteOrFail(r, "prune") /\ pc[r] = "record"
    BY <1>0, <1>13 DEF RecordDelivery, Task
  <2> QED BY <2>1, <1>W DEF Phases
<1>14. ASSUME RecordFailure(r)
       PROVE  Goal
  <2>1. /\ mem'[r].spend = mem[r].spend /\ pc[r] = "failing" /\ pc'[r] = "prune"
        /\ row' = row \/ row' = mem'[r]
    BY <1>0, <1>14 DEF RecordFailure, Save, Goto, Task
  <2> QED BY <1>0, <2>1 DEF Lags
<1>15. ASSUME NEW i \in Indexes, LoseReview(r, i)
       PROVE  Goal
  <2>1. pc[r] = "reviews" /\ pc' = pc /\ mem' = mem /\ row' = row /\ rank' = rank
    BY <1>15 DEF LoseReview
  <2>2. Cardinality(Graded(r))' = Cardinality(Graded(r))
    BY <2>1 DEF Graded
  <2> QED BY <1>0, <2>1, <2>2 DEF Lags
<1> HIDE DEF Goal
<1>16. Goal
  BY <1>1, <1>2, <1>3, <1>4, <1>5, <1>6, <1>7, <1>8, <1>9, <1>10, <1>11, <1>12, <1>13, <1>14, <1>15
     DEF RunStep, RunFault
<1> QED BY <1>16 DEF Goal

\* What all runs have cost: each has its own ceiling, and while nobody stops the task they have
\* one together, but for what each crash has forgotten.
Costs ==
  /\ spent <= RunsBegun * Ceiling + faults
  /\ stops = 0 /\ (\A r \in Runs : pc[r] \in {"off", "dead"}) =>
       spent <= row.spend + DeadRuns * (Attempts + 1) + faults
  /\ \A r \in Runs : pc[r] \notin {"off", "dead"} =>
       /\ spent + Ceiling <= RunsBegun * Ceiling + mem[r].spend + Owed(r) + faults
       /\ stops = 0 => spent <= mem[r].spend + Owed(r) + DeadRuns * (Attempts + 1) + faults
       /\ Lags(r)

\* A step begins one run, or none.
LEMMA BegunStep ==
  ASSUME TypeInv, NEW r \in Runs, RunStep(r) \/ RunFault(r)
  PROVE  /\ RunsBegun \in Nat /\ RunsBegun' \in Nat
         /\ RunsBegun' = IF pc[r] = "off" THEN RunsBegun + 1 ELSE RunsBegun
<1> DEFINE B == {q \in Runs : pc[q] # "off"}
           C == {q \in Runs : pc'[q] # "off"}
<1>1. IsFiniteSet(B) /\ Cardinality(B) \in Nat /\ Cardinality(C) \in Nat
  BY RunSets
<1>2. pc'[r] # "off" /\ \A q \in Runs \ {r} : pc'[q] = pc[q]
  BY Frame, Moves
<1>3. CASE pc[r] = "off"
  <2>1. C = B \cup {r} /\ r \notin B
    BY <1>2, <1>3
  <2>2. Cardinality(B \cup {r}) = Cardinality(B) + 1
    BY <1>1, <2>1, FS_AddElement
  <2> QED BY <1>1, <1>3, <2>1, <2>2 DEF RunsBegun
<1>4. CASE pc[r] # "off"
  <2>1. C = B
    BY <1>2, <1>4
  <2> QED BY <1>1, <1>4, <2>1 DEF RunsBegun
<1> QED BY <1>3, <1>4

\* One more of something that is counted n times.
LEMMA OneMore == ASSUME NEW n \in Nat, NEW k \in Nat PROVE (n + 1) * k = n * k + k /\ n * k \in Nat
OBVIOUS

\* What a run's copy shows, and what is owed to it, stays under the ceiling.
LEMMA UnderCeiling ==
  ASSUME TypeInv, Spending, NEW r \in Runs
  PROVE  /\ Ceiling \in Nat /\ Owed(r) \in Nat /\ mem[r].spend \in Nat /\ row.spend \in Nat
         /\ mem[r].spend + Owed(r) <= Ceiling /\ row.spend <= Ceiling
         /\ Owed(r) <= Attempts /\ (pc[r] # "attempts" => Owed(r) = 0)
<1>1. Cardinality(Ended(r)) \in Nat /\ Cardinality(Ended(r)) <= Attempts
  BY IndexSets DEF Ended
<1>2. mem[r] \in Task /\ row \in Task /\ mem[r].spend \in Nat /\ row.spend \in Nat
  BY DEF TypeInv, TypeOK, Task
<1> QED BY <1>1, <1>2, CountAssumption DEF Owed, Spending, Sound, Ceiling

\* A step of the only run keeps the costs explained.
LEMMA CostsStep ==
  ASSUME Single, Spending, Spending', TypeInv', Costs, NEW r \in Runs, RunStep(r) \/ RunFault(r)
  PROVE  Costs'
<1> DEFINE P == RunsBegun * Ceiling
           Q == DeadRuns * (Attempts + 1)
           m == mem[r].spend + Owed(r)
           n == mem'[r].spend + Owed(r)'
<1>0. /\ TypeInv /\ pc \in [Runs -> Phases] /\ stops' = stops /\ Attempts + 1 \in Nat /\ Attempts \in Nat
      /\ {spent, faults, stops, spent', faults', stops'} \subseteq Nat
  BY Frame, CountAssumption DEF Single, TypeInv, TypeOK
<1>1. /\ Ceiling \in Nat /\ m \in Nat /\ m <= Ceiling /\ row.spend \in Nat /\ row.spend <= Ceiling
      /\ mem[r].spend \in Nat /\ Owed(r) \in Nat /\ Owed(r) <= Attempts /\ (pc[r] # "attempts" => Owed(r) = 0)
  BY <1>0, UnderCeiling
<1>2. n \in Nat /\ n <= Ceiling /\ mem'[r].spend \in Nat /\ Owed(r)' \in Nat
  <2>1. Cardinality(Ended(r)') \in Nat /\ Cardinality(Ended(r)') <= Attempts
    BY IndexSets DEF Ended
  <2>2. Owed(r)' = IF pc'[r] = "attempts" THEN Cardinality(Ended(r)') ELSE 0
    BY DEF Owed
  <2>3. mem'[r] \in Task /\ mem'[r].spend \in Nat
    BY DEF TypeInv, TypeOK, Task
  <2>4. /\ mem'[r].spend <= MaxSpend + 2 * Attempts + 1
        /\ pc'[r] = "attempts" => mem'[r].spend <= MaxSpend
    BY DEF Spending, Sound
  <2> QED BY <2>1, <2>2, <2>3, <2>4, CountAssumption DEF Ceiling
<1>3. P \in Nat /\ P' = (IF pc[r] = "off" THEN P + Ceiling ELSE P) /\ P' \in Nat
  <2>1. RunsBegun \in Nat /\ RunsBegun' = (IF pc[r] = "off" THEN RunsBegun + 1 ELSE RunsBegun)
    BY <1>0, BegunStep
  <2>2. P' = RunsBegun' * Ceiling
    BY DEF Ceiling
  <2> QED BY <1>1, <2>1, <2>2, OneMore
<1>4. Q \in Nat /\ Q' = (IF pc'[r] = "dead" THEN Q + (Attempts + 1) ELSE Q) /\ Q' \in Nat
  <2>1. DeadRuns \in Nat /\ DeadRuns' = (IF pc'[r] = "dead" THEN DeadRuns + 1 ELSE DeadRuns)
    BY <1>0, DeadStep
  <2> QED BY <1>0, <2>1, OneMore
<1>5. /\ pc[r] \notin {"ended", "dead"} /\ pc'[r] # "off"
      /\ pc[r] = "off" => \A q \in Runs : pc[q] \in {"off", "dead"}
      /\ \A q \in Runs \ {r} : pc'[q] \in {"off", "dead"}
  <2>1. \A q \in Runs : q = r \/ q < r \/ q > r
    BY DEF Runs
  <2> QED BY <1>0, <2>1, Alone, Moves DEF Single
<1>6. /\ pc[r] = "off" => spent' = spent /\ faults <= faults' /\ n = row.spend /\ row' = row
      /\ pc'[r] = "dead" => spent' = spent /\ faults <= faults' /\ row' = row
      /\ pc[r] # "off" /\ pc'[r] # "dead" => spent' + m + faults <= spent + n + faults'
  BY <1>0, <1>1, <1>2, CostStep, FaultsStep
<1>7. /\ spent <= P + faults
      /\ stops = 0 /\ (\A q \in Runs : pc[q] \in {"off", "dead"}) => spent <= row.spend + Q + faults
      /\ pc[r] \notin {"off", "dead"} =>
           /\ spent + Ceiling <= P + m + faults
           /\ stops = 0 => spent <= m + Q + faults
           /\ Lags(r)
  BY <1>0, <1>1, <1>3, <1>4 DEF Costs
<1>8. pc'[r] \notin {"off", "dead"} => Lags(r)'
  <2>1. CASE pc[r] # "off"
    BY <1>5, <1>7, <2>1, LagStep
  <2>2. CASE pc[r] = "off"
    BY <2>2, LagStep DEF Lags
  <2> QED BY <2>1, <2>2
<1> HIDE DEF P, Q, m, n
<1>9. CASE pc'[r] # "dead"
  <2> DEFINE Live == /\ spent' + Ceiling <= P' + n + faults'
                     /\ stops' = 0 => spent' <= n + Q' + faults'
  <2>1. ASSUME pc[r] = "off" PROVE Live
    BY <1>0, <1>1, <1>2, <1>3, <1>4, <1>5, <1>6, <1>7, <1>9, <2>1
  <2>2. ASSUME pc[r] # "off" PROVE Live
    BY <1>0, <1>1, <1>2, <1>3, <1>4, <1>5, <1>6, <1>7, <1>9, <2>2
  <2>3. Live
    BY <2>1, <2>2
  <2>4. spent' <= P' + faults'
    BY <1>0, <1>1, <1>2, <1>3, <2>3
  <2>5. ASSUME NEW q \in Runs, pc'[q] \notin {"off", "dead"} PROVE q = r
    BY <1>5, <2>5
  <2>6. Ceiling' = Ceiling
    BY DEF Ceiling
  <2>7. /\ P' = (RunsBegun * Ceiling)' /\ Q' = (DeadRuns * (Attempts + 1))'
        /\ n = mem'[r].spend + Owed(r)'
    BY DEF P, Q, n
  <2> HIDE DEF Live
  <2>8. /\ (spent <= RunsBegun * Ceiling + faults)'
        /\ (spent + Ceiling <= RunsBegun * Ceiling + mem[r].spend + Owed(r) + faults)'
        /\ (stops = 0 => spent <= mem[r].spend + Owed(r) + DeadRuns * (Attempts + 1) + faults)'
    BY <1>0, <1>2, <1>3, <1>4, <2>3, <2>4, <2>6, <2>7 DEF Live
  <2> QED BY <1>5, <1>8, <1>9, <2>5, <2>8 DEF Costs
<1>10. CASE pc'[r] = "dead"
  <2>1. pc[r] \notin {"off", "dead"}
    BY <1>0, <1>5, <1>10, Moves DEF Crash
  <2>2. spent' <= P' + faults'
    BY <1>0, <1>1, <1>3, <1>6, <1>7, <1>10, <2>1
  <2>3. stops = 0 => m <= row.spend + (Attempts + 1)
    <3>1. m = mem[r].spend + Owed(r)
      BY DEF m
    <3>2. Cardinality(Graded(r)) \in Nat /\ Cardinality(Graded(r)) <= Attempts
      BY IndexSets DEF Graded
    <3>3. pc[r] \in Phases /\ Lags(r)
      BY <1>0, <1>7, <2>1
    <3> QED BY <1>0, <1>1, <1>5, <2>1, <3>1, <3>2, <3>3 DEF Lags, Phases
  <2>4. stops' = 0 => spent' <= row'.spend + Q' + faults'
    BY <1>0, <1>1, <1>4, <1>6, <1>7, <1>10, <2>1, <2>3
  <2> QED BY <1>5, <1>10, <2>2, <2>4 DEF Costs, P, Q
<1> QED BY <1>9, <1>10

\* While runs do not overlap: a task costs no more than one ceiling, what each crash has made it
\* forget, and what panics have interrupted; where a stop has brought an old row back, no more
\* than a ceiling for each of its runs.
THEOREM OvershootCorrect == ~ Overlap /\ Spec => []OvershootBounded
<1>1. Init => Costs
  <2> SUFFICES ASSUME Init PROVE Costs
    OBVIOUS
  <2>1. spent = 0 /\ faults = 0 /\ row.spend = 0 /\ \A r \in Runs : pc[r] = "off"
    BY DEF Init
  <2>2. RunsBegun \in Nat /\ DeadRuns \in Nat
    BY RunSets DEF RunsBegun, DeadRuns
  <2>3. Ceiling \in Nat /\ Attempts + 1 \in Nat
    BY CountAssumption DEF Ceiling
  <2>4. RunsBegun * Ceiling \in Nat /\ DeadRuns * (Attempts + 1) \in Nat
    BY <2>2, <2>3, OneMore
  <2> QED BY <2>1, <2>4 DEF Costs
<1>2. Single /\ Single' /\ Spending /\ Spending' /\ Costs /\ [Next]_vars => Costs'
  <2> SUFFICES ASSUME Single, Single', Spending, Spending', Costs, [Next]_vars PROVE Costs'
    OBVIOUS
  <2>0. RunsBegun \in Nat /\ DeadRuns \in Nat /\ stops \in Nat
    BY RunSets DEF RunsBegun, DeadRuns, Single, TypeInv, TypeOK
  <2>1. CASE UNCHANGED <<pc, mem, work, rank, spent, faults>> /\ (stops' # 0 \/ UNCHANGED <<row, stops>>)
    <3>1. RunsBegun' = RunsBegun /\ DeadRuns' = DeadRuns /\ Ceiling' = Ceiling
      BY <2>1 DEF RunsBegun, DeadRuns, Ceiling
    <3>2. \A r \in Runs : Owed(r)' = Owed(r) /\ mem'[r] = mem[r] /\ (Lags(r) => Lags(r)')
      BY <2>1 DEF Owed, Ended, Lags, Graded
    <3> QED BY <2>1, <3>1, <3>2 DEF Costs
  <2>2. CASE ReadForStop \/ UNCHANGED vars
    BY <2>1, <2>2 DEF ReadForStop, vars, storeVars, runVars, tally, history
  <2>3. CASE WriteStop
    BY <2>0, <2>1, <2>3 DEF WriteStop, runVars, tally, history
  <2>4. ASSUME NEW r \in Runs, RunStep(r) \/ RunFault(r) PROVE Costs'
    BY <2>4, CostsStep DEF Single
  <2> QED BY <2>2, <2>3, <2>4 DEF Next
<1>3. Single /\ Spending /\ Costs => OvershootBounded
  <2> SUFFICES ASSUME Single, Spending, Costs, stops = 0
               PROVE  spent <= Ceiling + DeadRuns * (Attempts + 1) + faults
    BY DEF Costs, OvershootBounded
  <2> DEFINE Q == DeadRuns * (Attempts + 1)
  <2>1. DeadRuns \in Nat /\ Attempts + 1 \in Nat /\ spent \in Nat /\ faults \in Nat
    BY RunSets, CountAssumption DEF DeadRuns, Single, TypeInv, TypeOK
  <2>2. Q \in Nat
    BY <2>1, OneMore
  <2>3. Ceiling \in Nat /\ row.spend \in Nat /\ row.spend <= Ceiling
    BY CountAssumption DEF Single, TypeInv, TypeOK, Task, Spending, Sound, Ceiling
  <2>4. CASE \A r \in Runs : pc[r] \in {"off", "dead"}
    <3>1. spent <= row.spend + Q + faults
      BY <2>4 DEF Costs
    <3> HIDE DEF Q
    <3>2. spent <= Ceiling + Q + faults
      BY <2>1, <2>2, <2>3, <3>1
    <3> QED BY <3>2 DEF Q
  <2>5. ASSUME NEW r \in Runs, pc[r] \notin {"off", "dead"}
        PROVE  spent <= Ceiling + Q + faults
    <3>1. spent <= mem[r].spend + Owed(r) + Q + faults
      BY <2>5 DEF Costs
    <3>2. mem[r].spend \in Nat /\ Owed(r) \in Nat /\ mem[r].spend + Owed(r) <= Ceiling
      BY UnderCeiling DEF Single
    <3> HIDE DEF Q
    <3> QED BY <2>1, <2>2, <2>3, <3>1, <3>2
  <2> QED BY <2>4, <2>5
<1> QED BY <1>1, <1>2, <1>3, SingleInvariance, SpendingInvariance, PTL DEF Spec

-----------------------------------------------------------------------------
(* Branches *)

\* A branch on the forge carries an attempt of its name, and it is the branch of a saved attempt, or of
\* the round under way, or has been warned about.
Owned(b) ==
  remote[b] # None =>
    /\ remote[b].branch = b
    /\ \/ \E a \in saved : a.branch = b
       \/ b \in warned
       \/ \E r \in Runs : \E i \in Indexes :
            pc[r] = "attempts" /\ work[r][i] \in {"pushed", "unpushed"} /\ b = BranchOf(r, i)

\* A run that has pruned leaves what it keeps and what it has warned about.
Pruned(r) ==
  pc[r] \in {"over", "ended"} /\ MayPrune =>
    \A b \in Branches : remote[b] # None => b \in Kept(r) \cup warned

Accounted == (\A b \in Branches : Owned(b)) /\ (\A r \in Runs : Pruned(r))

\* Saving attempts forgets no attempt and no warning; an attempt is saved or its branch is warned about.
LEMMA SaveKeeps ==
  ASSUME NEW ids, SaveAttempts(ids)
  PROVE  /\ saved \subseteq saved' /\ warned \subseteq warned'
         /\ \A a \in ids : a \in saved' \/ a.branch \in warned'
  BY DEF SaveAttempts

\* A step loses track of no branch.
LEMMA AccountedStep ==
  ASSUME Single, Accounted, NEW r \in Runs, RunStep(r) \/ RunFault(r)
  PROVE  Accounted'
<1> USE DEF storeVars, forgeVars, runVars, tally, history
<1> DEFINE Goal == (\A b \in Branches : Owned(b)') /\ Pruned(r)'
<1>0. /\ TypeInv /\ pc \in [Runs -> Phases] /\ mem \in [Runs -> Task]
      /\ work \in [Runs -> [Indexes -> Outcomes \cup {"pending"}]]
      /\ remote \in [Branches -> AttemptIds \cup {None}]
  BY DEF Single, TypeInv, TypeOK
<1>A. /\ \A q \in Runs \ {r} : pc[q] \in {"dead", "off"} /\ pc'[q] = pc[q] /\ work'[q] = work[q]
      /\ \A b \in Branches : Owned(b)
      /\ Pruned(r)
  <2>1. \A q \in Runs \ {r} : q < r \/ q > r
    BY DEF Runs
  <2> QED BY <2>1, Alone, Frame DEF Single, Accounted
\* No attempt is under way.
<1>K. ASSUME pc[r] # "attempts", remote' = remote, saved \subseteq saved', warned \subseteq warned',
             pc'[r] \notin {"over", "ended"}
      PROVE  Goal
  <2>1. ASSUME NEW b \in Branches PROVE Owned(b)'
    <3>1. Owned(b)
      BY <1>A
    <3> QED BY <1>A, <1>K, <3>1 DEF Owned
  <2> QED BY <1>K, <2>1 DEF Pruned
<1>1. ASSUME Start(r) \/ EnterRound(r) \/ NoticeCancellation(r) \/ ExhaustBudget(r) \/ OpenPullRequest(r)
             \/ RefusePullRequest(r) \/ RecordFailure(r) \/ LoseAnswer(r)
      PROVE  Goal
  <2>1. /\ pc[r] # "attempts" /\ remote' = remote /\ saved' = saved /\ warned' = warned
        /\ pc'[r] \in {"round", "planning", "begin", "prune", "record", "failing"}
    BY <1>0, <1>1 DEF Start, EnterRound, NoticeCancellation, ExhaustBudget, OpenPullRequest, RefusePullRequest,
                      RecordFailure, LoseAnswer, Goto
  <2> QED BY <1>K, <2>1
<1>2. ASSUME BeginPlanning(r) \/ Plan(r) \/ BeginReviews(r) \/ RecordDelivery(r)
      PROVE  Goal
  <2>1. /\ pc[r] # "attempts" /\ remote' = remote /\ saved' = saved /\ warned' = warned
        /\ pc'[r] \in {"plan", "round", "reviews", "prune", "failing"}
    BY <1>0, <1>2 DEF BeginPlanning, Plan, BeginReviews, RecordDelivery, WriteOrFail, Goto
  <2> QED BY <1>K, <2>1
<1>3. ASSUME RoundWithoutSurvivor(r) \/ RoundWithoutReview(r) \/ RoundSentBack(r)
      PROVE  Goal
  <2>1. /\ pc[r] # "attempts" /\ remote' = remote /\ saved' = saved /\ warned' = warned
        /\ pc'[r] \in {"round", "failing"}
    BY <1>0, <1>3 DEF RoundWithoutSurvivor, RoundWithoutReview, RoundSentBack, ReviewsAreIn, CloseRound,
                      WriteOrFail, Goto
  <2> QED BY <1>K, <2>1
<1>4. ASSUME BeginRound(r)
      PROVE  Goal
  <2>1. /\ pc[r] # "attempts" /\ remote' = remote /\ saved' = saved /\ warned' = warned
        /\ pc'[r] \in {"attempts", "failing"}
    BY <1>0, <1>4 DEF BeginRound, WriteOrFail, Goto
  <2> QED BY <1>K, <2>1
<1>5. ASSUME SendBack(r) \/ Approve(r)
      PROVE  Goal
  <2>1. /\ pc[r] = "reviews" /\ remote' = remote /\ pc'[r] \in {"sentback", "deliver", "record"}
        /\ \E ids : SaveAttempts(ids)
    BY <1>0, <1>5 DEF SendBack, Approve, ReviewsAreIn, Goto
  <2> QED BY <1>K, <2>1, SaveKeeps
<1>6. ASSUME NEW i \in Indexes, NEW grade \in 0 .. MaxRank, Review(r, i, grade)
      PROVE  Goal
  <2>1. /\ pc[r] = "reviews" /\ remote' = remote /\ pc' = pc
        /\ \E ids : SaveAttempts(ids)
    BY <1>6 DEF Review
  <2> QED BY <1>K, <2>1, SaveKeeps
<1>7. ASSUME CollectRound(r)
      PROVE  Goal
  <2>1. /\ pc[r] = "attempts" /\ remote' = remote /\ pc'[r] = "collected"
        /\ SaveAttempts({IdOf(r, i) : i \in Passed(r)})
    BY <1>0, <1>7 DEF CollectRound, Goto
  <2>2. /\ saved \subseteq saved' /\ warned \subseteq warned'
        /\ \A i \in Passed(r) : IdOf(r, i) \in saved' \/ IdOf(r, i).branch \in warned'
    BY <2>1, SaveKeeps
  <2>3. \A i \in Indexes : work[r][i] \in {"pushed", "unpushed"} => i \in Passed(r) /\ IdOf(r, i).branch = BranchOf(r, i)
    BY DEF Passed, GatePassing, IdOf
  <2>4. ASSUME NEW b \in Branches PROVE Owned(b)'
    <3>1. Owned(b)
      BY <1>A
    <3> QED BY <1>A, <2>1, <2>2, <2>3, <3>1 DEF Owned
  <2> QED BY <2>1, <2>4 DEF Pruned
<1>8. ASSUME NEW i \in Indexes, NEW outcome \in Outcomes, EndAttempt(r, i, outcome)
      PROVE  Goal
  <2>1. /\ pc' = pc /\ mem' = mem /\ saved' = saved /\ warned' = warned /\ pc[r] = "attempts" /\ work[r][i] = "pending"
        /\ work' = [work EXCEPT ![r][i] = outcome]
        /\ \/ outcome \in {"pushed", "unpushed"} /\ remote' = [remote EXCEPT ![BranchOf(r, i)] = IdOf(r, i)]
           \/ remote' = remote
    BY <1>8 DEF EndAttempt
  <2>2. \A k \in Indexes : BranchOf(r, k)' = BranchOf(r, k)
    BY <2>1 DEF BranchOf
  <2>3. work'[r][i] = outcome /\ \A k \in Indexes \ {i} : work'[r][k] = work[r][k]
    BY <1>0, <2>1
  <2>4. ASSUME NEW b \in Branches PROVE Owned(b)'
    <3>1. Owned(b)
      BY <1>A
    <3>2. CASE b = BranchOf(r, i) /\ remote' # remote
      <4>1. outcome \in {"pushed", "unpushed"} /\ remote'[b] = IdOf(r, i) /\ IdOf(r, i).branch = b
        BY <1>0, <2>1, <3>2 DEF IdOf
      <4> QED BY <2>1, <2>2, <2>3, <3>2, <4>1 DEF Owned
    <3>3. CASE b # BranchOf(r, i) \/ remote' = remote
      <4>1. remote'[b] = remote[b]
        BY <1>0, <2>1, <3>3
      <4>2. CASE (\E a \in saved : a.branch = b) \/ b \in warned
        BY <2>1, <3>1, <4>1, <4>2 DEF Owned
      <4>3. ASSUME NEW q \in Runs, NEW k \in Indexes,
                   pc[q] = "attempts", work[q][k] \in {"pushed", "unpushed"}, b = BranchOf(q, k)
            PROVE  Owned(b)'
        <5>1. q = r
          BY <1>A, <4>3
        <5>2. k # i
          BY <2>1, <4>3, <5>1
        <5> QED BY <2>1, <2>2, <2>3, <3>1, <4>1, <4>3, <5>1, <5>2 DEF Owned
      <4> QED BY <3>1, <4>1, <4>2, <4>3 DEF Owned
    <3> QED BY <3>2, <3>3
  <2> QED BY <2>1, <2>4 DEF Pruned
<1>9. ASSUME PruneBranches(r)
      PROVE  Goal
  <2>1. /\ pc[r] = "prune" /\ pc'[r] = "over" /\ saved' = saved /\ mem' = mem /\ winner' = winner
    BY <1>0, <1>9 DEF PruneBranches, Goto
  <2>2. Kept(r)' = Kept(r)
    BY <2>1 DEF Kept, Head, BranchOf
  <2>3. CASE ~ MayPrune
    <3>1. remote' = remote /\ warned' = warned /\ ~ MayPrune'
      BY <1>9, <2>3 DEF PruneBranches, MayPrune
    <3>2. ASSUME NEW b \in Branches PROVE Owned(b)'
      <4>1. Owned(b)
        BY <1>A
      <4> QED BY <1>A, <2>1, <3>1, <4>1 DEF Owned
    <3> QED BY <3>1, <3>2 DEF Pruned
  <2>4. CASE MayPrune
    <3> DEFINE rejected == {a.branch : a \in saved} \ Kept(r)
    <3>1. PICK failed \in SUBSET rejected :
            /\ remote' = [b \in Branches |-> IF b \in rejected \ failed THEN None ELSE remote[b]]
            /\ warned' = warned \cup failed
      BY <1>9, <2>4 DEF PruneBranches
    <3>2. ASSUME NEW b \in Branches, remote'[b] # None
          PROVE  /\ remote'[b] = remote[b] /\ b \notin rejected \ failed
                 /\ remote[b].branch = b
                 /\ (\E a \in saved : a.branch = b) \/ b \in warned
      <4>1. remote'[b] = remote[b] /\ b \notin rejected \ failed
        BY <3>1, <3>2
      <4>2. Owned(b)
        BY <1>A
      <4> QED BY <1>A, <2>1, <3>2, <4>1, <4>2 DEF Owned
    <3>3. ASSUME NEW b \in Branches PROVE Owned(b)'
      BY <2>1, <3>1, <3>2 DEF Owned
    <3>4. ASSUME NEW b \in Branches, remote'[b] # None PROVE b \in Kept(r) \cup warned'
      BY <3>1, <3>2, <3>4
    <3>5. Pruned(r)'
      BY <2>2, <3>4 DEF Pruned
    <3> QED BY <3>3, <3>5
  <2> QED BY <2>3, <2>4
<1>10. ASSUME FinishJob(r)
       PROVE  Goal
  <2>1. /\ pc[r] = "over" /\ pc'[r] = "ended" /\ remote' = remote /\ saved' = saved /\ warned' = warned
        /\ mem' = mem /\ winner' = winner
    BY <1>0, <1>10 DEF FinishJob, Goto
  <2>2. Kept(r)' = Kept(r) /\ MayPrune' = MayPrune
    BY <2>1 DEF Kept, Head, BranchOf, MayPrune
  <2>3. ASSUME NEW b \in Branches PROVE Owned(b)'
    <3>1. Owned(b)
      BY <1>A
    <3> QED BY <1>A, <2>1, <3>1 DEF Owned
  <2> QED BY <1>A, <2>1, <2>2, <2>3 DEF Pruned
<1>11. ASSUME Crash(r)
       PROVE  Goal
  <2>1. /\ pc'[r] = "dead" /\ remote' = remote /\ saved' = saved
        /\ warned' = warned \cup {b \in Branches : remote[b] # None /\ remote[b] \notin saved}
    BY <1>0, <1>11 DEF Crash, Goto
  <2>2. ASSUME NEW b \in Branches PROVE Owned(b)'
    <3>1. Owned(b)
      BY <1>A
    <3> QED BY <2>1, <3>1 DEF Owned
  <2> QED BY <2>1, <2>2 DEF Pruned
<1>12. ASSUME Err(r) \/ (\E i \in Indexes : LoseReview(r, i))
       PROVE  Goal
  <2>1. /\ pc[r] # "attempts" /\ remote' = remote /\ saved' = saved /\ warned' = warned
        /\ pc'[r] \in {"failing", "reviews"}
    BY <1>0, <1>12 DEF Err, LoseReview, ReviewsAreIn, Goto
  <2> QED BY <1>K, <2>1
<1> HIDE DEF Goal
<1>13. Goal
  BY <1>1, <1>2, <1>3, <1>4, <1>5, <1>6, <1>7, <1>8, <1>9, <1>10, <1>11, <1>12 DEF RunStep, RunFault
<1>14. ASSUME NEW q \in Runs \ {r} PROVE Pruned(q)'
  BY <1>A DEF Pruned
<1> QED BY <1>13, <1>14 DEF Accounted, Goal

\* It loses track of none in any reachable state.
LEMMA AccountedInvariance == ~ Overlap /\ Spec => []Accounted
<1>1. Init => Accounted
  BY DEF Init, Accounted, Owned, Pruned
<1>2. Single /\ Accounted /\ [Next]_vars => Accounted'
  <2> SUFFICES ASSUME Single, Accounted, [Next]_vars PROVE Accounted'
    OBVIOUS
  <2>1. CASE UNCHANGED <<pc, mem, work, winner, remote, saved, warned>>
    BY <2>1 DEF Accounted, Owned, Pruned, MayPrune, Kept, Head, BranchOf
  <2>2. CASE ReadForStop \/ WriteStop \/ UNCHANGED vars
    BY <2>1, <2>2 DEF ReadForStop, WriteStop, vars, storeVars, runVars, forgeVars, tally, history
  <2> QED BY <2>2, AccountedStep DEF Next
<1> QED BY <1>1, <1>2, SingleInvariance, PTL DEF Spec

\* When the last run of a task is over, the forge has the delivered branch and those that were warned
\* about: the ones whose deletion or whose attempt's save failed, or that a dead run left behind.
THEOREM NoLeakCorrect == ~ Overlap /\ Spec => []NoBranchLeaks
<1>1. Accounted => NoBranchLeaks
  BY DEF Accounted, Pruned, NoBranchLeaks
<1> QED BY <1>1, AccountedInvariance, PTL

-----------------------------------------------------------------------------
(* What the reader of an issue is promised *)

\* A run that has written, or failed to write, how the task ended, and the states before that.
Done == {"prune", "over", "ended", "dead"}
OpenStates == {"queued", "planning", "working", "reviewing"}

\* Nobody stops the task; what its row says is open until the run has written how it ended.
Unstopped ==
  /\ stopper = None
  /\ row.state = "awaiting_human" => ~ rowLost /\ row.pr # None
  /\ \A r \in Runs : pc[r] \notin Done => ~ rowLost /\ row.state \in OpenStates

\* What a step of a run does to the row and to the branches.
LEMMA Outcome ==
  ASSUME Single, Named, Unstopped, HasForge, NEW r \in Runs, RunStep(r) \/ RunFault(r)
  PROVE  \/ pc[r] \notin Done /\ row'.state \in OpenStates /\ rowLost' = rowLost
         \/ /\ pc[r] \notin Done /\ pc'[r] \in Done /\ row'.state = "awaiting_human" /\ rowLost' = rowLost
            /\ row'.pr = IdOf(r, winner[r]) /\ remote[Head(r)] # None /\ remote' = remote
            /\ Head(r) \in Branches /\ IdOf(r, winner[r]) \in AttemptIds
         \/ /\ pc[r] \notin Done /\ pc'[r] \in Done /\ remote' = remote
            /\ row'.state = "failed" \/ row' = row
         \/ /\ pc[r] \in Done /\ pc'[r] \in Done /\ row' = row /\ rowLost' = rowLost
            /\ \A b \in Branches : remote'[b] \in {remote[b], None}
<1> USE DEF storeVars, forgeVars, runVars, tally, history
<1> DEFINE Goes == pc[r] \notin Done /\ row'.state \in OpenStates /\ rowLost' = rowLost
           Delivers == /\ pc[r] \notin Done /\ pc'[r] \in Done /\ row'.state = "awaiting_human" /\ rowLost' = rowLost
                       /\ row'.pr = IdOf(r, winner[r]) /\ remote[Head(r)] # None /\ remote' = remote
                       /\ Head(r) \in Branches /\ IdOf(r, winner[r]) \in AttemptIds
           Fails == /\ pc[r] \notin Done /\ pc'[r] \in Done /\ remote' = remote
                    /\ row'.state = "failed" \/ row' = row
           Tidies == /\ pc[r] \in Done /\ pc'[r] \in Done /\ row' = row /\ rowLost' = rowLost
                     /\ \A b \in Branches : remote'[b] \in {remote[b], None}
           Goal == Goes \/ Delivers \/ Fails \/ Tidies
<1>0. /\ TypeInv /\ pc \in [Runs -> Phases] /\ mem \in [Runs -> Task] /\ mem[r] \in Task /\ row \in Task
      /\ remote \in [Branches -> AttemptIds \cup {None}]
  BY DEF Single, TypeInv, TypeOK
<1>S. NamedBy(r) /\ (pc[r] \notin Done => row.state \in OpenStates)
  BY DEF Named, Unstopped
\* The row is left alone, or an open state is written.
<1>O. ASSUME pc[r] \notin Done, row' = row \/ row'.state \in OpenStates, rowLost' = rowLost
      PROVE  Goal
  BY <1>S, <1>O
<1>1. ASSUME Start(r) \/ EnterRound(r) \/ ExhaustBudget(r) \/ CollectRound(r) \/ SendBack(r) \/ Approve(r)
             \/ OpenPullRequest(r) \/ RefusePullRequest(r) \/ LoseAnswer(r) \/ Err(r)
      PROVE  Goal
  <2>1. pc[r] \notin Done /\ row' = row /\ rowLost' = rowLost
    BY <1>1 DEF Start, EnterRound, ExhaustBudget, CollectRound, SendBack, Approve, OpenPullRequest,
                RefusePullRequest, LoseAnswer, Err, ReviewsAreIn, Done
  <2> QED BY <1>O, <2>1
<1>2. ASSUME NEW i \in Indexes,
             (\E outcome \in Outcomes : EndAttempt(r, i, outcome)) \/ (\E grade \in 0 .. MaxRank : Review(r, i, grade))
             \/ LoseReview(r, i)
      PROVE  Goal
  <2>1. pc[r] \notin Done /\ row' = row /\ rowLost' = rowLost
    BY <1>2 DEF EndAttempt, Review, LoseReview, Done
  <2> QED BY <1>O, <2>1
<1>3. ASSUME BeginPlanning(r) \/ BeginRound(r) \/ BeginReviews(r)
      PROVE  Goal
  <2>1. /\ pc[r] \notin Done /\ rowLost' = rowLost /\ mem'[r].state \in {"planning", "working", "reviewing"}
        /\ row' = row \/ row' = mem'[r]
    BY <1>0, <1>3 DEF BeginPlanning, BeginRound, BeginReviews, WriteOrFail, Save, Done, Task
  <2> QED BY <1>O, <2>1 DEF OpenStates
<1>4. ASSUME Plan(r)
      PROVE  Goal
  <2> DEFINE known == [mem[r] EXCEPT !.planned = TRUE]
             task == [known EXCEPT !.spend = @ + 1]
  <2>1. task.state = mem[r].state
    <3>1. known \in Task /\ known.state = mem[r].state
      BY <1>0 DEF Task
    <3> HIDE DEF known
    <3> QED BY <3>1 DEF Task
  <2>2. /\ mem' = [mem EXCEPT ![r] = task] /\ mem[r].state = "planning"
        /\ pc[r] \notin Done /\ rowLost' = rowLost /\ (row' = row \/ row' = mem'[r])
    BY <1>0, <1>4, <1>S DEF Plan, NamedBy, WriteOrFail, Save, Done
  <2> HIDE DEF task
  <2> QED BY <1>0, <1>O, <2>1, <2>2 DEF OpenStates
<1>5. ASSUME RoundWithoutSurvivor(r) \/ RoundWithoutReview(r) \/ RoundSentBack(r)
      PROVE  Goal
  <2>1. pc[r] \in Underway /\ pc[r] \notin Done /\ CloseRound(r)
    BY <1>5 DEF RoundWithoutSurvivor, RoundWithoutReview, RoundSentBack, ReviewsAreIn, Underway, Entered, Done
  <2>2. mem[r].state \in {"working", "reviewing"}
    BY <1>S, <2>1 DEF NamedBy
  <2>3. mem'[r].state = mem[r].state /\ rowLost' = rowLost /\ (row' = row \/ row' = mem'[r])
    BY <1>0, <2>1 DEF CloseRound, WriteOrFail, Save, Task
  <2> QED BY <1>O, <2>1, <2>2, <2>3 DEF OpenStates
<1>6. ASSUME NoticeCancellation(r)
      PROVE  Goal
  BY <1>6, <1>S DEF NoticeCancellation, Done, OpenStates
<1>7. ASSUME RecordDelivery(r)
      PROVE  Goal
  <2>1. /\ pc[r] = "record" /\ remote' = remote /\ rowLost' = rowLost
        /\ mem'[r].state = "awaiting_human" /\ mem'[r].pr = mem[r].pr
        /\ \/ row' = mem'[r] /\ pc'[r] = "prune"
           \/ row' = row
    BY <1>0, <1>7 DEF RecordDelivery, WriteOrFail, Save, Goto, Task
  <2>2. mem[r].pr = IdOf(r, winner[r]) /\ remote[Head(r)] # None
    BY <1>S, <2>1 DEF NamedBy
  <2>5. Head(r) \in Branches /\ IdOf(r, winner[r]) \in AttemptIds
    <3>1. winner[r] \in Indexes /\ pc[r] \in Entered
      BY <1>0, <2>1 DEF TypeInv, Entered
    <3> QED BY <1>0, <3>1, IdType DEF Head
  <2>3. CASE row' = row
    BY <1>O, <2>1, <2>3 DEF Done
  <2>4. CASE row' = mem'[r] /\ pc'[r] = "prune"
    BY <2>1, <2>2, <2>4, <2>5 DEF Done
  <2> QED BY <2>1, <2>3, <2>4
<1>8. ASSUME RecordFailure(r)
      PROVE  Goal
  <2>1. /\ pc[r] = "failing" /\ pc'[r] = "prune" /\ remote' = remote
        /\ row'.state = "failed" \/ row' = row
    BY <1>0, <1>8 DEF RecordFailure, Save, Goto, Task
  <2> QED BY <2>1 DEF Done
<1>9. ASSUME PruneBranches(r)
      PROVE  Goal
  <2>1. pc[r] = "prune" /\ pc'[r] = "over" /\ row' = row /\ rowLost' = rowLost
    BY <1>0, <1>9 DEF PruneBranches, Goto
  <2>2. \A b \in Branches : remote'[b] \in {remote[b], None}
    BY <1>9 DEF PruneBranches
  <2> QED BY <2>1, <2>2 DEF Done
<1>10. ASSUME FinishJob(r) \/ Crash(r)
       PROVE  Goal
  <2>1. row' = row /\ rowLost' = rowLost /\ remote' = remote /\ pc'[r] \in Done
    BY <1>0, <1>10 DEF FinishJob, Crash, Goto, Done
  <2>2. CASE pc[r] \in Done
    BY <2>1, <2>2
  <2>3. CASE pc[r] \notin Done
    BY <1>O, <2>1, <2>3
  <2> QED BY <2>2, <2>3
<1> HIDE DEF Goal
<1>11. Goal
  BY <1>1, <1>2, <1>3, <1>4, <1>5, <1>6, <1>7, <1>8, <1>9, <1>10 DEF RunStep, RunFault
<1> QED BY <1>11 DEF Goal

\* What the refinement rests on, for a task with one run.
Promise == Single /\ Named /\ Accounted /\ HasForge /\ MaxRuns = 1 /\ MaxStops = 0

\* With one run, a branch carries that run's attempt of its name, or nothing.
LEMMA Patch ==
  ASSUME Promise, NEW b \in Branches, remote[b] # None, NEW a \in AttemptIds, a.branch = b
  PROVE  remote[b] = a
<1>1. remote[b] \in AttemptIds /\ remote[b].branch = b
  BY DEF Promise, Single, TypeInv, TypeOK, Accounted, Owned
<1>2. \A c \in AttemptIds : c.run = 1 /\ c = [run |-> c.run, branch |-> c.branch]
  BY DEF AttemptIds, Promise, Runs
<1> QED BY <1>1, <1>2

\* A task with one run that nobody stops is worked on until it is delivered, with a patch the forge
\* has, or has failed; then only unused patches are removed.  That run may die anywhere, saves, answers
\* and reviews may be lost: TaskRun implements TaskLifecycle.
THEOREM LifecycleCorrect ==
  ~ Overlap /\ HasForge /\ MaxRuns = 1 /\ MaxStops = 0 /\ Spec => ImplementsLifecycle
<1> DEFINE Case == HasForge /\ MaxRuns = 1 /\ MaxStops = 0
           Phase == CASE row.state = "awaiting_human" -> "delivered"
                      [] row.state = "failed" -> "failed"
                      [] OTHER -> "open"
           Offered == IF row.state = "awaiting_human" THEN row.pr ELSE None
           Published == {remote[b] : b \in Branches} \ {None}
<1>1. Init => Unstopped /\ Lifecycle!Init
  BY DEF Init, Unstopped, OpenStates, Lifecycle!Init
<1>2. Promise /\ Promise' /\ Unstopped /\ [Next]_vars =>
        Unstopped' /\ [Lifecycle!Next]_<<Phase, Offered, Published>>
  <2> SUFFICES ASSUME Promise, Promise', Unstopped, [Next]_vars
               PROVE  Unstopped' /\ [Lifecycle!Next]_<<Phase, Offered, Published>>
    OBVIOUS
  <2>0. /\ Single /\ Named /\ HasForge /\ TypeOK /\ TypeOK' /\ row \in Task /\ row' \in Task
        /\ MaxStops = 0 /\ stops \in Nat
    BY DEF Promise, Single, TypeInv, TypeOK
  <2>1. CASE UNCHANGED vars
    BY <2>1 DEF vars, storeVars, forgeVars, runVars, tally, history, Unstopped
  <2>2. CASE ReadForStop \/ WriteStop
    BY <2>0, <2>2 DEF ReadForStop, WriteStop, Unstopped
  <2>3. ASSUME NEW r \in Runs, RunStep(r) \/ RunFault(r)
        PROVE  Unstopped' /\ [Lifecycle!Next]_<<Phase, Offered, Published>>
    <3>0. stopper' = None /\ \A q \in Runs : q = r
      BY <2>0, <2>3, Frame DEF Single, Unstopped, Promise, Runs
    <3>1. Published' \subseteq AttemptIds /\ Published \subseteq AttemptIds
      BY <2>0 DEF TypeOK
    <3>2. pc[r] \notin Done => ~ rowLost /\ row.state \in OpenStates
      BY DEF Unstopped
    <3>3. CASE pc[r] \notin Done /\ row'.state \in OpenStates /\ rowLost' = rowLost
      <4>1. Phase = "open" /\ Phase' = "open" /\ Offered = None /\ Offered' = None
        BY <3>2, <3>3 DEF OpenStates
      <4>2. Unstopped'
        BY <3>0, <3>2, <3>3 DEF Unstopped, OpenStates
      <4> QED BY <3>1, <4>1, <4>2 DEF Lifecycle!Next, Lifecycle!Work
    <3>4. CASE /\ pc[r] \notin Done /\ pc'[r] \in Done /\ row'.state = "awaiting_human" /\ rowLost' = rowLost
               /\ row'.pr = IdOf(r, winner[r]) /\ remote[Head(r)] # None /\ remote' = remote
               /\ Head(r) \in Branches /\ IdOf(r, winner[r]) \in AttemptIds
      <4>1. Phase = "open" /\ Phase' = "delivered" /\ Offered' = row'.pr /\ Published' = Published
        BY <3>2, <3>4 DEF OpenStates
      <4>2. remote[Head(r)] = IdOf(r, winner[r])
        <5>1. IdOf(r, winner[r]).branch = Head(r)
          BY DEF IdOf, Head
        <5> QED BY <3>4, <5>1, Patch
      <4>3. row'.pr \in Published
        BY <3>4, <4>2
      <4>4. Unstopped'
        BY <3>0, <3>2, <3>4, <4>2 DEF Unstopped
      <4> QED BY <4>1, <4>3, <4>4 DEF Lifecycle!Next, Lifecycle!Deliver
    <3>5. CASE /\ pc[r] \notin Done /\ pc'[r] \in Done /\ remote' = remote
               /\ row'.state = "failed" \/ row' = row
      <4>1. Phase = "open" /\ Phase' \in {"open", "failed"} /\ Offered = None /\ Offered' = None
            /\ Published' = Published
        BY <3>2, <3>5 DEF OpenStates
      <4>2. Unstopped'
        BY <3>0, <3>2, <3>5 DEF Unstopped, OpenStates
      <4> QED BY <4>1, <4>2 DEF Lifecycle!Next, Lifecycle!Fail
    <3>6. CASE /\ pc[r] \in Done /\ pc'[r] \in Done /\ row' = row /\ rowLost' = rowLost
               /\ \A b \in Branches : remote'[b] \in {remote[b], None}
      <4>1. Phase' = Phase /\ Offered' = Offered /\ Published' \subseteq Published
        BY <3>6
      <4>2. Unstopped'
        BY <3>0, <3>6 DEF Unstopped
      <4>3. Phase = "delivered" => Offered \in Published'
        <5> SUFFICES ASSUME row.state = "awaiting_human" PROVE row.pr \in Published'
          OBVIOUS
        <5>1. row.pr # None /\ ~ rowLost
          BY DEF Unstopped
        <5>2. row.pr \in AttemptIds
          BY <2>0, <5>1 DEF Task
        <5>3. row.pr.branch \in Branches
          BY <5>2 DEF AttemptIds
        <5>4. remote'[row.pr.branch] # None
          BY <3>6, <5>1 DEF Promise, Named, RecordedPullRequestIsOpen
        <5>5. remote'[row.pr.branch] \in AttemptIds /\ remote'[row.pr.branch].branch = row.pr.branch
          BY <2>0, <5>3, <5>4 DEF TypeOK, Promise, Accounted, Owned
        <5>6. \A c \in AttemptIds : c.run = 1 /\ c = [run |-> c.run, branch |-> c.branch]
          BY DEF AttemptIds, Promise, Runs
        <5>7. remote'[row.pr.branch] = row.pr
          BY <5>2, <5>5, <5>6
        <5> QED BY <5>1, <5>3, <5>7
      <4>4. Phase \in {"open", "failed", "delivered"}
        OBVIOUS
      <4> QED BY <3>1, <4>1, <4>2, <4>3, <4>4 DEF Lifecycle!Next, Lifecycle!Work, Lifecycle!TidyUp
    <3> QED BY <2>0, <2>3, <3>3, <3>4, <3>5, <3>6, Outcome DEF Promise
  <2> QED BY <2>1, <2>2, <2>3 DEF Next
<1>3. ~ Overlap /\ Case /\ Spec => []Promise
  <2>1. Case /\ [Next]_vars => Case'
    OBVIOUS
  <2>2. Single /\ Named /\ Accounted /\ Case => Promise
    BY DEF Promise
  <2> HIDE DEF Case
  <2> QED BY <2>1, <2>2, SingleInvariance, NamedInvariance, AccountedInvariance, PTL DEF Spec
<1> HIDE DEF Phase, Offered, Published
<1>4. ~ Overlap /\ Case /\ Spec => Lifecycle!Init /\ [][Lifecycle!Next]_<<Phase, Offered, Published>>
  BY <1>1, <1>2, <1>3, PTL DEF Spec
<1> QED BY <1>4, PTL DEF ImplementsLifecycle, Lifecycle!Spec, Phase, Offered, Published, Case
=============================================================================
