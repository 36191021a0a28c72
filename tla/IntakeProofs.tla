---------------------------- MODULE IntakeProofs ----------------------------
(***************************************************************************)
(* Proofs about Intake, for any number of handlers, tasks and faults.      *)
(***************************************************************************)
EXTENDS Intake, TLAPS

\* An issue without tasks and idle handlers satisfy the inductive invariant.
LEMMA IInvInit == Init => IInv
  BY IntakeAssumption
  DEF Init, IInv, TypeOK, RunsHaveJobs, HandlersHaveRows, ClosedTasksAreMarked,
      DuplicatesHaveACause, WaitingTasksHaveJobs, Present, Ids, Open, Closed

\* Every step of a handler, a run or a crash keeps the types.
LEMMA TypeNext == TypeOK /\ [Next]_vars => TypeOK'
<1> SUFFICES ASSUME TypeOK, [Next]_vars PROVE TypeOK'
  OBVIOUS
<1> USE IntakeAssumption DEF TypeOK, rowVars, handlerVars, history
<1>1. ASSUME NEW h \in Handlers, LookForStart(h) PROVE TypeOK'
  <2>1. Present \in SUBSET Ids
    BY DEF Present
  <2>2. next' \in 1..(MaxTasks + 1)
    BY <1>1 DEF LookForStart, Ids
  <2> QED BY <1>1, <2>1, <2>2 DEF LookForStart
<1>2. ASSUME NEW h \in Handlers, CreateTask(h) PROVE TypeOK'
  BY <1>2 DEF CreateTask, Open
<1>3. ASSUME NEW h \in Handlers, CreateFails(h) PROVE TypeOK'
  BY <1>3 DEF CreateFails, Fault
<1>4. ASSUME NEW h \in Handlers, EnqueueTask(h) PROVE TypeOK'
  BY <1>4 DEF EnqueueTask
<1>5. ASSUME NEW h \in Handlers, EnqueueFails(h) PROVE TypeOK'
  BY <1>5 DEF EnqueueFails, Fault
<1>6. ASSUME NEW h \in Handlers, LookForStop(h) PROVE TypeOK'
  BY <1>6 DEF LookForStop, FoundOpen, Present
<1>7. ASSUME NEW h \in Handlers, WriteStop(h) PROVE TypeOK'
  BY <1>7 DEF WriteStop, Closed
<1>8. ASSUME NEW h \in Handlers, StopFails(h) PROVE TypeOK'
  BY <1>8 DEF StopFails, Fault
<1>9. ASSUME NEW t \in Ids, BeginRun(t) PROVE TypeOK'
  BY <1>9 DEF BeginRun
<1>10. ASSUME NEW t \in Ids, Overwrite(t) PROVE TypeOK'
  BY <1>10 DEF Overwrite, Open
<1>11. ASSUME NEW t \in Ids, NoticeStop(t) PROVE TypeOK'
  BY <1>11 DEF NoticeStop
<1>12. ASSUME NEW t \in Ids, EndRun(t) PROVE TypeOK'
  BY <1>12 DEF EndRun, Open, Closed
<1>13. ASSUME NEW t \in Ids, EndUnrecorded(t) PROVE TypeOK'
  BY <1>13 DEF EndUnrecorded, Fault
<1>14. ASSUME NEW t \in Ids, FinishJob(t) PROVE TypeOK'
  BY <1>14 DEF FinishJob
<1>15. ASSUME NEW t \in Ids, FinishFails(t) PROVE TypeOK'
  BY <1>15 DEF FinishFails, Fault
<1>16. CASE Crash
  <2>1. stranded' \subseteq Ids
    BY <1>16 DEF Crash
  <2> QED BY <1>16, <2>1 DEF Crash, Fault
<1>17. CASE UNCHANGED vars
  BY <1>17 DEF vars
<1> QED
  BY <1>1, <1>2, <1>3, <1>4, <1>5, <1>6, <1>7, <1>8, <1>9,
     <1>10, <1>11, <1>12, <1>13, <1>14, <1>15, <1>16, <1>17
  DEF Next, HandlerStep, RunStep

\* Rows, runs and handlers keep their types in every behaviour.
THEOREM TypeCorrect == Spec => []TypeOK
<1>1. Init => TypeOK
  BY IInvInit DEF IInv
<1> QED BY <1>1, TypeNext, PTL DEF Spec

-----------------------------------------------------------------------------
\* Every step keeps the inductive invariant.
LEMMA IInvNext == IInv /\ [Next]_vars => IInv'
<1> SUFFICES ASSUME IInv, [Next]_vars PROVE IInv'
  OBVIOUS
<1>0. TypeOK'
  BY TypeNext DEF IInv
<1> USE IntakeAssumption
    DEF IInv, TypeOK, rowVars, handlerVars, history, RunsHaveJobs, HandlersHaveRows,
        ClosedTasksAreMarked, DuplicatesHaveACause, WaitingTasksHaveJobs, Present, Ids, Open, Closed
<1>1. ASSUME NEW h \in Handlers, LookForStart(h) PROVE IInv'
  <2>1. /\ next \in Ids /\ next' = next + 1 /\ state[next] = "absent" /\ next \notin jobs
        /\ pc[h] = "idle"
        /\ pc' = [pc EXCEPT ![h] = "create"]
        /\ about' = [about EXCEPT ![h] = next]
        /\ known' = [known EXCEPT ![next] = Present]
        /\ UNCHANGED <<rowVars, run, history>>
    BY <1>1 DEF LookForStart
  <2>2. \A t \in Present : state[t] \notin Open
    BY <1>1 DEF LookForStart, FoundOpen
  <2>3. RunsHaveJobs'
    BY <2>1
  <2>4. HandlersHaveRows'
    <3>1. \A g \in Handlers \ {h} : pc[g] \in {"create", "enqueue"} => about'[g] # about'[h]
      BY <2>1
    <3>2. \A g \in Handlers : pc'[g] \in {"create", "enqueue"} =>
            about'[g] < next' /\ about'[g] \notin jobs'
      BY <2>1
    <3>3. \A f \in Handlers : \A g \in Handlers \ {f} :
            {pc'[g], pc'[f]} \subseteq {"create", "enqueue"} => about'[g] # about'[f]
      <4>1. \A f \in Handlers : \A g \in Handlers \ {f} :
              {pc[g], pc[f]} \subseteq {"create", "enqueue"} => about[g] # about[f]
        OBVIOUS
      <4> QED BY <2>1, <3>1, <4>1
    <3>4. \A g \in Handlers :
            /\ pc'[g] \in {"enqueue", "stop"} => state'[about'[g]] # "absent"
            /\ pc'[g] = "create" => state'[about'[g]] = "absent"
      BY <2>1
    <3>5. \A t \in Ids : t >= next' => state'[t] = "absent"
      BY <2>1
    <3> HIDE DEF TypeOK, RunsHaveJobs, ClosedTasksAreMarked, DuplicatesHaveACause,
                 WaitingTasksHaveJobs, IInv
    <3> QED BY <3>2, <3>3, <3>4, <3>5 DEF HandlersHaveRows
  <2>5. ClosedTasksAreMarked'
    BY <2>1, <2>2
  <2>6. DuplicatesHaveACause'
    BY <2>1, <2>2
  <2>7. WaitingTasksHaveJobs'
    <3>1. \A g \in Handlers : pc[g] = "enqueue" => pc'[g] = "enqueue" /\ about'[g] = about[g]
      BY <2>1
    <3>2. jobs' = jobs /\ state' = state /\ stranded' = stranded
      BY <2>1
    <3>3. WaitingTasksHaveJobs
      OBVIOUS
    <3> HIDE DEF TypeOK, RunsHaveJobs, HandlersHaveRows, ClosedTasksAreMarked,
                 DuplicatesHaveACause, IInv
    <3> QED BY <3>1, <3>2, <3>3 DEF WaitingTasksHaveJobs
  <2> QED BY <1>0, <2>3, <2>4, <2>5, <2>6, <2>7
<1>2. ASSUME NEW h \in Handlers, CreateTask(h) PROVE IInv'
  BY <1>0, <1>2 DEF CreateTask
<1>3. ASSUME NEW h \in Handlers, CreateFails(h) PROVE IInv'
  BY <1>0, <1>3 DEF CreateFails
<1>4. ASSUME NEW h \in Handlers, EnqueueTask(h) PROVE IInv'
  BY <1>0, <1>4 DEF EnqueueTask
<1>5. ASSUME NEW h \in Handlers, EnqueueFails(h) PROVE IInv'
  BY <1>0, <1>5 DEF EnqueueFails
<1>6. ASSUME NEW h \in Handlers, LookForStop(h) PROVE IInv'
  BY <1>0, <1>6 DEF LookForStop, FoundOpen
<1>7. ASSUME NEW h \in Handlers, WriteStop(h) PROVE IInv'
  BY <1>0, <1>7 DEF WriteStop
<1>8. ASSUME NEW h \in Handlers, StopFails(h) PROVE IInv'
  BY <1>0, <1>8 DEF StopFails
<1>9. ASSUME NEW t \in Ids, BeginRun(t) PROVE IInv'
  BY <1>0, <1>9 DEF BeginRun
<1>10. ASSUME NEW t \in Ids, Overwrite(t) PROVE IInv'
  BY <1>0, <1>10 DEF Overwrite
<1>11. ASSUME NEW t \in Ids, NoticeStop(t) PROVE IInv'
  BY <1>0, <1>11 DEF NoticeStop
<1>12. ASSUME NEW t \in Ids, EndRun(t) PROVE IInv'
  BY <1>0, <1>12 DEF EndRun
<1>13. ASSUME NEW t \in Ids, EndUnrecorded(t) PROVE IInv'
  BY <1>0, <1>13 DEF EndUnrecorded
<1>14. ASSUME NEW t \in Ids, FinishJob(t) PROVE IInv'
  BY <1>0, <1>14 DEF FinishJob
<1>15. ASSUME NEW t \in Ids, FinishFails(t) PROVE IInv'
  BY <1>0, <1>15 DEF FinishFails
<1>16. CASE Crash
  BY <1>0, <1>16 DEF Crash
<1>17. CASE UNCHANGED vars
  BY <1>0, <1>17 DEF vars
<1> QED
  BY <1>1, <1>2, <1>3, <1>4, <1>5, <1>6, <1>7, <1>8, <1>9,
     <1>10, <1>11, <1>12, <1>13, <1>14, <1>15, <1>16, <1>17
  DEF Next, HandlerStep, RunStep

\* The inductive invariant holds in every behaviour.
THEOREM IInvHolds == Spec => []IInv
  BY IInvInit, IInvNext, PTL DEF Spec

\* Two open tasks of one issue always have a cause: a race, an overwritten stop, or a
\* run begun again.
THEOREM DuplicatesAreExplained == Spec => []DuplicatesHaveACause
<1>1. IInv => DuplicatesHaveACause
  BY DEF IInv
<1> QED BY IInvHolds, <1>1, PTL

\* No task that waits or is worked on is without a job, unless a fault left it so.
THEOREM NoTaskIsStranded == Spec => []WaitingTasksHaveJobs
<1>1. IInv => WaitingTasksHaveJobs
  BY DEF IInv
<1> QED BY IInvHolds, <1>1, PTL
=============================================================================
