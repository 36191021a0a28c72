------------------------------- MODULE Intake -------------------------------
(***************************************************************************)
(* The webhook handlers of one issue: Start looks for an open task and, if *)
(* there is none, creates one and enqueues it; Stop looks for an open task *)
(* and cancels it.  Handlers run concurrently, and each is several store   *)
(* calls.  The runs they compete with are reduced to what they do to the   *)
(* state of their task's row (TaskRun has the rest): they overwrite it,    *)
(* settle it, and are begun again when the process died.                   *)
(***************************************************************************)
EXTENDS Integers

CONSTANTS
  Handlers,   \* requests the server works on at the same time
  MaxTasks,   \* bound: tasks created for the issue
  MaxFaults   \* bound: failing store calls and crashes

ASSUME IntakeAssumption == MaxTasks \in Nat /\ MaxFaults \in Nat

\* Tasks are numbered in the order of their created_at.
Ids == 1..MaxTasks

\* "working" stands for planning, working and reviewing; nothing ever writes "done".
Open == {"queued", "working", "awaiting_human"}
Closed == {"failed", "cancelled"}

VARIABLES
  state,     \* task -> state of its row, "absent" before create_task
  jobs,      \* tasks with a row in the queue
  run,       \* task -> "off", "on", or "over" until finish_job
  pc,        \* where each handler is
  about,     \* the task a handler creates or has read
  next,      \* the next task id
  known,     \* history: task -> the tasks there were when its handler looked
  stopped,   \* history: tasks a stop was written to
  begun,     \* history: tasks a run of which has begun
  again,     \* history: tasks a run of which has begun again
  stranded,  \* history: tasks a failing call or a crash left without a job
  faults     \* history

rowVars == <<state, jobs>>
handlerVars == <<pc, about, next, known>>
history == <<stopped, begun, again, stranded, faults>>
vars == <<rowVars, run, handlerVars, history>>

Present == {t \in Ids : state[t] # "absent"}

\* Mutant of FoundOpen: a task that awaits a human does not block the issue.
FoundUnfinished == {t \in Ids : state[t] \in {"queued", "working"}}

\* find_open_task_for_issue: state NOT IN ('done', 'failed', 'cancelled').
FoundOpen == {t \in Present : state[t] \notin Closed}

Fault == faults < MaxFaults /\ faults' = faults + 1

Init ==
  /\ state = [t \in Ids |-> "absent"]
  /\ jobs = {}
  /\ run = [t \in Ids |-> "off"]
  /\ pc = [h \in Handlers |-> "idle"]
  /\ about = [h \in Handlers |-> 0]
  /\ next = 1
  /\ known = [t \in Ids |-> {}]
  /\ stopped = {} /\ begun = {} /\ again = {} /\ stranded = {}
  /\ faults = 0

-----------------------------------------------------------------------------
(* Trigger::Start *)

\* Nothing open was found: Task::new makes the task.  (Otherwise the answer is
\* "already running" and nothing changes.)
LookForStart(h) ==
  /\ pc[h] = "idle"
  /\ FoundOpen = {}
  /\ next \in Ids
  /\ pc' = [pc EXCEPT ![h] = "create"]
  /\ about' = [about EXCEPT ![h] = next]
  /\ known' = [known EXCEPT ![next] = Present]
  /\ next' = next + 1
  /\ UNCHANGED <<rowVars, run, history>>

\* No constraint of the table keeps a second open task of the issue out.
CreateTask(h) ==
  /\ pc[h] = "create"
  /\ state' = [state EXCEPT ![about[h]] = "queued"]
  /\ pc' = [pc EXCEPT ![h] = "enqueue"]
  /\ UNCHANGED <<jobs, run, about, next, known, history>>

CreateFails(h) ==
  /\ pc[h] = "create"
  /\ Fault
  /\ pc' = [pc EXCEPT ![h] = "idle"]
  /\ UNCHANGED <<rowVars, run, about, next, known, stopped, begun, again, stranded>>

EnqueueTask(h) ==
  /\ pc[h] = "enqueue"
  /\ jobs' = jobs \cup {about[h]}
  /\ pc' = [pc EXCEPT ![h] = "idle"]
  /\ UNCHANGED <<state, run, about, next, known, history>>

\* append_event or enqueue fails: the handler answers with an error, the row stays.
EnqueueFails(h) ==
  /\ pc[h] = "enqueue"
  /\ Fault
  /\ stranded' = stranded \cup {about[h]}
  /\ pc' = [pc EXCEPT ![h] = "idle"]
  /\ UNCHANGED <<rowVars, run, about, next, known, stopped, begun, again>>

-----------------------------------------------------------------------------
(* Trigger::Stop *)

\* ORDER BY created_at DESC LIMIT 1: the newest open task.
LookForStop(h) ==
  /\ pc[h] = "idle"
  /\ \E t \in FoundOpen :
       /\ \A u \in FoundOpen : u <= t
       /\ about' = [about EXCEPT ![h] = t]
  /\ pc' = [pc EXCEPT ![h] = "stop"]
  /\ UNCHANGED <<rowVars, run, next, known, history>>

WriteStop(h) ==
  /\ pc[h] = "stop"
  /\ state' = [state EXCEPT ![about[h]] = "cancelled"]
  /\ stopped' = stopped \cup {about[h]}
  /\ pc' = [pc EXCEPT ![h] = "idle"]
  /\ UNCHANGED <<jobs, run, about, next, known, begun, again, stranded, faults>>

StopFails(h) ==
  /\ pc[h] = "stop"
  /\ Fault
  /\ pc' = [pc EXCEPT ![h] = "idle"]
  /\ UNCHANGED <<rowVars, run, about, next, known, stopped, begun, again, stranded>>

-----------------------------------------------------------------------------
(* Runs *)

BeginRun(t) ==
  /\ t \in jobs
  /\ run[t] = "off"
  /\ run' = [run EXCEPT ![t] = "on"]
  /\ begun' = begun \cup {t}
  /\ again' = IF t \in begun THEN again \cup {t} ELSE again
  /\ UNCHANGED <<rowVars, handlerVars, stopped, stranded, faults>>

\* set_state and the other writes in mid-run: the row gets the run's own state.
Overwrite(t) ==
  /\ run[t] = "on"
  /\ state' = [state EXCEPT ![t] = "working"]
  /\ UNCHANGED <<jobs, run, handlerVars, history>>

\* The top of a round finds the row cancelled.
NoticeStop(t) ==
  /\ run[t] = "on"
  /\ state[t] = "cancelled"
  /\ run' = [run EXCEPT ![t] = "over"]
  /\ UNCHANGED <<rowVars, handlerVars, history>>

\* Mutant of EndRun: the outcome is not written.
EndRunUnwritten(t) ==
  /\ run[t] = "on"
  /\ run' = [run EXCEPT ![t] = "over"]
  /\ UNCHANGED <<rowVars, handlerVars, history>>

\* deliver, or run_task's error branch, writes the outcome.
EndRun(t) ==
  /\ run[t] = "on"
  /\ \E outcome \in {"awaiting_human", "failed"} : state' = [state EXCEPT ![t] = outcome]
  /\ run' = [run EXCEPT ![t] = "over"]
  /\ UNCHANGED <<jobs, handlerVars, history>>

\* The write of a failure is lost; the run is over all the same.
EndUnrecorded(t) ==
  /\ run[t] = "on"
  /\ Fault
  /\ run' = [run EXCEPT ![t] = "over"]
  /\ stranded' = stranded \cup {t}
  /\ UNCHANGED <<rowVars, handlerVars, stopped, begun, again>>

FinishJob(t) ==
  /\ run[t] = "over"
  /\ jobs' = jobs \ {t}
  /\ run' = [run EXCEPT ![t] = "off"]
  /\ UNCHANGED <<state, handlerVars, history>>

\* The job of a settled task stays claimed until its lease runs out, and is run again.
FinishFails(t) ==
  /\ run[t] = "over"
  /\ Fault
  /\ run' = [run EXCEPT ![t] = "off"]
  /\ UNCHANGED <<rowVars, handlerVars, stopped, begun, again, stranded>>

\* The process dies and comes back; claimed jobs are handed out again.
Crash ==
  /\ Fault
  /\ run' = [t \in Ids |-> "off"]
  /\ pc' = [h \in Handlers |-> "idle"]
  /\ stranded' = stranded \cup {about[h] : h \in {g \in Handlers : pc[g] = "enqueue"}}
  /\ UNCHANGED <<rowVars, about, next, known, stopped, begun, again>>

-----------------------------------------------------------------------------
HandlerStep(h) ==
  \/ LookForStart(h) \/ CreateTask(h) \/ CreateFails(h)
  \/ EnqueueTask(h) \/ EnqueueFails(h)
  \/ LookForStop(h) \/ WriteStop(h) \/ StopFails(h)

RunStep(t) ==
  \/ BeginRun(t) \/ Overwrite(t) \/ NoticeStop(t)
  \/ EndRun(t) \/ EndUnrecorded(t) \/ FinishJob(t) \/ FinishFails(t)

Next ==
  \/ \E h \in Handlers : HandlerStep(h)
  \/ \E t \in Ids : RunStep(t)
  \/ Crash

Spec == Init /\ [][Next]_vars

-----------------------------------------------------------------------------
(* Properties *)

\* Rows, runs and handlers keep their types.
TypeOK ==
  /\ state \in [Ids -> Open \cup Closed \cup {"absent"}]
  /\ jobs \subseteq Ids
  /\ run \in [Ids -> {"off", "on", "over"}]
  /\ pc \in [Handlers -> {"idle", "create", "enqueue", "stop"}]
  /\ about \in [Handlers -> Ids \cup {0}]
  /\ \A h \in Handlers : pc[h] # "idle" => about[h] \in Ids
  /\ next \in 1..(MaxTasks + 1)
  /\ known \in [Ids -> SUBSET Ids]
  /\ stopped \subseteq Ids /\ begun \subseteq Ids /\ again \subseteq Ids
  /\ stranded \subseteq Ids
  /\ faults \in 0..MaxFaults

\* A task is only created beside an older open one for a reason: the older task was not
\* there yet when its handler looked, or it was closed then and has come back to life,
\* because its run overwrote a stop, or because a crash or a fault made it run again.
DuplicatesHaveACause ==
  \A t, u \in Ids :
    state[t] \in Open /\ state[u] \in Open /\ t \in known[u] => t \in stopped \cup again

\* A task that waits or is worked on has a job, or it blocks its issue for ever: a row
\* without a job is one whose handler is about to enqueue it, or what a fault left behind.
WaitingTasksHaveJobs ==
  \A t \in Ids :
    state[t] \in {"queued", "working"} =>
      \/ t \in jobs \cup stranded
      \/ \E h \in Handlers : pc[h] = "enqueue" /\ about[h] = t

-----------------------------------------------------------------------------
(* The inductive invariant *)

\* What runs and handlers presuppose of the rows they work on.
RunsHaveJobs ==
  \A t \in Ids :
    /\ run[t] # "off" => t \in jobs /\ t \in begun
    /\ t \in jobs => state[t] # "absent"
    /\ run[t] = "over" => state[t] \notin {"queued", "working"} \/ t \in stranded
HandlersHaveRows ==
  /\ \A h \in Handlers :
       /\ pc[h] \in {"enqueue", "stop"} => state[about[h]] # "absent"
       /\ pc[h] \in {"create", "enqueue"} => about[h] < next /\ about[h] \notin jobs
       /\ pc[h] = "create" => state[about[h]] = "absent"
       /\ \A g \in Handlers \ {h} :
            {pc[g], pc[h]} \subseteq {"create", "enqueue"} => about[g] # about[h]
  /\ \A t \in Ids : t >= next => state[t] = "absent"

\* A closed task that could be reopened bears the mark of why, and one that was closed when
\* another was asked for is only open with such a mark.
ClosedTasksAreMarked ==
  \A t \in Ids :
    /\ known[t] \subseteq Present
    /\ state[t] = "cancelled" => t \in stopped
    /\ state[t] = "failed" => t \in begun /\ (run[t] = "on" => t \in again \cup stopped)
    /\ \A u \in Ids : t \in known[u] /\ state[t] \in Open => t \in stopped \cup again

IInv ==
  /\ TypeOK
  /\ RunsHaveJobs
  /\ HandlersHaveRows
  /\ ClosedTasksAreMarked
  /\ DuplicatesHaveACause
  /\ WaitingTasksHaveJobs
=============================================================================
