--------------------------- MODULE MCJobQueueLive ---------------------------
(***************************************************************************)
(* Progress of the queue.  The clock of JobQueue stops at MaxTime, and a   *)
(* clock that stops would keep leases alive for ever.  Here time goes on:  *)
(* once the clock is at MaxTime, a tick lowers every recorded timestamp    *)
(* instead.  Timestamps are only ever compared with each other, so this is *)
(* the same passage of time as long as the differences that matter are     *)
(* smaller than MaxTime.                                                   *)
(***************************************************************************)
EXTENDS JobQueue

CONSTANTS r1, r2

OneProcess == {{r1, r2}}

Earlier(n) == IF n \in Nat /\ n > 0 THEN n - 1 ELSE n

ShiftTick ==
  /\ clock = MaxTime
  /\ StoreCallsAreShort
  /\ jobs' = [i \in DOMAIN jobs |->
                [jobs[i] EXCEPT !.runAfter = Earlier(@), !.leaseUntil = Earlier(@)]]
  /\ seen' = [w \in Runners |-> Earlier(seen[w])]
  /\ held' = [w \in Runners |-> [held[w] EXCEPT !.until = Earlier(@)]]
  /\ sweep' = [p \in Processes |-> Earlier(sweep[p])]
  /\ UNCHANGED <<clock, nextId, submitted, pc, up, done, faults>>

\* Time passes, runners go on with what they do, and a run of a task ends: every
\* command and model call of the engine has a timeout.  The reaper, the faults and
\* the webhook owe nothing; a process that died is started again.
Fairness ==
  /\ WF_vars(Tick \/ ShiftTick)
  /\ \A w \in Runners : WF_vars(RunnerStep(w))
  /\ \A p \in Processes : WF_vars(Restart(p))

FairSpec == Init /\ [][Step \/ Tick \/ ShiftTick]_vars /\ Fairness

\* Panics are the one fault nothing repairs: every process is up and no runner lives.
AllRunnersDead == up = Processes /\ \A w \in Runners : pc[w] = "down"

\* Every enqueued task is run to an Ok and leaves the table, through crashes, failed
\* store calls and dead runners, without any help of the reaper, unless panics have
\* killed every runner.
EveryJobFinishes ==
  \A t \in Tasks :
    t \in submitted ~>
      \/ t \in done /\ \A i \in DOMAIN jobs : jobs[i].task # t
      \/ AllRunnersDead
=============================================================================
