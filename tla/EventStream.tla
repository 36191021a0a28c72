----------------------------- MODULE EventStream -----------------------------
(***************************************************************************)
(* The event log of the store and the stream of one task's events that the *)
(* read API serves (gitai-server, api.rs, task_events).                    *)
(*                                                                         *)
(* The log is a table whose key grows by one per row.  A stream keeps a    *)
(* cursor into it, reads a page behind the cursor, sends the page row by   *)
(* row, and when a page comes back empty reads the state of the task,      *)
(* sleeps, and ends after the sleep if the task had ended.  A client that  *)
(* comes back names the last row it received.  The reads of the stream are *)
(* statements of their own: rows and states are written between any two.   *)
(***************************************************************************)
EXTENDS Integers, Sequences, FiniteSets

CONSTANTS
  Tasks,       \* the tasks that write events
  Watched,     \* the task whose stream this is
  PageSize,    \* api.rs: PAGE
  MaxEvents,   \* bound: rows of the log
  MaxFaults    \* bound: store calls that fail and connections that break

ASSUME StreamAssumption ==
  /\ Watched \in Tasks
  /\ PageSize \in Nat \ {0}
  /\ MaxEvents \in Nat /\ MaxFaults \in Nat

VARIABLES
  log,         \* the table: the task of row i is log[i]
  ended,       \* the row of the watched task is in a terminal state
  pc,          \* what the server does with the stream
  cursor,      \* the row behind which the next page starts
  page,        \* rows read and not yet sent
  done,        \* the state read last was terminal, or could not be read
  got,         \* what the client received, over all its connections
  horizon,     \* ghost: the length of the log when a page last came back empty
  faults

vars == <<log, ended, pc, cursor, page, done, got, horizon, faults>>

-----------------------------------------------------------------------------

Rows == 1 .. Len(log)

\* The rows of the watched task.
Mine == {i \in Rows : log[i] = Watched}

\* Mutant of ListEvents: the limit counts the rows of every task.
ListEventsOfAll(after, limit) == {i \in Mine : i > after /\ i <= after + limit}

\* list_events: the first rows behind the cursor, in the order of their keys.
ListEvents(after, limit) ==
  {i \in Mine : i > after /\ Cardinality({j \in Mine : after < j /\ j < i}) < limit}

Latest(S) == CHOOSE i \in S : \A j \in S : j <= i

Seen == {got[n] : n \in DOMAIN got}

\* The position a client resumes from.
LastSeen == IF got = <<>> THEN 0 ELSE got[Len(got)]

Streaming == {"reading", "sending", "asking", "sleeping"}

Fault == faults < MaxFaults /\ faults' = faults + 1

-----------------------------------------------------------------------------

Init ==
  /\ log = <<>> /\ ended = FALSE
  /\ pc = "away" /\ cursor = 0 /\ page = {} /\ done = FALSE
  /\ got = <<>> /\ horizon = 0 /\ faults = 0

\* Some process writes an event: a run, a webhook, a run that outlived its lease.
AppendEvent(t) ==
  /\ Len(log) < MaxEvents
  /\ log' = Append(log, t)
  /\ UNCHANGED <<ended, pc, cursor, page, done, got, horizon, faults>>

\* The row of the task is written. A terminal state is not final: a run overwrites a
\* stop with its own copy, and a run that is begun again sets its task to work.
WriteState ==
  /\ ended' \in BOOLEAN
  /\ UNCHANGED <<log, pc, cursor, page, done, got, horizon, faults>>

\* Mutant of OpenStream: goes on behind the rows read last, not behind those received.
OpenStreamAtCursor ==
  /\ pc \in {"away", "closed"}
  /\ pc' = "reading" /\ done' = FALSE
  /\ UNCHANGED <<log, ended, cursor, page, got, horizon, faults>>

\* GET /api/tasks/{id}/events?after=<last row seen>
OpenStream ==
  /\ pc \in {"away", "closed"}
  /\ pc' = "reading" /\ cursor' = LastSeen /\ done' = FALSE
  /\ UNCHANGED <<log, ended, page, got, horizon, faults>>

\* A page with rows: the cursor moves behind the last of them before any is sent.
ReadPage ==
  /\ pc = "reading"
  /\ LET events == ListEvents(cursor, PageSize)
     IN  /\ events # {}
         /\ page' = events /\ cursor' = Latest(events)
  /\ pc' = "sending" /\ done' = FALSE
  /\ UNCHANGED <<log, ended, got, horizon, faults>>

\* Mutant of CaughtUp: a page that is not full is taken for the end of the log.
CaughtUpAtShortPage ==
  /\ pc = "reading"
  /\ Cardinality(ListEvents(cursor, PageSize)) < PageSize
  /\ pc' = "asking" /\ horizon' = Len(log)
  /\ UNCHANGED <<log, ended, cursor, page, done, got, faults>>

CaughtUp ==
  /\ pc = "reading"
  /\ ListEvents(cursor, PageSize) = {}
  /\ pc' = "asking" /\ horizon' = Len(log)
  /\ UNCHANGED <<log, ended, cursor, page, done, got, faults>>

\* unwrap_or_default: a page that cannot be read is taken for an empty one.
ReadFails ==
  /\ pc = "reading" /\ Fault
  /\ pc' = "asking"
  /\ UNCHANGED <<log, ended, cursor, page, done, got, horizon>>

\* The rows of a page go out one by one; the next page is read after the last.
SendEvent ==
  /\ pc = "sending"
  /\ \E i \in page :
       /\ \A j \in page : i <= j
       /\ got' = Append(got, i)
       /\ page' = page \ {i}
       /\ pc' = IF page = {i} THEN "reading" ELSE "sending"
  /\ UNCHANGED <<log, ended, cursor, done, horizon, faults>>

AskState ==
  /\ pc = "asking"
  /\ pc' = "sleeping" /\ done' = ended
  /\ UNCHANGED <<log, ended, cursor, page, got, horizon, faults>>

\* unwrap_or(true): a state that cannot be read ends the stream.
AskFails ==
  /\ pc = "asking" /\ Fault
  /\ pc' = "sleeping" /\ done' = TRUE
  /\ UNCHANGED <<log, ended, cursor, page, got, horizon>>

\* After POLL_INTERVAL: `finished` is looked at before anything is read again.
WakeUp ==
  /\ pc = "sleeping"
  /\ pc' = IF done THEN "closed" ELSE "reading"
  /\ UNCHANGED <<log, ended, cursor, page, done, got, horizon, faults>>

\* The connection breaks, with the rest of the page.
Disconnect ==
  /\ pc \in Streaming /\ Fault
  /\ pc' = "away" /\ page' = {}
  /\ UNCHANGED <<log, ended, cursor, done, got, horizon>>

Poll == ReadPage \/ CaughtUp \/ SendEvent \/ AskState \/ WakeUp

Next ==
  \/ \E t \in Tasks : AppendEvent(t)
  \/ WriteState \/ OpenStream \/ Poll
  \/ ReadFails \/ AskFails \/ Disconnect

Spec == Init /\ [][Next]_vars

\* The server polls (POLL_INTERVAL) and every store call returns; the client comes back,
\* which is what ?after= is for. Faults, rows and states owe nothing.
FairSpec == Spec /\ WF_vars(Poll) /\ WF_vars(OpenStream)

-----------------------------------------------------------------------------

\* The values each variable ranges over.
TypeOK ==
  /\ log \in Seq(Tasks) /\ ended \in BOOLEAN /\ done \in BOOLEAN
  /\ pc \in Streaming \cup {"away", "closed"}
  /\ cursor \in Nat /\ horizon \in Nat /\ faults \in Nat
  /\ page \in SUBSET Nat
  /\ got \in Seq(Nat)

\* Over any number of connections, breaks and failed reads a client receives the events of
\* its task in the order they were written, none twice, and none is left out before one
\* it has: a page that was read and lost with its connection is read again.
NothingSkipped ==
  /\ \A m, n \in DOMAIN got : m < n => got[m] < got[n]
  /\ Seen = {i \in Mine : i <= LastSeen}

\* Whenever a stream ran out of pages, its client had every event written until then. So a
\* closed stream lacks only what was written after its last read that found no row,
\* whatever the order in which rows and states are written around the close.
DeliveredUpToHorizon == {i \in Mine : i <= horizon} \subseteq Seen

\* A page holds the next events of the task, and the cursor is behind the last of them.
PageInvariant ==
  /\ cursor <= Len(log) /\ LastSeen <= Len(log) /\ horizon <= Len(log)
  /\ pc \in Streaming =>
       /\ Seen \cup page = {i \in Mine : i <= cursor}
       /\ LastSeen <= cursor
       /\ \A i \in page : i > LastSeen
  /\ pc # "sending" => page = {}
  /\ pc = "sending" => page # {}

\* The inductive invariant.
IInv == TypeOK /\ NothingSkipped /\ PageInvariant /\ DeliveredUpToHorizon

\* A client that comes back whenever its stream ends receives every event in the end,
\* those included that were written after the state a stream ended on.
EverythingArrives ==
  \A i \in 1 .. MaxEvents : (i \in Mine) ~> (i \in Seen)
=============================================================================
