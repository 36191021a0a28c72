# gitai: a TLA+ model of the queue and the pipeline

gitai takes an issue, lets several language models attempt it in rounds, gates, reviews and
arbitrates their patches and opens a pull request. This directory holds TLA+ modules of it. Eight
are state machines of what depends on the order of things: the job queue with its leases and
runners, the webhook handlers, the engine that drives one task, an attempt in its workspace, the
mirror and the commands under it, the calls to models, and the event stream. Eight are functions:
what the program makes of an answer, a search page, a delivery, a configuration, a pattern, a list of
edits. TLC checks small instances of both; TLAPS proves the safety properties of the state machines
for every instance, and what is meant of all of the functions but the parser of answers for every
input.

## The system

| part | where | state it keeps | operations |
|---|---|---|---|
| Webhook intake | `gitai-server/src/webhook.rs` | none | Start (find open task, create, event, enqueue), Stop (find, write `cancelled`), Help |
| Store | `gitai-store/src/lib.rs` | SQLite tables `tasks`, `attempts`, `events`, `jobs` | whole-row writes of a task, upserts of attempts, the event log, the queue operations |
| Job queue | `gitai-store/src/lib.rs:291-408` | table `jobs`: schedule, claim, lease, number of hand-outs | `enqueue`, `claim_job`, `finish_job`, `release_job`, `reap_expired_leases` |
| Worker pool | `gitai-server/src/lib.rs` | the job each runner holds | `run_worker`, `backoff`, the reaper task |
| Engine | `gitai-pipeline/src/engine.rs` | a copy of the task, the attempts of the round | `run_task`, `drive`, `run_round`, `run_attempt`, `deliver`, `prune_branches` |
| Sandbox | `gitai-sandbox/src/{git,docker,local,proc,tree}.rs` | mirrors, checkouts, containers, processes | prepare, commands under a deadline, clean-up, commit, push |
| Gate | `gitai-sandbox/src/{gate,glob}.rs`, `engine.rs` (whose commands) | none | setup, cheap checks, build, test, lint |
| Workers' edits | `gitai-pipeline/src/edits.rs` | none (the checkout) | write, replace, delete |
| Context | `gitai-pipeline/src/context.rs` | the files opened for a worker | limits of a window, `open_files`, `cap_diff` |
| Roles | `gitai-pipeline/src/roles.rs`, `gitai-core` | none | choice of models, verdicts, ranking |
| Model calls | `gitai-llm` | permits per provider | `complete`, `complete_json`, retry and backoff, `parse_json` |
| Web search | `gitai-pipeline/src/web_search.rs` | none | `search_all` over DuckDuckGo or a JSON service |
| Forge adapters | `gitai-forge` | none (the forge keeps branches and pull requests) | `parse_webhook`, comments, `open_pull_request`, `delete_branch` |
| Read API | `gitai-server/src/api.rs` | an event stream's cursor | the stream of a task's events, plain reads |
| CLI, configuration | `gitai-cli`, `gitai-core/src/config.rs` | none | start-up and shutdown, `validate` |

The web half and the worker half talk through the store only. A webhook writes a task and a job;
a runner claims the job, calls `run_task` and deletes the job when that returns `Ok` (which it
does for failed tasks too), or puts it back with a backoff. The engine reads the task row once,
works on its own copy and writes **the whole copy** back at every state change; `/stop` does the
same with a copy of its own. Branches are named after the issue, the round and the index of the
attempt, so every run of a task uses the same names, and they are pushed with `--force`.

What is hard about it:

* **Leases.** A lease lasts an hour and is never renewed. A run that takes longer has a second
  runner beside it, and settles the row of its successor, because rows are deleted and released
  by id. Clock readings are taken before the write lock is awaited.
* **Lost updates.** Three writers (a run, its successor, a stop) write whole rows.
* **Crashes.** Between opening a pull request, recording it, pruning and deleting the job there
  are five writes to three places, and the next run starts over from the row.
* **Failing calls.** Some errors end the run (`?`), some are ignored (`let _ =`), some only warn.
* **Concurrency inside a round.** Attempts and reviews run in parallel and finish in any order; they
  share one mirror of the repository and the permits of their providers.
* **Processes that outlive their parent.** A command may leave descendants behind that hold its pipes.
* **Loops within loops.** A task has rounds, a round attempts, an attempt turns, a turn calls, a call
  repairs, a repair requests; budgets are looked at in the outermost one only.
* **Text from outside.** Answers of models, pages and deliveries come in whatever shape.

What makes each part correct: the queue hands a job to one live lease at a time, loses none and
gets every one worked off; a run settles its task, delivers the patch that was approved, leaves
no branch behind, keeps to its rounds and opens one pull request; a stop is obeyed; what an attempt
pushes is what was judged; a workspace starts from a fresh base and leaves nothing behind; a call
returns, costs a bounded amount and gives its permit back; a client of the stream misses no event;
and each conversion loses nothing it was meant to keep.

## Modules

| module | what it is |
|---|---|
| `JobQueue` | table `jobs`, the runners, the reapers, processes that crash and restart, a clock |
| `Intake` | the Start and Stop handlers of one issue, side by side, and the tasks they make |
| `TaskRun` | one task under `run_task`, with its row, attempts, branches, pull requests and `/stop` |
| `TaskLifecycle` | what a task promises to the readers of its issue; `TaskRun` implements it |
| `Attempt` | one attempt inside its workspace: setup, worker, gate, editor, commit, push |
| `Workspaces` | checkouts on a shared mirror, containers, commands and their removal |
| `Subprocess` | one command: shell, descendant, pipes and deadline; extended by `Workspaces` |
| `ModelCalls` | permits, requests, retries and repairs of concurrent callers |
| `EventStream` | the event log, the stream of one task and a client that reconnects |
| `Answers` | from the text of a model to JSON (`json.rs`) |
| `WebSearch` | from the pages of a search to a list of links (`web_search.rs`) |
| `Forges` | from what a forge reports to start, stop, help or nothing (`gitai-forge`, `decide`) |
| `Roles` | accepted configurations, models of roles, verdicts and ranking |
| `Context` | windows, opened files and diffs (`context.rs`) |
| `Scope` | patterns and paths (`glob.rs`, `check_scope`) |
| `Edits` | lists of edits in a checkout (`edits.rs`, `git.rs`) |
| `Toolchain` | whose image and whose commands judge an attempt, and what the gate reports |
| `MCJobQueue`, `MCJobQueueLive`, `MCIntake`, `MCTaskRun`, `MCAttempt`, `MCWorkspaces`, `MCModelCalls`, `MCEventStream` | instances for TLC; `MCJobQueueLive` lets time go on for ever |
| `Inputs` | one call of a functional module on an input of any set, and what is meant to come of it |
| `MCInputs` | `Inputs` over bounded sets, with `Answers`, whose definitions are recursive |
| `ListOps` | the folds and three more operators on lists, of which `Context`, `Toolchain`, `Scope`, `Edits` and `WebSearch` are built |
| `JobQueueProofs`, `IntakeProofs`, `TaskRunProofs`, `AttemptProofs`, `WorkspacesProofs`, `ModelCallsProofs`, `EventStreamProofs`, `InputProofs` | the theorems |

The modules meet where the code's parts meet. `JobQueue` sees of a run that it takes any time and
returns; `TaskRun` sees of the queue that its job may be handed out again; `Intake` sees of both what
they do to rows and jobs. `Attempt` is what `TaskRun` has as one step, its outcome; `Workspaces` is
the checkout `Attempt` takes for granted, `Edits`, `Scope` and `Toolchain` are its edits, its scope
and its gate in full. `ModelCalls` is behind every call of a role, `Answers` behind each of its
answers. `Forges` ends in the start or stop with which `Intake` begins.

### JobQueue

`jobs` is the table, a function from row id to row; `nextId` is its AUTOINCREMENT. Each runner
has a program counter `pc` that follows `run_worker`, the clock reading `seen` its current store
call has taken and the job `held` it was given. Each process has a reaper, whose reading is in
`sweep`. `claim_job` is two steps: `BeginClaim` reads the clock and `ClaimJob` (or `NothingDue`,
`ClaimFails`) is the `BEGIN IMMEDIATE` transaction; the reaper is split likewise. `LoadTask`,
`RunReturns`, `FinishJob` and `LoadFails`, `RetryJob` are the two outcomes of `run_task`;
`SettleFails` is a failing `finish_job` or `release_job`. `Panic` kills one runner for good,
`Crash` kills a process (or shuts it down: `serve` aborts its workers) and `Restart` brings all its
runners back. Timestamps are compared in the code as strings of one fixed format, which orders
them like the instants; the model compares numbers.

One assumption about time is made, in `StoreCallsAreShort`: a single store call ends before the
lease counted from its start is over. `SqliteStore::connect` bounds the wait for a connection and
for the lock by 30 seconds each, against a lease of an hour. Nothing bounds a *run*.

### Intake

`state` and `jobs` are the rows of the issue's tasks and of the queue. A handler in `pc` has looked
and is about to `create`, `enqueue` or write a `stop`; `about` is the task it is dealing with.
`LookForStart`, `CreateTask` and `EnqueueTask` are the store calls of `Trigger::Start`, `LookForStop`
and `WriteStop` those of `Trigger::Stop`, and each call may fail. A Start that finds an open task,
a Stop that finds none and Help leave the state as it is. A run is reduced to `BeginRun`,
`Overwrite` (any write in mid-run), `NoticeStop`, `EndRun` and `FinishJob`; that a second run of one task
may go on beside the first is left to `TaskRun`. The history variables say why a row is as it is:
`known` has the tasks there were when a handler looked, `stopped` and `again` those that may come
back to life, `stranded` those a fault left without a job.

### TaskRun

`row`, `job`, `saved` are what the store knows of the task; `remote` and `prs` what the forge
knows; `pc`, `mem`, `work`, `rank`, `winner` belong to a run, and `mem[r]` is its copy of the row.
Runs are numbered; the next one starts when the previous has died or, with `Overlap`, when its
lease is over. The actions follow `drive` from top to bottom: `Start`, `BeginPlanning`, `Plan`,
`EnterRound` / `NoticeCancellation` / `ExhaustBudget`, `BeginRound`, `EndAttempt` for each index,
`CollectRound`, then `RoundWithoutSurvivor` or `BeginReviews`, `Review` / `LoseReview`,
`RoundWithoutReview`, `Approve` or `SendBack`, `RoundSentBack`, `OpenPullRequest` /
`RefusePullRequest` / `LoseAnswer`, `RecordDelivery`, and from every `?` `RecordFailure`, then
`PruneBranches` and `FinishJob`. `WriteOrFail` is `update_task(..).await?`: the write happens and
the run goes on, or it does not and the run fails; `SaveAttempts` is `let _ = save_attempt`, which
loses any subset of the saves. `ReadForStop` and `WriteStop` are the two store calls of `/stop`.

What happens inside an attempt is its outcome: `pushed`; `vetoed`, when the last gate passed but
the editor never agreed (`gate_passed()` holds, the state is `GateFailed`, nothing is pushed);
`unpushed`, when the commit or push failed after that; `failed`; `panicked`. The branch `TaskRun` pushes
is taken for the patch; `Attempt` says in what the two may differ. Comments, labels and events are
left out: no code of the engine reads them back.

Tokens and dollars are one number, of which every model call and every attempt costs one unit: what
a run knows of is in its copy, what the task really cost is the history variable `spent`. The wall
clock, which starts again with every run, is a choice in `ExhaustBudget`: it may be over at the top of
any round. `shared` notes that a run has begun beside a live one.

The forge is modelled by what the engine relies on: a pull request needs an existing head branch,
a second one for the same head is refused, and deleting the head closes it.

### Attempt

`tree` is the working copy, a function from files to what they hold; `patch` and `gate` are the
fields of the attempt's record, `report` is the gate under way, `shown` the files opened for the
worker, `committed` the tree of the commit and `remote` that on the branch. A turn is `AskForFiles`, or
`ApplyEdits`, then the gate in three steps, then `EditorIsDone` or `EditorSendsBack`; `Err` is any `?`,
which keeps patch and gate report as they were and goes to the clean-up. `ListChanges` lists the changed
files and makes the cheap checks, `RunCommands` runs the commands if they passed, `TakeDiff` takes the
diff afterwards. `Commit` stages and commits **the tree as it is by then** (`git add -A`), which nothing
compares with the diff.

Workers and commands are free to write any file. A command may also leave a process behind (`stray`):
`Subprocess` says how, and a `docker exec` that timed out leaves one in the container too. From then on
`StrayWrites` may change any file at any time: between the list and the commands, behind the diff, while
the editor is awaited, in front of the commit. The history variables `written` and `late` have what
was changed since the last list and since the last diff, by whomever. Commands and what they leave
behind are assumed to keep their hands off git's own directory.

Which edits of a list apply is in `Edits`, what a prompt shows of a diff in `Context`. Seen from outside,
an attempt that returns with a passing gate report is `pushed` (state `gate_passed`), `vetoed`
(`gate_failed`) or `unpushed` (`errored`) in `TaskRun`, any other is `failed`.

### Workspaces and Subprocess

`mirror` is the directory all attempts share: absent, forming, or a repository at some head. `pc`
follows `Checkout::prepare`: the look at the directory, then a clone or a fetch, both of which
begin and end in steps of their own, then the cut of the checkout (`CutCheckout`, whose head is
`base`), the branch, and for Docker `CreateContainer` and `StartContainer`. `Refused` is docker's
error answer, with its clean-up; `DockerFails` is the `?` of a docker that cannot be run, without. What
git does with one directory from two processes is external and left as wide as git leaves it:
a clone that fails removes the directory or leaves it (`LeavesMirror`), and a fetch whose directory
was made anew under it brings no head (`old` is then -1). `RemoteMoves` is a push to the base branch, `Crash` the death of the process.

Of a command, `shell` is the child and `descendant` what it leaves behind, in the child's process
group or in a session of its own, with the pipes or without. `Reap` is `child.wait()` having the
status; `Collect` needs that and both pipes closed; `Deadline` kills the group while the child
still has an id. Under Docker the child is the client and the group is in the container.

### ModelCalls

`pc` says whether a caller is idle, in the queue of its provider, asking or sleeping. `Call` begins
a `complete_json`, `Acquire` takes the permit of one `complete`. A request is one action whose
outcome is a choice: `SendFails` and `Busy` sleep (`BackoffDelay`), `Refused` and `Useless` are
errors, `Parsed` is the JSON asked for, `AskAgain` another repair, `OutOfRepairs` the last of them.
After the sleep `TryAgain` or `GiveUp`, since the loop sleeps behind its last request too. `billed`
and `ledger` count what the provider charged and what the returned spend shows. A request that ends in
`SendFails` or `Busy` is `unanswered`: the client gave up on it, or the server did, and whether it was
charged for nobody can tell, so `billed` grows or does not. `Refused` requests are not charged for.

### EventStream

`log` is the table `events` with its growing key. `pc` follows the closure of `task_events`:
`ReadPage` moves `cursor` before the page is sent, `SendEvent` sends row by row, `CaughtUp` and
`AskState` are the empty page and the look at the task's state, `WakeUp` ends the sleep and closes
the stream if the state was terminal. `ReadFails` is `unwrap_or_default`, `AskFails` `unwrap_or(true)`.
`Disconnect` loses the rest of a page, `OpenStream` resumes behind the last row the client has.
States change in any order: a terminal state is overwritten by a run that did not see it.

### The functional modules

Each of them defines the code's functions (`ParseJson`, `SearchAll`, `Parse` and `Decide`,
`Validate`, `Normalise` and `Best`, `OpenFiles` and `DiffFor`, `MatchFrom` and `CheckScope`,
`Apply`, `EffectiveGate` and `RunGate`) and, below a line, what they are meant to do in other
terms: an answer with a known meaning in known surroundings, segments of paths against segments of
patterns, the list of edits without those that were reported, the first of the sources that names
anything. Panics are outcomes, where a slice is cut at a byte or a count goes below zero. `Inputs`
picks an input in two steps, first the call and then its arguments, and the invariants compare. The
sets it picks from are constants; its assumptions say what such inputs look like and nothing about
how many there are: any labels and people, any number of attempts, any window, any commands.
`MCInputs` gives the sets values for TLC, which evaluates the assumptions on them, and adds the parser
of answers, `Answers`, which reads symbol by symbol.

Where strings are cut at byte offsets the data say what is there: a page in `WebSearch` has for each link
the start of a character, the inside of one, or its own end at the places its parsers cut. A checkout in
`Edits` has no symbolic links: `safe_join` (`git.rs:349-368`) decides by the text of a path alone, and the
calls behind it follow a link that the repository or a command put there, so nothing is said here of an
edit through one. In `Scope` a changed name is the line git printed, quotes and escapes included where
git puts them (names beyond ASCII).

Some things are written with an eye to the provers. The arms of a CASE exclude each other, or the last
is OTHER, since a CASE whose guards overlap is any of their values. Functions are merged by a definition
of their own (`Merged`), since `@@` comes from a module the provers cannot look into. And no module but
`Answers` has a RECURSIVE operator: `MatchFrom` computes the sets of places from which each rest of the
pattern matches, a recursive function from the end of the pattern to its beginning, where `match_from`
tries one place after another; what patterns mean is said by layouts (`Layouts`), which tell of each
item where it begins; lists are folded. What folds them are the operators of SequencesExt, repeated in
`ListOps` by their definitions: an instance of a module that extends SequencesExt has some hundred
definitions more, `Inputs` has seven instances, and the proofs about them would take thrice as long.

## Runs

| run | checks | instance | states |
|---|---|---|---|
| `queue_safety` | `LeaseExclusive`, `NothingLost`, `RunningLeaseKept` | 1 task, 2 processes of one runner, lease 2, clock to 5, 2 faults | 1.2 M |
| `queue_progress` | `EveryJobFinishes` | 1 task, one process of 2 runners, lease 1, window 4, 2 faults | 128 k |
| `intake_safety` | `DuplicatesHaveACause`, `WaitingTasksHaveJobs` | 2 handlers, 2 tasks, 3 faults | 271 k |
| `task_safety` | `SettledWhenJobIsGone`, `NoBranchLeaks`, `RecordedPullRequestIsOpen`, `RoundsBounded`, `PullRequestsBounded` | 1 attempt, 2 rounds, 2 runs, 1 crash, 1 stop, 1 failing call | 3.3 M |
| `task_refines` | `ImplementsLifecycle`, `ApprovedPatchIsShown`, `DeliveredPatchStays` | 1 run, 2 parallel attempts, 2 rounds, 2 ranks, 1 crash, 1 failing call | 431 k |
| `task_progress` | `JobIsWorkedOff`, `OvershootBounded` | 1 attempt, 2 rounds, 2 overlapping runs, 1 crash, 1 failing call | 784 k |
| `attempt_safety` | `PushedWasJudged`, `PushedPassedTheGate`, `PassedIsPushed`, `AttemptEnds` | 3 files (one out of scope, one a test), 2 contents, 2 turns | 1.7 M |
| `workspaces` | `CheckoutIsFresh`, `NothingLeftBehind`, `StraysHaveACause`, `CommandsReturnOrCrash` | 3 attempts, one of which runs commands, 2 heads of the base branch, 1 fault, both sandboxes | 1.0 M |
| `model_calls` | `InFlightBounded`, `CallCostsBounded`, `LedgerGapIsExplained`, `EveryCallReturns` | 3 callers, 2 providers of 1 and 2 permits, 1 retry, 1 repair | 153 k |
| `events` | `NothingSkipped`, `DeliveredUpToHorizon`, `EverythingArrives` | 2 tasks, 5 rows, pages of 2, 2 faults | 27 k |
| `inputs` | eight invariants of `Inputs` and one of `MCInputs` | see below | 225 k |
| `stop_doc` | `StopIsHonoured` is violated | 1 run, 1 stop | |

What the nine of `inputs` compare:

| invariant | inputs | what holds |
|---|---|---|
| `AnswersAreFound` | 9 beginnings, 9 answers, 8 ends, fenced or not, both builds | the answer is found in any tidy surroundings, repaired; a panic has one of two causes |
| `EachPageIsListedOnce` | 1 or 3 queries, up to 3 requests each, pages of up to 2 links | a page any query found is listed, once, whatever the other queries did; a panic takes a page that cannot be cut |
| `StartsAreAskedFor`, `AsksAreHeard` | 3 forges, all acts of 3 people on all issues | who asks is heard and nothing starts unasked, with the exceptions the properties name |
| `RolesAreSound` | two reviews of any kind; 2 providers, 2 models, up to 3 workers | an accepted configuration serves every call; the best attempt contradicts no review |
| `ContextFits` | 14 files of 5 kinds, 3 windows, 2 turns; 13 windows, 7 diffs | a request opens no more than the budget of all files, and the turns one budget each; the planned limits fit the window; a diff is cut as if once |
| `ScopeIsPathwise` | patterns of up to 6 and paths of up to 4 characters; sets of 4 of each | a file passes exactly if its directories match those of a pattern |
| `EditsDoAsTheySay` | all lists of up to 2 edits on 7 paths, of 3 on 2 | what is not reported was done, and what is reported left nothing, where no links are |
| `GateJudgesAsAsked` | 3 sources of commands and images, 6 patches, 12 sets of broken commands | the strongest source that names something decides, kind by kind |

**Bounds.** With two runners a row can be held by its owner and by one obsolete runner, which is
every pair the pairwise properties talk about; a clock of five ticks lets a lease of two run out
twice. One task suffices for the row's own history because statements touch the rows of one task,
or all expired rows alike. For a task, two runs give a crash and its repetition, two rounds a
send-back and the reuse of nothing but names, two attempts a loser to prune and a rank to compare.
The fault bounds count failing calls, deaths and stops, one each, so every pair of different mishaps
is explored. Two handlers and two tasks are every pair that can race for one issue. Three files are
one of each kind the cheap checks tell apart; two turns let an attempt read and then edit, or fail and try
again with the report, the files shown and the process of the turn before.
Two callers behind one permit and one beside them are a queue and somebody it must not delay; a
concurrency of zero is configured, and counts as one. Five rows are two full pages and a row between
them. For `workspaces`, two attempts are not enough: one may clone into the directory, be
killed and have it removed, and a second clone anew, under the eyes of a third that has already looked.
A base branch that moves once makes a fetch do something, one fault is one command killed, or one
crash, at any of its points, and commands of two attempts touch nothing they share, so one attempt
runs some (`Commanders`). For `inputs` the sets were chosen by the branches of the code: each is taken,
with its neighbours on either side of every limit. The proofs remove these bounds from the safety
properties of all runs, but for `AnswersAreFound`.

**Fairness.** `queue_progress` assumes that time passes, that a runner goes on with what it does
and a run ends (commands and model calls have timeouts and the loops are bounded), and that a dead
process is started again, as the shipped systemd unit and compose file do. It assumes nothing of
the reaper: a claim takes over an expired row by itself. Since the bounded clock of `JobQueue`
would keep leases alive for ever, `ShiftTick` goes on at the bound by lowering every stored
timestamp instead, which changes no comparison the code makes. `task_progress` assumes the same of
runs, and that a handler which read a row writes it; `Err`, `Crash`, `LoseReview`, `LoseAnswer`
and a new stop are never owed. `attempt_safety` assumes that an attempt goes on (`Step`), and
nothing of the processes it left behind. `model_calls`
assumes it of a caller at the head of its queue, since requests have `timeout_secs` and sleeps an
end; a queue served in order is the semaphore's own. `workspaces` assumes that timers fire and their
tasks are polled, and nothing of the command: it may run for ever. `events` assumes that the server
polls and that the client comes back.

**Deadlock** is not checked where the system really stops: `TaskRun`, whose task ends, `Attempt`
and `Workspaces`, whose attempts do, `Intake`, whose handlers stop when the tasks are used up,
`ModelCalls`, whose callers have a last call, and `MCInputs`, which is one call. The queue and the
stream never stop.

### Where code and documents disagree

`stop_doc` has TLC show one disagreement: the bot answers that the workers have stopped; the run
overwrites `cancelled` with its own state at its next write, and only a stop that survives until the
top of a round is noticed. It also shows in `DuplicatesHaveACause`, which has to allow that a
task somebody `stopped` is open again.

The others show in what the properties have to except, or in the conditions of an action.

*Tasks.*
* A slow runner loses its job like a dead one, since a lease is never renewed and the default
  wall-clock budget, as long as the lease, is only looked at between rounds. `LeaseExclusive` speaks
  of valid leases, and seven theorems about a task of `~ Overlap`.
* `drive` does not look at the state of the task it is given (`engine.rs:98`), so a process that dies
  after the delivery and before `finish_job` has the delivered task worked on again. `gitai.service:35`
  and `server/src/lib.rs:4-6` say that a restart loses a round at most. `Start` has no such guard;
  `DeliveredPatchStays` ends where another run begins.
* The budget is one of a task, yet a run only knows what its copy of the row says (`engine.rs:146`): a crash
  forgets the round it interrupts, runs beside each other each spend a ceiling, and the wall clock starts
  again with every run (`engine.rs:145`). `OvershootBounded` counts the runs and the crashes.
* Branches are pushed with `--force` under names all tasks of an issue share, so a later task replaces the
  commits under an earlier one's open pull request. The properties ask whether the branch is there, and
  of the pull request a run opens itself whether it shows that run's patch; none forbids this.
* "One task per issue at a time" (`webhook.rs:189-190`): looking and creating are two statements, so two
  deliveries that arrive together create two tasks; `DuplicatesHaveACause` speaks only of tasks that were
  there when a handler looked (`known`).
* "The branch exists in the working copy" (`engine.rs:814`), "every attempt that clears the gate is
  pushed" (`README.md:182`): attempts are selected by their last gate report and pushed by their state.
  One the editor kept refusing can be reviewed, approved and, locally, delivered on a branch that does not
  exist. With a forge the pull request is refused. The properties say "if it was pushed".

*Attempts and their gate.*
* The files shown to a worker are read before its first turn and when it asks (`engine.rs:569`), not
  after its edits: from the second turn on it sees what they held before, though `worker.md` promises
  exact contents and replacements must match byte for byte.
* The gate lists the changed files before its own commands run, so what they change outside
  `allowed_paths` is pushed; and a renamed file is listed under its new name only (`git.rs:185`), so the
  path it left is not checked. `PushedPassedTheGate` excepts both.
* What is committed is the checkout at that moment (`git.rs:245`), not the diff that was recorded, judged and
  shown: a process that outlived its command may have written it since, while the gate still ran or
  the editor was awaited. `PushedWasJudged` has the branch differ in those files only.
* `README.md:145-155` and `config.rs:391` give a repository control over its "exact gate verification
  commands" by `.gitai.toml`; a server whose `[gate]` names a command of that kind wins
  (`effective_gate_config`), and the planner's image wins over `sandbox.images`. `Sources` and
  `ImageIsTheOneAsked` have the order the code has.
* `sandbox.images` is looked up by full name and by what follows the first slash
  (`engine.rs:1192`), while names are split from the right elsewhere (`model.rs:72-74`): a project in a
  GitLab subgroup is not found by its bare name.
* Setup "runs before the network is cut" (`README.md:133-134`): the container is created with its network
  once (`docker.rs:73`), so setup has no more of it than the gate.
* A replacement "refuses to guess when ambiguous" (`edits.rs:27`): occurrences that overlap are counted
  once, and the first is replaced. `EditsDoAsTheySay` excepts them.

*Workspaces.*
* "The pipeline always cleans up on every exit path" (`core/src/sandbox.rs:98`): not when `prepare` fails
  after its clone, nor when docker cannot be run (`docker.rs:166`, the `?`). Both are the faults
  that `NothingLeftBehind` excepts.
* "Every descendant that has not called `setsid` is included" in the kill (`tree.rs:12-13`): not once the
  shell has been reaped, when its id is gone. That is the second cause of `StraysHaveACause`.

*Models.*
* The "cap on all opened files together" (`context.rs:27-29`) holds for each time a worker asks; what it
  opened before stays (`merge_open_files`), so that a worker that keeps asking is shown more than the
  window holds. `ShownFilesFit` counts one budget per turn, and claims no more.
* "A context built to these limits fits" (`context.rs:60-61`) from a window of 3634 tokens on, and leaves the
  room set aside for the answer from 12307 on, because the lower clamps take over.
* An answer that was charged for and then refused is missing from the spend, and so is what a provider
  charged for a request that timed out here and was repeated: `LedgerGapIsExplained` says how much
  both can be.
* The pages of DuckDuckGo are cut by bytes (`web_search.rs:421`, `467`, `514`) inside of a character or behind
  the end of the page, which panics and takes all queries of the worker with it, although a query that
  fails is only logged (`search_all`). `EachPageIsListedOnce` names where.

*The stream and the forges.*
* A stream closes when its task "can produce no more" (`api.rs`, `task_events`), yet rows written between the last
  empty page and the close are not sent; the next connection has them (`EverythingArrives`). The ids it
  sends are not read back from a browser's `Last-Event-ID`, only from `?after=`.
* A change of labels is reported by Gitea without the label, and a reworded comment by GitLab like a new
  one, so both start a task again; issues opened by the bot's account are started by command only on
  GitHub and Gitea. `StartsAreAskedFor` and `AsksAreHeard` name these.

## Proofs

Eight modules of theorems, for any values of the constants under the assumptions the modules name:
positive leases and page sizes, bounds that are numbers, a `None` that is no number, and inputs of
the shape the program is given.

| module | theorem | statement |
|---|---|---|
| `JobQueueProofs` | `TypeCorrect`, `IInvHolds` | `Spec => []TypeOK`, `Spec => []IInv` |
| | `LeaseIsExclusive` | `Spec => []LeaseExclusive` |
| | `NoTaskIsLost` | `Spec => []NothingLost` |
| | `AttemptsAreFences` | `Spec => []AttemptsNumberTheClaims` |
| | `RunningLeaseIsKept` | `Spec => RunningLeaseKept` |
| `IntakeProofs` | `TypeCorrect`, `IInvHolds` | `Spec => []TypeOK`, `Spec => []IInv` |
| | `DuplicatesAreExplained` | `Spec => []DuplicatesHaveACause` |
| | `NoTaskIsStranded` | `Spec => []WaitingTasksHaveJobs` |
| `TaskRunProofs` | `TypeCorrect` | `Spec => []TypeOK` |
| | `PullRequestsCorrect` | `Spec => []PullRequestsBounded` |
| | `RoundsCorrect` | `Spec => []RoundsBounded` |
| | `SettledCorrect` | `~ Overlap /\ Spec => []SettledWhenJobIsGone` |
| | `ApprovedPatchCorrect` | `~ Overlap /\ Spec => []ApprovedPatchIsShown` |
| | `RecordedCorrect` | `~ Overlap /\ Spec => []RecordedPullRequestIsOpen` |
| | `DeliveredCorrect` | `~ Overlap /\ Spec => []DeliveredPatchStays` |
| | `NoLeakCorrect` | `~ Overlap /\ Spec => []NoBranchLeaks` |
| | `OvershootCorrect` | `~ Overlap /\ Spec => []OvershootBounded` |
| | `LifecycleCorrect` | one run, a forge, no stop, `~ Overlap`: `Spec => ImplementsLifecycle` |
| `AttemptProofs` | `TypeCorrect`, `IInvHolds` | `Spec => []TypeOK`, `Spec => []IInv` |
| | `WhatIsPushedWasJudged` | `Spec => []PushedWasJudged` |
| | `WhatIsPushedPassed` | `Spec => []PushedPassedTheGate` |
| | `PassedAttemptsArePushed` | `Spec => []PassedIsPushed` |
| `ModelCallsProofs` | `TypeCorrect`, `IInvHolds` | `Spec => []TypeOK`, `Spec => []IInv` |
| | `ProvidersAreNotStampeded` | `Spec => []InFlightBounded` |
| | `CallsAreBounded` | `Spec => []CallCostsBounded` |
| | `TheLedgerIsExplained` | `Spec => []LedgerGapIsExplained` |
| `EventStreamProofs` | `TypeCorrect`, `IInvHolds` | `Spec => []TypeOK`, `Spec => []IInv` |
| | `NoEventIsSkipped` | `Spec => []NothingSkipped` |
| | `ClosedStreamsLackTheTailOnly` | `Spec => []DeliveredUpToHorizon` |
| `WorkspacesProofs` | `TypeCorrect` | `Spec => []TypeOK` |
| | `CheckoutsAreFresh` | `Spec => []CheckoutIsFresh` |
| | `NothingIsLeft` | `Spec => []NothingLeftBehind` |
| | `StraysAreExplained` | `Spec => []StraysHaveACause` |
| `InputProofs` | `StartsAreAsked`, `AsksAreAlwaysHeard` | `Spec => []StartsAreAskedFor`, `Spec => []AsksAreHeard` |
| | `RolesAreAlwaysSound` | `Spec => []RolesAreSound` |
| | `GateAlwaysJudgesAsAsked` | `Spec => []GateJudgesAsAsked` |
| | `ContextAlwaysFits` | `Spec => []ContextFits` |
| | `PagesAreListedOnce` | `Spec => []EachPageIsListedOnce` |
| | `EditsAlwaysDoAsTheySay` | `Spec => []EditsDoAsTheySay` |
| | `ScopeIsAlwaysPathwise` | `Spec => []ScopeIsPathwise` |

The type invariants, the inductive invariants and `AttemptsNumberTheClaims` hold of every reachable
state by their theorems, so no run repeats them.

**The queue.** Exclusiveness is not inductive by itself: that the row of a valid lease still shows it
(`LeasesAreRecorded`) is what stops a second claim, and that needs every clock reading to lie in the
past and to be younger than a lease (`ReadingsArePast`). `NothingLost` and the numbering need rows and
held jobs to agree on their task, and a finishing runner's task to be done (`HeldJobsAreRows`).

**The intake.** A closed task may only be reopened by a run, so the invariant says which closed
tasks a run can still be working on and which mark they bear (`ClosedTasksAreMarked`); that a run's
end leaves no waiting row behind needs the job to outlive the run (`RunsHaveJobs`); and that
handlers do not share a task, and create only rows that are absent, is `HandlersHaveRows`.

**The task.** There is no single inductive invariant; each property has a strengthening of its own
on top of `TypeInv`, and one lemma shows that a step of a run keeps it, action by action. Lemmas on
frames come first (`Frame`: a step of one run leaves the others' fields alone; `Moves`, `Alone`,
`Onward`: who steps is the only live run, and where it may go).
* `Spending` bounds what a copy of the task has cost by where its run is: the ceiling is looked at on
  entering a round, each attempt and each review adds one. It holds with overlapping runs, since the row
  and the copy of a stop obey the same bound.
* `Costs` relates that to what the task really cost, while runs take turns. All of it is at most what the
  live run's copy, or else the row, shows, plus what each run that died had not written and panics took;
  and after a stop, which may put an older row back, a ceiling for each run before. `CostsStep` has it for
  every step, from what the step adds to the copy and to `spent` (`CostStep`) and to the row (`LagStep`).
* `PullRequestsPast` sends each open pull request to a run that is past opening one.
* `OneAtATime`, with leases that do not run out, makes every earlier run a dead one. From there
  `Settling` follows what the row says once a run is past its outcome; `Shown` says that what a run
  pushed is still on its branch, though all runs use the same names; `Named` ties the row's pull
  request to the copy of the run that wrote it and holds across a stop that writes an old row back;
  `Stays` needs `Shown` and `Named` of the next state too, because pruning spares what the row names.
* `RoundsFollow` counts rounds against the number in the row, which lags by one for each run that died.
* `Accounted` gives every branch an owner: kept, warned about, or of the live run (`Owned`), and says
  what of it a pruning run has left to see (`Pruned`).
* `Promise` collects what the refinement needs: `Outcome` says of every step of a run what it does
  to the row and the branches, and each of its cases is `Work`, `Deliver`, `Fail`, `TidyUp` or a
  stutter of `TaskLifecycle`.

**The attempt.** The invariant says of each copy of the tree how it may differ from the tree, which
anything left behind goes on changing: the list the gate works from by what was `written` since
(`ReportIsOfTheTree`), the recorded patch by what came `late` (`GateIsOfThePatch`), the commit likewise
(`CommitIsOfThePatch`). Past the editor both have agreed on the patch (`BothAgreed`), nothing follows the
push (`PushComesLast`), and without a process left behind nothing is ever late
(`QuietWithoutStrays`).

**Model calls.** `InFlightBounded` is inductive with the types once the permits are counted with
their holders. `Accounted` relates requests and seconds slept to repairs and retries; the bound of a
call is what it comes to when it returns. `LedgerGapIsExplained` is inductive beside it: each repair is
an answer in hand, each unanswered request one that may have been charged for.

**The stream.** `PageInvariant` says that what was received and what is in hand are exactly the rows
the cursor has passed; the rest follows.

**The workspaces.** The mirror can be removed under its readers and made anew with no head at all, so a
look at it proves little. `FreshInv` rests on two facts. At most one attempt clones, and none while
there is no mirror (`OneClone`): so whoever begins to clone asks the forge for its head after every
attempt that is past the mirror began. And a fetch updates the directory it began in, or none
(`GitBringsFresh`): so within one mirror the head only grows. `MirrorIsFresh` is the step between them: an
attempt about to cut its checkout finds a fresh head, or none, and then whoever still brings one
brings a fresh one. `LeftInv` says of every phase what an attempt may have on disk, in docker and in
processes, as long as nothing failed; and that a mirror without a head is somebody's clone. The second
is what `NothingLeftBehind` needs to know that no checkout is cut from nothing but in that moment.
`StrayInv` adds that a command that timed out has no shell left to spawn anything.

**The inputs.** A behaviour of `Inputs` adds nothing but that the input was picked (`InputsArePicked`); the
work is in lemmas about the operators, for every argument.
* *Deliveries*: `GitLabHears` and `OthersHear` say what a delivery comes to in terms of what was done, by
  the eight kinds of acts. Both properties follow from them.
* *Roles*: `IsReviewOf` is what normalising keeps of a review. A best attempt exists because the attempts
  that nobody outranks include one with the smallest diff among those of the highest score
  (`SomeIsNotOutranked`, `SmallestExists`). That workers get even shares of any number of attempts is
  `SharesAreEven`: moving each number of one remainder to the next number of another is an injection
  that misses one at most.
* *Iteration*: the folds are defined, like those of the community modules, by CHOOSE over functions of
  subsets, of which nothing follows until such a function exists. `IterationExists` shows that, by
  looking at a smallest subset without one, and `FoldExists`, `FoldTakesSteps` and `Counting` turn a fold over a
  sequence into its steps, one after another. This replaces the induction theorems of the library,
  which take an operator and which no installed prover can instantiate.
* *The gate*: `GateUnfolds` makes three steps of the fold in `RunGate`. `OnCourse` is the invariant of
  these steps: either everything asked so far worked, or the last command that ran is the first that
  breaks and the last check is the only one that failed. `StrongestIsAsked` says that merging the sources
  pairwise, as the code does it, picks for each kind the first source with commands.
* *Windows*: the limits are divisions of divisions; `LimitsAre` names them once, `CeilingFits` and
  `DiffIsCutOnce` are then linear arithmetic. `Bytes` is a sum over a set in no particular order;
  `SumsInAnyOrder` and `SumsAddUp` allow it to be split, `BytesOfBoth` bounds the merge of two turns, and
  `FilesFit` adds up the budgets of any number of turns.
* *Searches*: three folds lie inside one another. `LeftOf` says what `Unseen` leaves of the first links,
  `QueryOutcome` what a query may come to, with its fallbacks; `SoFar` is the invariant of the queries: the
  addresses in the text are those that were seen. It needs that no query brings more links than
  `max_results`, or the last cut would drop some that count as seen.
* *Edits*: five folds, over the parts of a path, the contents of a file and the list of edits, are made
  into their steps. `FoundAre` bounds what the search for a text may skip by the length of the text.
  `OneIsApplied` says of any edit that it leaves a checkout, and the same one if it fails (`Went`), and
  what a replacement puts where. From there lists are compared step by step: the beginning of a list
  goes as it does alone (`PartIsApplied`), what fails is reported (`FailuresAre`), and without that the
  rest has the same outcome (`OthersAreApplied`).
* *Scopes*: the recursive function in `MatchFrom`, like a fold, is a CHOOSE, and exists because each of
  its rows is made of the rows behind it (`MatchFromSteps`). `SegmentsSteps` and `SegmentsOfRest` say
  what a character adds in front of the segments of what follows it. Layouts are unrolled from the front:
  `CharacterFirst` and `StarFirst` within a segment, `SegmentFirst` and `DoubleStarFirst` along a path.
  The matcher and the meaning then take the same steps, one lemma for each kind of character
  (`SlashAgrees`, `CharacterAgrees`, `StarAgrees`, `DoubleStarAgrees`), and agree from the ends of
  pattern and path to their beginnings (`AgreeAtStep`). `IsPlain` is needed at each step, where it says
  that a slash, or nothing, follows two stars, and is handed on to what is left of the pattern.

What stays with TLC:
* the liveness properties (`EveryJobFinishes`, `JobIsWorkedOff`, `AttemptEnds`, `CommandsReturnOrCrash`,
  `EveryCallReturns`, `EverythingArrives`), as the provers do not reason about fairness or ENABLED;
* `AnswersAreFound`, since the parser is a recursive operator, on which the provers have no hold, and
  follows nested brackets, for which a row of sets of places as in `MatchFrom` would not do.

`StopIsHonoured` is false.

## Not modelled

* Wording: prompts, comments, announcements, labels, log lines, the tails of outputs and the reports
  of the command line. Nothing reads them back.
* REST calls of the forges as such, their paths, pages and signatures; request bodies of the
  providers. What the program relies on of their answers is in the modules above.
* The text form of rows and `list_tasks`; failing disks under a checkout; output caps.
* Symbolic links in a checkout, which edits follow; what commands do to git's own directory; the names git
  quotes, but as the lines it prints.
* The wall clock of a task as time: that it is over is a choice.
* Job objects of Windows, which the kernel closes; `Subprocess` is the Unix half.
* TOML syntax, defaults and the expansion of `${VAR}` in a configuration; `doctor` and `init`.
* Floating-point costs: spend is a number of calls, shares of windows are integer divisions.
* The mock provider, a test double.
