------------------------------ MODULE Attempt -------------------------------
(***************************************************************************)
(* One attempt, as Engine::run_attempt drives it in a workspace of its     *)
(* own: setup, then turns of a worker that asks for files or edits, each   *)
(* edit followed by the gate and the editor, and at the end commit, push   *)
(* and clean-up.  TaskRun has the same as the single step EndAttempt.      *)
(*                                                                         *)
(* A tree says what each file holds.  Models and commands are free: a      *)
(* worker writes anything, a command may change any file and may fail.  A  *)
(* command may also leave a process behind (Subprocess says which sandbox  *)
(* lets it live), and that goes on writing: while the gate runs, while the *)
(* editor reads, before the commit.  That commands leave git's own         *)
(* directory alone is assumed.                                             *)
(***************************************************************************)
EXTENDS Integers, FiniteSets

CONSTANTS
  Files,
  Contents,       \* what a file can hold
  Base, Gone,     \* what files hold on the base branch; a file that is not there
  Relevant,       \* spec.relevant_files
  InScope,        \* files that match spec.allowed_paths
  TestFiles,      \* files that match gate.test_path_patterns
  EnforceScope, RequireTests,
  MaxFiles,       \* gate.max_changed_files, 0 for no limit
  MaxIterations,  \* budget.max_iterations
  None

ASSUME AttemptAssumption ==
  /\ Base \in [Files -> Contents] /\ Gone \in Contents
  /\ Relevant \subseteq Files /\ InScope \subseteq Files /\ TestFiles \subseteq Files
  /\ EnforceScope \in BOOLEAN /\ RequireTests \in BOOLEAN
  /\ MaxFiles \in Nat /\ MaxIterations \in Nat
  /\ None \notin Contents /\ None \notin [Files -> Contents]

Trees == [Files -> Contents]

VARIABLES
  pc,
  workspace,   \* TRUE while the attempt's directory exists
  tree,        \* the working copy
  stray,       \* TRUE when a command has left a process behind
  shown,       \* what the worker is shown of each file, or None
  report,      \* the gate that is running: what it listed as changed, and its verdict
  iterations,  \* attempt.iterations
  state,       \* attempt.state
  patch,       \* attempt.patch: the tree its diff leads to
  gate,        \* attempt.gate: what the last gate saw changed, and its verdict
  committed,   \* the tree of the commit, or None
  remote,      \* the tree on the attempt's branch, or None
  written,     \* history: files changed since the last gate listed the changes
  late,        \* history: files changed since the last diff was taken
  agreed       \* history: the patch the editor called done, the gate having passed

NoGate == [passed |-> FALSE, changed |-> {}]

checkout == <<workspace, tree, stray>>
record == <<iterations, state, patch, gate>>
branch == <<committed, remote>>
history == <<written, late, agreed>>
vars == <<pc, checkout, shown, report, record, branch, history>>

\* The files that differ.
Differing(t, u) == {f \in Files : t[f] # u[f]}

\* What a tree changes of the base commit.
Changed(t) == Differing(t, Base)

\* git diff --name-only against the base commit, after git add -A: git pairs files that are
\* gone with new ones like them, and of such a pair it lists the new name only.
Listings(t) ==
  LET gone == {f \in Changed(t) : t[f] = Gone}
      new == {f \in Changed(t) : Base[f] = Gone}
      Moves(from) == \E to \in [from -> new] : \A f, g \in from : to[f] = to[g] => f = g
  IN  {Changed(t) \ from : from \in {moved \in SUBSET gone : Moves(moved)}}

\* What is checked before the build, test and lint commands are paid for.
CheapChecks(changed) ==
  /\ changed # {}
  /\ EnforceScope => changed \subseteq InScope
  /\ MaxFiles = 0 \/ Cardinality(changed) <= MaxFiles
  /\ RequireTests => changed \cap TestFiles # {}

\* context::open_files: some of the files asked for, those that exist.
OpenFiles(asked, t) ==
  {[f \in Files |-> IF f \in read THEN t[f] ELSE None] :
     read \in SUBSET {f \in asked : t[f] # Gone}}

\* merge_open_files: a newly read file replaces an earlier copy.
Merge(open, more) == [f \in Files |-> IF more[f] = None THEN open[f] ELSE more[f]]

TurnsLeft == iterations < MaxIterations

-----------------------------------------------------------------------------
Init ==
  /\ pc = "create"
  /\ workspace = FALSE
  /\ tree = Base
  /\ stray = FALSE
  /\ shown = [f \in Files |-> None]
  /\ report = NoGate
  /\ iterations = 0
  /\ state = "running"
  /\ patch = None
  /\ gate = NoGate
  /\ committed = None
  /\ remote = None
  /\ written = {}
  /\ late = {}
  /\ agreed = None

\* Any `?` of attempt_body: the attempt is recorded as errored, with the patch and the
\* gate report it had, and goes on to its clean-up.
Err(at) ==
  /\ pc = at
  /\ state' = "errored"
  /\ pc' = "cleanup"
  /\ UNCHANGED <<workspace, shown, report, iterations, patch, gate, branch, late, agreed>>

CreateWorkspace ==
  /\ pc = "create"
  /\ workspace' = TRUE
  /\ pc' = "setup"
  /\ UNCHANGED <<tree, stray, shown, report, record, branch, history>>

\* No workspace: the attempt returns at once.
CreateFails ==
  /\ pc = "create"
  /\ state' = "errored"
  /\ pc' = "returned"
  /\ UNCHANGED <<checkout, shown, report, iterations, patch, gate, branch, history>>

\* Shell commands change any file, and may leave a process behind.
Commands ==
  /\ tree' \in Trees
  /\ stray' \in {stray, TRUE}

\* The setup commands run, the files the planner named are opened.
Setup ==
  /\ pc = "setup"
  /\ Commands
  /\ shown' \in OpenFiles(Relevant, tree')
  /\ pc' = "work"
  /\ UNCHANGED <<workspace, report, record, branch, history>>

SetupFails == Err("setup") /\ Commands /\ UNCHANGED written

-----------------------------------------------------------------------------
(* One turn of the worker *)

\* No edits, but files or a search asked for: they come with the next turn.
AskForFiles(asked) ==
  /\ pc = "work"
  /\ TurnsLeft
  /\ iterations' = iterations + 1
  /\ \E more \in OpenFiles(asked, tree) : shown' = Merge(shown, more)
  /\ UNCHANGED <<pc, checkout, report, state, patch, gate, branch, history>>

\* The edits are applied one by one; the failing ones become feedback.
ApplyEdits ==
  /\ pc = "work"
  /\ TurnsLeft
  /\ iterations' = iterations + 1
  /\ tree' \in Trees
  /\ pc' = "gate"
  /\ UNCHANGED <<workspace, stray, shown, report, state, patch, gate, branch, history>>

WorkerFails ==
  /\ pc = "work"
  /\ TurnsLeft
  /\ iterations' = iterations + 1
  /\ state' = "errored"
  /\ pc' = "cleanup"
  /\ UNCHANGED <<checkout, shown, report, patch, gate, branch, history>>

\* The turns are used up.
GiveUp ==
  /\ pc = "work"
  /\ ~TurnsLeft
  /\ state' = "gate_failed"
  /\ pc' = "cleanup"
  /\ UNCHANGED <<checkout, shown, report, iterations, patch, gate, branch, history>>

-----------------------------------------------------------------------------
(* The gate, and the editor *)

\* run_gate begins: the changed files are listed for the cheap checks.
ListChanges ==
  /\ pc = "gate"
  /\ \E listed \in Listings(tree) : report' = [passed |-> FALSE, changed |-> listed]
  /\ written' = {}
  /\ pc' = "commands"
  /\ UNCHANGED <<checkout, shown, record, branch, late, agreed>>

\* What the gate's commands change: nothing if the cheap checks failed, for then none runs.
GateCommands ==
  /\ IF CheapChecks(report.changed) THEN Commands ELSE UNCHANGED <<tree, stray>>
  /\ written' = written \cup Differing(tree', tree)

\* Mutant of RunCommands: the diff is read before the commands run.
RunCommandsBehindTheDiff ==
  /\ pc = "commands"
  /\ GateCommands
  /\ \E ok \in BOOLEAN :
       report' = [report EXCEPT !.passed = CheapChecks(report.changed) /\ ok]
  /\ patch' = tree
  /\ gate' = report'
  /\ late' = {}
  /\ pc' = "editor"
  /\ UNCHANGED <<workspace, shown, iterations, state, branch, agreed>>

\* build, test and lint; the report is complete.
RunCommands ==
  /\ pc = "commands"
  /\ GateCommands
  /\ \E ok \in BOOLEAN :
       report' = [report EXCEPT !.passed = CheapChecks(report.changed) /\ ok]
  /\ pc' = "diff"
  /\ UNCHANGED <<workspace, shown, record, branch, late, agreed>>

\* The diff is taken and recorded, and the gate's report with it.
TakeDiff ==
  /\ pc = "diff"
  /\ patch' = tree
  /\ gate' = report
  /\ late' = {}
  /\ pc' = "editor"
  /\ UNCHANGED <<checkout, shown, report, iterations, state, branch, written, agreed>>

\* git fails, or a command cannot be run: the record keeps the diff and the report it had.
GateFails ==
  \/ (Err("gate") \/ Err("diff")) /\ UNCHANGED <<tree, stray, written>>
  \/ Err("commands") /\ GateCommands

\* Mutant of EditorIsDone: the editor overrules the gate.
EditorIsDoneAnyway ==
  /\ pc = "editor"
  /\ agreed' = patch
  /\ state' = "gate_passed"
  /\ pc' = "commit"
  /\ UNCHANGED <<checkout, shown, report, iterations, patch, gate, branch, written, late>>

\* Gate and editor have to agree.
EditorIsDone ==
  /\ pc = "editor"
  /\ gate.passed
  /\ agreed' = patch
  /\ state' = "gate_passed"
  /\ pc' = "commit"
  /\ UNCHANGED <<checkout, shown, report, iterations, patch, gate, branch, written, late>>

\* Mutant of EditorSendsBack: a turn that passed the gate is given back.
EditorSendsBackForFree ==
  /\ pc = "editor"
  /\ iterations' = IF gate.passed THEN iterations - 1 ELSE iterations
  /\ pc' = "work"
  /\ UNCHANGED <<checkout, shown, report, state, patch, gate, branch, history>>

EditorSendsBack ==
  /\ pc = "editor"
  /\ pc' = "work"
  /\ UNCHANGED <<checkout, shown, report, record, branch, history>>

EditorFails == Err("editor") /\ UNCHANGED <<tree, stray, written>>

-----------------------------------------------------------------------------
(* Commit, push, clean-up *)

\* Everything is staged as it is now, whatever the diff showed.
Commit ==
  /\ pc = "commit"
  /\ Changed(tree) # {}
  /\ committed' = tree
  /\ pc' = "push"
  /\ UNCHANGED <<checkout, shown, report, record, remote, history>>

\* Nothing to commit, or git fails.
CommitFails == Err("commit") /\ UNCHANGED <<tree, stray, written>>

Push ==
  /\ pc = "push"
  /\ remote' = committed
  /\ pc' = "cleanup"
  /\ UNCHANGED <<checkout, shown, report, record, committed, history>>

\* Mutant of PushFails: the error is only logged.
PushFailsQuietly ==
  /\ pc = "push"
  /\ remote' \in {remote, committed}
  /\ pc' = "cleanup"
  /\ UNCHANGED <<checkout, shown, report, record, committed, history>>

\* A push that reports an error may have reached the remote.
PushFails ==
  /\ pc = "push"
  /\ remote' \in {remote, committed}
  /\ state' = "errored"
  /\ pc' = "cleanup"
  /\ UNCHANGED <<checkout, shown, report, iterations, patch, gate, committed, history>>

\* A failing removal is only logged.
Cleanup ==
  /\ pc = "cleanup"
  /\ workspace' \in BOOLEAN
  /\ pc' = "returned"
  /\ UNCHANGED <<tree, stray, shown, report, record, branch, history>>

-----------------------------------------------------------------------------
Turn ==
  \/ \E asked \in SUBSET Files : AskForFiles(asked)
  \/ ApplyEdits \/ WorkerFails \/ GiveUp
  \/ ListChanges \/ RunCommands \/ TakeDiff \/ GateFails
  \/ EditorIsDone \/ EditorSendsBack \/ EditorFails

Step ==
  \/ CreateWorkspace \/ CreateFails \/ Setup \/ SetupFails
  \/ Turn
  \/ Commit \/ CommitFails \/ Push \/ PushFails \/ Cleanup

\* A process that outlived its command writes, at any time from then on: what it writes
\* during the clean-up nobody reads.
StrayWrites ==
  /\ stray
  /\ pc \notin {"cleanup", "returned"}
  /\ \E f \in Files : \E c \in Contents \ {tree[f]} :
       /\ tree' = [tree EXCEPT ![f] = c]
       /\ written' = written \cup {f}
       /\ late' = late \cup {f}
  /\ UNCHANGED <<pc, workspace, stray, shown, report, record, branch, agreed>>

Next == Step \/ StrayWrites

Spec == Init /\ [][Next]_vars

\* Commands and model calls have timeouts: the attempt itself goes on.
FairSpec == Spec /\ WF_vars(Step)

-----------------------------------------------------------------------------
(* Properties *)

\* The attempt, its workspace and its branch keep their types.
TypeOK ==
  /\ pc \in {"create", "setup", "work", "gate", "commands", "diff", "editor", "commit", "push",
             "cleanup", "returned"}
  /\ workspace \in BOOLEAN /\ stray \in BOOLEAN
  /\ tree \in Trees
  /\ shown \in [Files -> Contents \cup {None}]
  /\ report \in [passed : BOOLEAN, changed : SUBSET Files]
  /\ iterations \in 0..MaxIterations
  /\ state \in {"running", "gate_passed", "gate_failed", "errored"}
  /\ patch \in Trees \cup {None}
  /\ gate \in [passed : BOOLEAN, changed : SUBSET Files]
  /\ committed \in Trees \cup {None}
  /\ remote \in Trees \cup {None}
  /\ written \subseteq Files /\ late \subseteq Files
  /\ agreed \in Trees \cup {None}

\* The patch that the record shows to the reviewers is the one the editor called done, and the
\* branch carries it but for the files that were written behind the diff.  Only a process that
\* outlived its command writes there: when none was left, the branch is the patch.
PushedWasJudged ==
  remote # None =>
    /\ patch # None /\ agreed = patch
    /\ Differing(remote, patch) \subseteq late
    /\ ~stray => remote = patch

\* What a tree changes beyond the files that the gate listed was written since, or is the old
\* place of a file that was moved to one of them.
Explained(t, changed, since) ==
  \A f \in Changed(t) \ (changed \cup since) :
    t[f] = Gone /\ \E g \in changed : Base[g] = Gone

\* Only attempts whose last gate report passed reach the remote, which is what
\* prune_branches relies on; the report's files passed the checks of scope, size and tests,
\* and the branch changes a file that the checks did not see for two reasons only: a command
\* of that gate or a process left behind wrote it afterwards, or it was moved.
PushedPassedTheGate ==
  remote # None =>
    /\ gate.passed
    /\ CheapChecks(gate.changed)
    /\ Explained(remote, gate.changed, written)

\* An attempt that returns as gate_passed has its branch on the remote.
PassedIsPushed == pc = "returned" /\ state = "gate_passed" => remote # None

\* Every attempt comes to an end: no turn of worker, gate and editor goes uncounted.
AttemptEnds == <>(pc = "returned")

-----------------------------------------------------------------------------
(* The inductive invariant *)

\* While a gate runs, its report knows what the tree changes but for what was written since.
ReportIsOfTheTree ==
  /\ pc \in {"commands", "diff"} => Explained(tree, report.changed, written)
  /\ pc = "diff" /\ report.passed => CheapChecks(report.changed)

\* What the editor and the commit presuppose of the diff and of the report kept with it.
GateIsOfThePatch ==
  /\ pc \in {"editor", "commit", "push"} =>
       /\ patch # None
       /\ gate.passed => CheapChecks(gate.changed)
  /\ pc \in {"editor", "commit"} =>
       /\ Differing(tree, patch) \subseteq late
       /\ Explained(tree, gate.changed, written)

\* The commit is behind the diff as far as something was written in between.
CommitIsOfThePatch ==
  pc = "push" =>
    /\ committed # None
    /\ Differing(committed, patch) \subseteq late
    /\ Explained(committed, gate.changed, written)

BothAgreed == pc \in {"commit", "push"} => gate.passed /\ agreed = patch

PushComesLast ==
  /\ remote # None => pc \in {"cleanup", "returned"}
  /\ state = "gate_passed" => pc \in {"commit", "push"} \/ remote # None

\* Only processes left behind write at other times than the attempt.
QuietWithoutStrays == ~stray => late = {}

IInv ==
  /\ TypeOK
  /\ ReportIsOfTheTree
  /\ GateIsOfThePatch
  /\ CommitIsOfThePatch
  /\ BothAgreed
  /\ PushComesLast
  /\ QuietWithoutStrays
  /\ PushedWasJudged
  /\ PushedPassedTheGate
=============================================================================
