---------------------------- MODULE AttemptProofs ---------------------------
(***************************************************************************)
(* Proofs about Attempt, for any files, contents, limits and scopes.       *)
(***************************************************************************)
EXTENDS Attempt, TLAPS

\* A fresh attempt satisfies the inductive invariant.
LEMMA IInvInit == Init => IInv
<1> SUFFICES ASSUME Init PROVE IInv
  OBVIOUS
<1> USE AttemptAssumption DEF Init
<1>1. NoGate \in [passed : BOOLEAN, changed : SUBSET Files]
  BY DEF NoGate
<1>2. TypeOK
  <2>1. tree \in Trees /\ shown \in [Files -> Contents \cup {None}] /\ iterations \in 0..MaxIterations
    BY DEF Trees
  <2>2. workspace \in BOOLEAN /\ stray \in BOOLEAN
    OBVIOUS
  <2> QED BY <1>1, <2>1, <2>2, Zenon DEF TypeOK
<1>3. ReportIsOfTheTree /\ GateIsOfThePatch /\ CommitIsOfThePatch
  BY DEF ReportIsOfTheTree, GateIsOfThePatch, CommitIsOfThePatch
<1>4. BothAgreed /\ PushComesLast /\ QuietWithoutStrays
  BY DEF BothAgreed, PushComesLast, QuietWithoutStrays
<1>5. PushedWasJudged /\ PushedPassedTheGate
  BY DEF PushedWasJudged, PushedPassedTheGate
<1> QED BY <1>2, <1>3, <1>4, <1>5 DEF IInv

\* What a workspace lists as changed are changed files.
LEMMA ListingsType ==
  ASSUME NEW t, NEW listed \in Listings(t)
  PROVE  listed \subseteq Changed(t) /\ listed \subseteq Files
  BY DEF Listings, Changed, Differing

\* A changed file that is not listed is gone, and a new file is listed in its place.
LEMMA UnlistedIsMoved ==
  ASSUME NEW t, NEW listed \in Listings(t), NEW f \in Changed(t), f \notin listed
  PROVE  t[f] = Gone /\ \E g \in listed : Base[g] = Gone
<1> DEFINE gone == {x \in Changed(t) : t[x] = Gone}
           new == {x \in Changed(t) : Base[x] = Gone}
<1>1. PICK moved \in SUBSET gone :
        /\ listed = Changed(t) \ moved
        /\ \E to \in [moved -> new] : \A x, y \in moved : to[x] = to[y] => x = y
  BY DEF Listings
<1>2. f \in moved
  BY <1>1
<1>3. PICK g \in new : TRUE
  BY <1>1, <1>2
<1>4. Base[g] = Gone /\ t[g] # Base[g] /\ g \in Changed(t)
  BY <1>3 DEF Changed, Differing
<1>5. g \in listed
  BY <1>1, <1>4
<1> QED BY <1>1, <1>2, <1>4, <1>5

\* open_files shows of every file nothing, or one of the contents.
LEMMA OpenFilesType ==
  ASSUME NEW asked, NEW t \in Trees
  PROVE  OpenFiles(asked, t) \subseteq [Files -> Contents \cup {None}]
  BY DEF OpenFiles, Trees

\* Every step keeps the types.
LEMMA TypeNext == TypeOK /\ [Next]_vars => TypeOK'
<1> SUFFICES ASSUME TypeOK, [Next]_vars PROVE TypeOK'
  OBVIOUS
<1> USE AttemptAssumption DEF TypeOK, checkout, record, branch, history
<1>1. CASE CreateWorkspace \/ CreateFails
  BY <1>1 DEF CreateWorkspace, CreateFails
<1>2. ASSUME Commands PROVE tree' \in Trees /\ stray' \in BOOLEAN
  BY <1>2 DEF Commands
<1>3. CASE Setup
  <2>1. tree' \in Trees /\ stray' \in BOOLEAN /\ shown' \in OpenFiles(Relevant, tree')
    BY <1>2, <1>3 DEF Setup
  <2>2. shown' \in [Files -> Contents \cup {None}]
    BY <2>1, OpenFilesType
  <2> QED BY <1>3, <2>1, <2>2 DEF Setup
<1>4. CASE SetupFails
  BY <1>2, <1>4 DEF SetupFails, Err
<1>5. ASSUME NEW asked \in SUBSET Files, AskForFiles(asked) PROVE TypeOK'
  <2>1. PICK more \in OpenFiles(asked, tree) : shown' = Merge(shown, more)
    BY <1>5 DEF AskForFiles
  <2>2. more \in [Files -> Contents \cup {None}]
    BY <2>1, OpenFilesType
  <2>3. shown' \in [Files -> Contents \cup {None}]
    BY <2>1, <2>2 DEF Merge
  <2> QED BY <1>5, <2>3 DEF AskForFiles, TurnsLeft
<1>6. CASE ApplyEdits \/ WorkerFails \/ GiveUp
  BY <1>6 DEF ApplyEdits, WorkerFails, GiveUp, TurnsLeft
<1>7. CASE ListChanges
  <2>1. report' \in [passed : BOOLEAN, changed : SUBSET Files]
    BY <1>7, ListingsType DEF ListChanges
  <2> QED BY <1>7, <2>1 DEF ListChanges
<1>8. ASSUME GateCommands PROVE tree' \in Trees /\ stray' \in BOOLEAN /\ written' \subseteq Files
  <2>1. tree' \in Trees /\ stray' \in BOOLEAN
    BY <1>2, <1>8 DEF GateCommands
  <2>2. written' \subseteq Files
    BY <1>8 DEF GateCommands, Differing
  <2> QED BY <2>1, <2>2
<1>9. CASE RunCommands
  <2>1. report' \in [passed : BOOLEAN, changed : SUBSET Files]
    BY <1>9 DEF RunCommands, CheapChecks
  <2> QED BY <1>8, <1>9, <2>1 DEF RunCommands
<1>10. CASE TakeDiff
  BY <1>10 DEF TakeDiff
<1>11. CASE GateFails
  <2>1. tree' \in Trees /\ stray' \in BOOLEAN /\ written' \subseteq Files
    BY <1>8, <1>11 DEF GateFails
  <2>2. Err("gate") \/ Err("diff") \/ Err("commands")
    BY <1>11 DEF GateFails
  <2> QED BY <2>1, <2>2 DEF Err
<1>12. CASE EditorIsDone \/ EditorSendsBack \/ EditorFails
  BY <1>12 DEF EditorIsDone, EditorSendsBack, EditorFails, Err
<1>13. CASE Commit \/ CommitFails \/ Push \/ PushFails \/ Cleanup
  BY <1>13 DEF Commit, CommitFails, Err, Push, PushFails, Cleanup
<1>14. CASE StrayWrites
  <2>1. PICK f \in Files : \E c \in Contents \ {tree[f]} :
          /\ tree' = [tree EXCEPT ![f] = c]
          /\ written' = written \cup {f}
          /\ late' = late \cup {f}
    BY <1>14 DEF StrayWrites
  <2>2. tree' \in Trees /\ written' \subseteq Files /\ late' \subseteq Files
    BY <2>1 DEF Trees
  <2> QED BY <1>14, <2>2 DEF StrayWrites
<1>15. CASE UNCHANGED vars
  BY <1>15 DEF vars
<1> QED
  BY <1>1, <1>3, <1>4, <1>5, <1>6, <1>7, <1>9, <1>10, <1>11, <1>12, <1>13, <1>14, <1>15
  DEF Next, Step, Turn

\* The attempt keeps its types in every behaviour.
THEOREM TypeCorrect == Spec => []TypeOK
<1>1. Init => TypeOK
  BY IInvInit DEF IInv
<1> QED BY <1>1, TypeNext, PTL DEF Spec

-----------------------------------------------------------------------------
\* Whatever writes to a tree: if what it changes is noted, the tree stays explained.
LEMMA ExplainedStays ==
  ASSUME NEW t, NEW u, NEW changed, NEW since, NEW now,
         Explained(t, changed, since), since \cup Differing(u, t) \subseteq now
  PROVE  Explained(u, changed, now)
<1> SUFFICES ASSUME NEW f \in Changed(u), f \notin changed, f \notin now
             PROVE  u[f] = Gone /\ \E g \in changed : Base[g] = Gone
  BY DEF Explained
<1>1. f \in Files /\ u[f] = t[f]
  BY DEF Changed, Differing
<1>2. f \in Changed(t)
  BY <1>1 DEF Changed, Differing
<1> QED BY <1>1, <1>2 DEF Explained

\* Every step keeps the inductive invariant.
LEMMA IInvNext == IInv /\ [Next]_vars => IInv'
<1> SUFFICES ASSUME IInv, [Next]_vars PROVE IInv'
  OBVIOUS
<1>0. TypeOK' /\ TypeOK
  BY TypeNext DEF IInv
<1> USE AttemptAssumption
    DEF IInv, checkout, record, branch, history, ReportIsOfTheTree, GateIsOfThePatch,
        CommitIsOfThePatch, BothAgreed, PushComesLast, QuietWithoutStrays,
        PushedWasJudged, PushedPassedTheGate
<1>1. CASE CreateWorkspace \/ CreateFails \/ Setup \/ SetupFails
  BY <1>0, <1>1 DEF CreateWorkspace, CreateFails, Setup, SetupFails, Commands, Err
<1>2. CASE (\E asked \in SUBSET Files : AskForFiles(asked)) \/ ApplyEdits \/ WorkerFails \/ GiveUp
           \/ EditorSendsBack \/ EditorFails
  BY <1>0, <1>2 DEF AskForFiles, ApplyEdits, WorkerFails, GiveUp, EditorSendsBack, EditorFails, Err
<1>3. CASE ListChanges
  <2>1. PICK listed \in Listings(tree) : report' = [passed |-> FALSE, changed |-> listed]
    BY <1>3 DEF ListChanges
  <2>2. Explained(tree, listed, written')
    BY UnlistedIsMoved DEF Explained
  <2> QED BY <1>0, <1>3, <2>1, <2>2 DEF ListChanges
<1>4. CASE RunCommands
  <2>1. /\ report'.changed = report.changed
        /\ report'.passed => CheapChecks(report.changed)
    BY <1>0, <1>4 DEF RunCommands, TypeOK
  <2>2. Explained(tree', report.changed, written')
    BY <1>4, ExplainedStays DEF RunCommands, GateCommands
  <2>3. QuietWithoutStrays'
    BY <1>0, <1>4 DEF RunCommands, GateCommands, Commands, TypeOK
  <2>4. ReportIsOfTheTree'
    BY <1>4, <2>1, <2>2 DEF RunCommands, CheapChecks
  <2> QED BY <1>0, <1>4, <2>3, <2>4 DEF RunCommands
<1>5. CASE TakeDiff
  <2>1. /\ patch' = tree' /\ late' = {} /\ pc' = "editor" /\ gate' = report /\ remote' = None
        /\ state' = state /\ state # "gate_passed" /\ pc = "diff"
        /\ tree' = tree /\ written' = written
    BY <1>5 DEF TakeDiff
  <2>2. Differing(tree', patch') = {}
    BY <2>1 DEF Differing
  <2>3. patch' # None
    BY <1>0, <2>1 DEF TypeOK, Trees
  <2>4. gate'.passed => CheapChecks(gate'.changed)
    BY <2>1
  <2> QED BY <1>0, <2>1, <2>2, <2>3, <2>4 DEF CheapChecks
<1>6. CASE GateFails
  <2>1. pc' = "cleanup" /\ state' = "errored" /\ remote' = remote /\ late' = late /\ remote = None
    BY <1>6 DEF GateFails, Err
  <2>2. QuietWithoutStrays'
    BY <1>0, <1>6, <2>1 DEF GateFails, GateCommands, Commands, TypeOK
  <2> QED BY <1>0, <2>1, <2>2
<1>7. CASE EditorIsDone
  BY <1>0, <1>7 DEF EditorIsDone, CheapChecks
<1>8. CASE Commit
  <2>1. committed' # None
    BY <1>0, <1>8 DEF Commit, TypeOK, Trees
  <2> QED BY <1>0, <1>8, <2>1 DEF Commit, CheapChecks
<1>9. CASE CommitFails
  BY <1>0, <1>9 DEF CommitFails, Err
<1>10. CASE Push \/ PushFails
  <2>1. /\ gate' = gate /\ patch' = patch /\ written' = written /\ late' = late
        /\ stray' = stray /\ agreed' = agreed /\ pc = "push" /\ pc' = "cleanup"
        /\ remote' \in {remote, committed}
    BY <1>10 DEF Push, PushFails
  <2>2. /\ committed # None /\ patch # None /\ agreed = patch /\ gate.passed
        /\ CheapChecks(gate.changed) /\ Explained(committed, gate.changed, written)
        /\ Differing(committed, patch) \subseteq late /\ remote = None
    BY <2>1
  <2>3. PushComesLast'
    <3>1. CASE Push
      BY <2>2, <3>1 DEF Push
    <3>2. CASE PushFails
      BY <2>1, <3>2 DEF PushFails
    <3> QED BY <1>10, <3>1, <3>2
  <2>4. ~stray => committed = patch
    <3> SUFFICES ASSUME ~stray PROVE committed = patch
      OBVIOUS
    <3>1. Differing(committed, patch) = {}
      BY <2>2
    <3>2. committed \in Trees /\ patch \in Trees
      BY <1>0, <2>2 DEF TypeOK
    <3> QED BY <3>1, <3>2 DEF Differing, Trees
  <2>5. PushedWasJudged'
    BY <2>1, <2>2, <2>4
  <2>6. PushedPassedTheGate'
    BY <2>1, <2>2 DEF CheapChecks
  <2> QED BY <1>0, <2>1, <2>3, <2>5, <2>6
<1>11. CASE Cleanup
  BY <1>0, <1>11 DEF Cleanup, CheapChecks
<1>12. CASE StrayWrites
  <2>1. PICK f \in Files : \E c \in Contents \ {tree[f]} :
          /\ tree' = [tree EXCEPT ![f] = c]
          /\ written' = written \cup {f}
          /\ late' = late \cup {f}
    BY <1>12 DEF StrayWrites
  <2>2. /\ stray /\ stray' = stray /\ pc' = pc /\ pc \notin {"cleanup", "returned"}
        /\ UNCHANGED <<report, state, patch, gate, committed, remote, agreed>> /\ remote = None
    BY <1>12 DEF StrayWrites
  <2>3. Differing(tree', tree) \subseteq {f}
    BY <1>0, <2>1 DEF Differing, TypeOK, Trees
  <2>4. ASSUME NEW changed, Explained(tree, changed, written) PROVE Explained(tree', changed, written')
    BY <2>1, <2>3, <2>4, ExplainedStays
  <2>5. ReportIsOfTheTree'
    BY <2>2, <2>4 DEF CheapChecks
  <2>6. GateIsOfThePatch'
    <3>1. Differing(tree, patch) \subseteq late => Differing(tree', patch) \subseteq late'
      BY <1>0, <2>1 DEF Differing, TypeOK, Trees
    <3> QED BY <2>2, <2>4, <3>1 DEF CheapChecks
  <2>7. CommitIsOfThePatch'
    <3>1. Explained(committed, gate.changed, written) => Explained(committed, gate.changed, written')
      BY <2>1 DEF Explained
    <3> QED BY <2>1, <2>2, <3>1
  <2> QED BY <1>0, <2>2, <2>5, <2>6, <2>7
<1>13. CASE UNCHANGED vars
  BY <1>0, <1>13 DEF vars, CheapChecks
<1> QED
  BY <1>1, <1>2, <1>3, <1>4, <1>5, <1>6, <1>7, <1>8, <1>9, <1>10, <1>11, <1>12, <1>13
  DEF Next, Step, Turn

\* The inductive invariant holds in every behaviour.
THEOREM IInvHolds == Spec => []IInv
  BY IInvInit, IInvNext, PTL DEF Spec

\* The branch carries the patch that the editor called done and the reviewers see, but for
\* what a process that outlived its command wrote behind the diff.
THEOREM WhatIsPushedWasJudged == Spec => []PushedWasJudged
<1>1. IInv => PushedWasJudged
  BY DEF IInv
<1> QED BY IInvHolds, <1>1, PTL

\* Only what passed the gate is pushed; what the gate did not see was written after it had
\* listed the changes, or was moved.
THEOREM WhatIsPushedPassed == Spec => []PushedPassedTheGate
<1>1. IInv => PushedPassedTheGate
  BY DEF IInv
<1> QED BY IInvHolds, <1>1, PTL

\* An attempt that returns as gate_passed has pushed its branch.
THEOREM PassedAttemptsArePushed == Spec => []PassedIsPushed
<1>1. IInv => PassedIsPushed
  BY DEF IInv, PushComesLast, PassedIsPushed
<1> QED BY IInvHolds, <1>1, PTL
=============================================================================
