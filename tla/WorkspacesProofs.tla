-------------------------- MODULE WorkspacesProofs --------------------------
(***************************************************************************)
(* Theorems of Workspaces, for any number of attempts and any bounds.      *)
(*                                                                         *)
(* The shared mirror is the hard part: it can be removed under its readers *)
(* and made anew with no head at all.  Two facts carry the argument.  At   *)
(* most one attempt clones, and none while there is no mirror: so who      *)
(* begins to clone reads the forge after every attempt that has already    *)
(* passed sync_mirror began.  And a fetch touches the mirror it began in   *)
(* or none: so inside one mirror the head only grows.                      *)
(***************************************************************************)
EXTENDS Workspaces, TLAPS

Phases == {"idle", "look", "clone", "cloning", "scrub", "fetch", "fetching", "cut",
           "branch", "create", "start", "ready", "over"}

\* The values the variables range over. The heads of the forge are numbered from 1.
TypeOK ==
  /\ kind \in {"local", "docker"}
  /\ command \in [Attempts -> {"idle", "running", "finished", "timed_out"}]
  /\ shell \in [Attempts -> {"none", "runs", "exited", "reaped"}]
  /\ descendant \in [Attempts -> Descendants \cup {None}]
  /\ remote \in Nat \ {0}
  /\ mirror \in [dir : {"absent", "forming", "repo"}, at : Nat]
  /\ pc \in [Attempts -> Phases]
  /\ since \in [Attempts -> Nat] /\ want \in [Attempts -> Nat]
  /\ old \in [Attempts -> Nat \cup {-1}] /\ base \in [Attempts -> Nat]
  /\ root \in [Attempts -> BOOLEAN] /\ container \in [Attempts -> BOOLEAN]
  /\ faults \in Nat

\* Nobody has seen a head the forge does not have yet.
HeadsAreOld ==
  /\ \A a \in Attempts : since[a] <= remote /\ want[a] <= remote
  /\ mirror.at <= remote

\* One clone makes the mirror; without a mirror nobody is at it; what is forming has no head.
OneClone ==
  /\ \A a, b \in Attempts : pc[a] = "cloning" /\ pc[b] = "cloning" => a = b
  /\ \A a \in Attempts : pc[a] = "cloning" => mirror.dir # "absent"
  /\ mirror.dir # "repo" => mirror.at = 0

\* A running clone or fetch brings a head its attempt may work on, and a fetch whose mirror is
\* still the one it began in finds there a head that only grew.
GitBringsFresh ==
  \A a \in Attempts :
    /\ pc[a] \in {"cloning", "fetching"} => want[a] >= since[a] /\ want[a] > 0
    /\ pc[a] = "fetching" /\ old[a] >= 0 =>
         mirror.dir = "repo" /\ old[a] <= mirror.at /\ old[a] <= want[a]

\* The mirror is fresh for an attempt that is about to cut its checkout; or it has no head, and
\* then whatever may still give it one brings a head that is fresh for that attempt too.
MirrorIsFresh ==
  \A a \in Attempts : pc[a] \in {"scrub", "cut"} =>
    \/ mirror.at >= since[a]
    \/ /\ mirror.at = 0
       /\ \A b \in Attempts :
            pc[b] = "cloning" \/ (pc[b] = "fetching" /\ old[b] = 0) => want[b] >= since[a]

\* A checkout was cut from a fresh head, or from none.
CutIsFresh ==
  \A a \in Attempts :
    /\ pc[a] = "branch" => base[a] = 0 \/ base[a] >= since[a]
    /\ pc[a] \in {"create", "start", "ready"} => base[a] >= since[a]

FreshInv == TypeOK /\ HeadsAreOld /\ OneClone /\ GitBringsFresh /\ MirrorIsFresh /\ CutIsFresh

\* A running clone or fetch has read a head.
HasOwnHead == \A a \in Attempts : pc[a] \in {"cloning", "fetching"} => want[a] > 0

\* Without a fault, what an attempt has is there only while it is at it: its directory from the
\* cut on, its container from the creation on, processes in it while it is ready.
HoldsOnlyAtWork ==
  faults = 0 =>
    \A a \in Attempts :
      /\ root[a] => \/ pc[a] \in {"branch", "create", "start", "ready"}
                    \/ pc[a] = "over" /\ base[a] = 0
      /\ container[a] => pc[a] \in {"start", "ready"}
      /\ kind = "docker" /\ pc[a] # "ready" => shell[a] = "none" /\ descendant[a] = None

\* Without a fault, a mirror that has no head is somebody's clone.
HeadlessIsCloned ==
  faults = 0 /\ mirror.dir # "absent" /\ mirror.at = 0 => \E a \in Attempts : pc[a] = "cloning"

LeftInv == TypeOK /\ OneClone /\ HasOwnHead /\ HoldsOnlyAtWork /\ HeadlessIsCloned

\* On the host a command that timed out has no shell that could spawn any more.
StrayInv ==
  /\ StraysHaveACause
  /\ \A a \in Attempts :
       kind = "local" /\ command[a] = "timed_out" => shell[a] \in {"none", "reaped"}

-----------------------------------------------------------------------------
(* Types *)

\* Every step keeps the types.
LEMMA TypeStep == TypeOK /\ [Next]_vars => TypeOK'
<1> SUFFICES ASSUME TypeOK, [Next]_vars PROVE TypeOK'
  OBVIOUS
<1> USE DEF TypeOK, Phases
<1>1. CASE RemoteMoves
  BY <1>1 DEF RemoteMoves, prepareVars, processVars
<1>2. CASE Crash
  BY <1>2 DEF Crash, Fault, prepareVars, processVars
<1>3. ASSUME NEW a \in Attempts, BeginPrepare(a) PROVE TypeOK'
  BY <1>3 DEF BeginPrepare, Goes, prepareVars, processVars
<1>4. ASSUME NEW a \in Attempts, LookForMirror(a) PROVE TypeOK'
  BY <1>4 DEF LookForMirror, Goes, prepareVars, processVars
<1>5. ASSUME NEW a \in Attempts, BeginClone(a) PROVE TypeOK'
  BY <1>5 DEF BeginClone, Goes, prepareVars, processVars
<1>6. ASSUME NEW a \in Attempts, CloneForms(a) PROVE TypeOK'
  BY <1>6 DEF CloneForms, prepareVars, processVars
<1>7. ASSUME NEW a \in Attempts, EndClone(a) PROVE TypeOK'
  BY <1>7 DEF EndClone, Goes, LeavesMirror, prepareVars, processVars
<1>8. ASSUME NEW a \in Attempts, CloneFails(a) PROVE TypeOK'
  BY <1>8 DEF CloneFails, Goes, LeavesMirror, Fault, prepareVars, processVars
<1>9. ASSUME NEW a \in Attempts, ScrubRemote(a) PROVE TypeOK'
  BY <1>9 DEF ScrubRemote, Goes, prepareVars, processVars
<1>10. ASSUME NEW a \in Attempts, BeginFetch(a) PROVE TypeOK'
  BY <1>10 DEF BeginFetch, Goes, prepareVars, processVars
<1>11. ASSUME NEW a \in Attempts, EndFetch(a) PROVE TypeOK'
  BY <1>11 DEF EndFetch, Goes, GitEnds, prepareVars, processVars
<1>12. ASSUME NEW a \in Attempts, GitFails(a) PROVE TypeOK'
  BY <1>12 DEF GitFails, Goes, GitEnds, Fault, prepareVars, processVars
<1>13. ASSUME NEW a \in Attempts, CutCheckout(a) PROVE TypeOK'
  BY <1>13 DEF CutCheckout, Goes, prepareVars, processVars
<1>14. ASSUME NEW a \in Attempts, MakeBranch(a) PROVE TypeOK'
  BY <1>14 DEF MakeBranch, Goes, prepareVars, processVars
<1>15. ASSUME NEW a \in Attempts, BranchFails(a) PROVE TypeOK'
  BY <1>15 DEF BranchFails, Goes, Fault, prepareVars, processVars
<1>16. ASSUME NEW a \in Attempts, CreateContainer(a) PROVE TypeOK'
  BY <1>16 DEF CreateContainer, Goes, prepareVars, processVars
<1>17. ASSUME NEW a \in Attempts, StartContainer(a) PROVE TypeOK'
  BY <1>17 DEF StartContainer, Goes, prepareVars, processVars
<1>18. ASSUME NEW a \in Attempts, Refused(a) PROVE TypeOK'
  BY <1>18 DEF Refused, Goes, prepareVars, processVars
<1>19. ASSUME NEW a \in Attempts, DockerFails(a) PROVE TypeOK'
  BY <1>19 DEF DockerFails, Goes, Fault, prepareVars, processVars
<1>20. ASSUME NEW a \in Attempts, CommandStep(a) PROVE TypeOK'
  BY <1>20 DEF CommandStep, ProcessStep, CallerStep, StartCommand, SpawnDescendant,
     ShellExits, DescendantExits, Reap, Collect, Deadline, KillsGroup, prepareVars,
     processVars, Descendants
<1>21. ASSUME NEW a \in Attempts, Cleanup(a) PROVE TypeOK'
  BY <1>21 DEF Cleanup, Goes, EndsProcesses, prepareVars, processVars
<1>22. ASSUME NEW a \in Attempts, CleanupFails(a) PROVE TypeOK'
  <2>1. pc' \in [Attempts -> Phases] /\ faults' \in Nat
    BY <1>22 DEF CleanupFails, Goes, Fault
  <2>2. root' \in [Attempts -> BOOLEAN] /\ container' \in [Attempts -> BOOLEAN]
    BY <1>22 DEF CleanupFails
  <2>3. /\ command' = command
        /\ shell' \in [Attempts -> {"none", "runs", "exited", "reaped"}]
        /\ descendant' \in [Attempts -> Descendants \cup {None}]
    BY <1>22 DEF CleanupFails, EndsProcesses, processVars
  <2> QED BY <1>22, <2>1, <2>2, <2>3 DEF CleanupFails, prepareVars
<1>23. CASE UNCHANGED vars
  BY <1>23 DEF vars, prepareVars, processVars
<1> QED
  BY <1>1, <1>2, <1>3, <1>4, <1>5, <1>6, <1>7, <1>8, <1>9, <1>10, <1>11, <1>12, <1>13,
     <1>14, <1>15, <1>16, <1>17, <1>18, <1>19, <1>20, <1>21, <1>22, <1>23
     DEF Next, Prepare, Container

\* The variables keep their types, for any number of attempts.
THEOREM TypeCorrect == Spec => []TypeOK
<1>1. Init => TypeOK
  BY DEF Init, ProcessInit, TypeOK, Phases
<1> QED BY <1>1, TypeStep, PTL DEF Spec

-----------------------------------------------------------------------------
(* Freshness *)

\* Every step keeps the checkouts and the mirror fresh.
LEMMA FreshStep == FreshInv /\ [Next]_vars => FreshInv'
<1> SUFFICES ASSUME FreshInv, [Next]_vars PROVE FreshInv'
  OBVIOUS
<1> USE DEF FreshInv, TypeOK, HeadsAreOld, OneClone, GitBringsFresh, MirrorIsFresh, CutIsFresh
<1>0. TypeOK'
  BY TypeStep
<1>1. CASE RemoteMoves
  BY <1>1, <1>0 DEF RemoteMoves, prepareVars, processVars
<1>2. CASE Crash
  BY <1>2, <1>0 DEF Crash, Fault, prepareVars, processVars
<1>3. ASSUME NEW a \in Attempts, BeginPrepare(a) PROVE FreshInv'
  BY <1>3, <1>0 DEF BeginPrepare, Goes, prepareVars, processVars
<1>4. ASSUME NEW a \in Attempts, LookForMirror(a) PROVE FreshInv'
  BY <1>4, <1>0 DEF LookForMirror, Goes, prepareVars, processVars
<1>5. ASSUME NEW a \in Attempts, BeginClone(a) PROVE FreshInv'
  BY <1>5, <1>0 DEF BeginClone, Goes, prepareVars, processVars
<1>6. ASSUME NEW a \in Attempts, CloneForms(a) PROVE FreshInv'
  BY <1>6, <1>0 DEF CloneForms, prepareVars, processVars
<1>7. ASSUME NEW a \in Attempts, EndClone(a) PROVE FreshInv'
  <2>1. \A b \in Attempts : pc[b] = "cloning" => b = a
    BY <1>7 DEF EndClone
  <2>2. CASE mirror.at = 0
    <3>1. /\ mirror' = [mirror EXCEPT !.at = want[a]] /\ pc' = [pc EXCEPT ![a] = "scrub"]
          /\ want' = [want EXCEPT ![a] = 0] /\ UNCHANGED <<remote, since, old, base>>
      BY <1>7, <2>2 DEF EndClone, Goes
    <3>2. \A b \in Attempts : pc[b] \in {"scrub", "cut"} => want[a] >= since[b]
      BY <1>7, <2>2 DEF EndClone
    <3>3. MirrorIsFresh'
      BY <1>7, <3>1, <3>2 DEF EndClone
    <3>4. HeadsAreOld' /\ OneClone' /\ GitBringsFresh' /\ CutIsFresh'
      BY <1>7, <2>1, <2>2, <3>1 DEF EndClone
    <3> QED BY <1>0, <3>3, <3>4
  <2>3. CASE mirror.at # 0
    <3>1. /\ LeavesMirror /\ pc' = [pc EXCEPT ![a] = "over"]
          /\ want' = [want EXCEPT ![a] = 0] /\ UNCHANGED <<remote, since, base>>
      BY <1>7, <2>3 DEF EndClone, Goes
    <3>2. \A b \in Attempts : pc'[b] # "cloning"
      BY <2>1, <3>1
    <3>3. MirrorIsFresh'
      BY <2>3, <3>1, <3>2 DEF LeavesMirror
    <3>4. HeadsAreOld' /\ OneClone' /\ GitBringsFresh' /\ CutIsFresh'
      BY <1>7, <2>3, <3>1, <3>2 DEF EndClone, LeavesMirror
    <3> QED BY <1>0, <3>3, <3>4
  <2> QED BY <2>2, <2>3
<1>8. ASSUME NEW a \in Attempts, CloneFails(a) PROVE FreshInv'
  BY <1>8, <1>0 DEF CloneFails, Goes, LeavesMirror, Fault, prepareVars, processVars
<1>9. ASSUME NEW a \in Attempts, ScrubRemote(a) PROVE FreshInv'
  BY <1>9, <1>0 DEF ScrubRemote, Goes, prepareVars, processVars
<1>10. ASSUME NEW a \in Attempts, BeginFetch(a) PROVE FreshInv'
  <2>1. CASE mirror.dir = "repo"
    <3>1. /\ want' = [want EXCEPT ![a] = remote] /\ old' = [old EXCEPT ![a] = mirror.at]
          /\ pc[a] = "fetch" /\ pc' = [pc EXCEPT ![a] = "fetching"]
          /\ UNCHANGED <<remote, mirror, since, base>>
      BY <1>10, <2>1 DEF BeginFetch, Goes, processVars
    <3>2. HeadsAreOld' /\ OneClone' /\ CutIsFresh'
      BY <3>1
    <3>3. GitBringsFresh'
      BY <3>1, <2>1
    <3>4. MirrorIsFresh'
      BY <3>1
    <3> QED BY <1>0, <3>2, <3>3, <3>4
  <2>2. CASE mirror.dir # "repo"
    BY <1>10, <2>2, <1>0 DEF BeginFetch, Goes, prepareVars, processVars
  <2> QED BY <2>1, <2>2
<1>11. ASSUME NEW a \in Attempts, EndFetch(a) PROVE FreshInv'
  <2>1. CASE mirror.dir = "repo" /\ (want[a] = old[a] \/ mirror.at = old[a])
    <3>1. /\ mirror' = [mirror EXCEPT !.at = IF want[a] = old[a] THEN @ ELSE want[a]]
          /\ pc[a] = "fetching" /\ pc' = [pc EXCEPT ![a] = "cut"]
          /\ want' = [want EXCEPT ![a] = 0] /\ old' = [old EXCEPT ![a] = 0]
          /\ UNCHANGED <<remote, since, base>>
      BY <1>11, <2>1 DEF EndFetch, Goes, GitEnds
    <3>2. old[a] >= 0 /\ mirror'.at >= mirror.at /\ mirror'.at >= want[a] /\ mirror'.at > 0
      BY <2>1, <3>1
    <3>3. \A b \in Attempts : pc[b] \in {"scrub", "cut"} => mirror'.at >= since[b]
      BY <2>1, <3>1, <3>2
    <3>4. MirrorIsFresh'
      BY <3>1, <3>2, <3>3
    <3>5. HeadsAreOld' /\ OneClone' /\ GitBringsFresh' /\ CutIsFresh'
      BY <2>1, <3>1, <3>2
    <3> QED BY <1>0, <3>4, <3>5
  <2>2. CASE ~ (mirror.dir = "repo" /\ (want[a] = old[a] \/ mirror.at = old[a]))
    BY <1>11, <2>2, <1>0 DEF EndFetch, Goes, GitEnds, prepareVars, processVars
  <2> QED BY <2>1, <2>2
<1>12. ASSUME NEW a \in Attempts, GitFails(a) PROVE FreshInv'
  BY <1>12, <1>0 DEF GitFails, Goes, GitEnds, Fault, prepareVars, processVars
<1>13. ASSUME NEW a \in Attempts, CutCheckout(a) PROVE FreshInv'
  BY <1>13, <1>0 DEF CutCheckout, Goes, prepareVars, processVars
<1>14. ASSUME NEW a \in Attempts, MakeBranch(a) PROVE FreshInv'
  BY <1>14, <1>0 DEF MakeBranch, Goes, prepareVars, processVars
<1>15. ASSUME NEW a \in Attempts, BranchFails(a) PROVE FreshInv'
  BY <1>15, <1>0 DEF BranchFails, Goes, Fault, prepareVars, processVars
<1>16. ASSUME NEW a \in Attempts, CreateContainer(a) PROVE FreshInv'
  BY <1>16, <1>0 DEF CreateContainer, Goes, prepareVars, processVars
<1>17. ASSUME NEW a \in Attempts, StartContainer(a) PROVE FreshInv'
  BY <1>17, <1>0 DEF StartContainer, Goes, prepareVars, processVars
<1>18. ASSUME NEW a \in Attempts, Refused(a) PROVE FreshInv'
  BY <1>18, <1>0 DEF Refused, Goes, prepareVars, processVars
<1>19. ASSUME NEW a \in Attempts, DockerFails(a) PROVE FreshInv'
  BY <1>19, <1>0 DEF DockerFails, Goes, Fault, prepareVars, processVars
<1>20. ASSUME NEW a \in Attempts, CommandStep(a) PROVE FreshInv'
  BY <1>20, <1>0 DEF CommandStep, ProcessStep, CallerStep, StartCommand, SpawnDescendant,
     ShellExits, DescendantExits, Reap, Collect, Deadline, KillsGroup, prepareVars,
     processVars
<1>21. ASSUME NEW a \in Attempts, Cleanup(a) PROVE FreshInv'
  BY <1>21, <1>0 DEF Cleanup, Goes, EndsProcesses, prepareVars, processVars
<1>22. ASSUME NEW a \in Attempts, CleanupFails(a) PROVE FreshInv'
  BY <1>22, <1>0 DEF CleanupFails, Goes, Fault, EndsProcesses, prepareVars, processVars
<1>23. CASE UNCHANGED vars
  BY <1>23, <1>0 DEF vars, prepareVars, processVars
<1> QED
  BY <1>1, <1>2, <1>3, <1>4, <1>5, <1>6, <1>7, <1>8, <1>9, <1>10, <1>11, <1>12, <1>13,
     <1>14, <1>15, <1>16, <1>17, <1>18, <1>19, <1>20, <1>21, <1>22, <1>23
     DEF Next, Prepare, Container

\* However clones and fetches of the shared mirror interleave, fail or are killed, an attempt
\* that gets a workspace works on a base as new as the base branch was when it began.
THEOREM CheckoutsAreFresh == Spec => []CheckoutIsFresh
<1>1. Init => FreshInv
  BY DEF Init, ProcessInit, FreshInv, TypeOK, Phases, HeadsAreOld, OneClone, GitBringsFresh,
    MirrorIsFresh, CutIsFresh
<1>2. FreshInv => CheckoutIsFresh
  BY DEF FreshInv, CutIsFresh, CheckoutIsFresh
<1> QED BY <1>1, <1>2, FreshStep, PTL DEF Spec

-----------------------------------------------------------------------------
(* What is left behind *)

\* Every step keeps what attempts leave behind accounted for.
LEMMA LeftStep == LeftInv /\ [Next]_vars => LeftInv'
<1> SUFFICES ASSUME LeftInv, [Next]_vars PROVE LeftInv'
  OBVIOUS
<1> USE DEF LeftInv, TypeOK, OneClone, HasOwnHead, HoldsOnlyAtWork, HeadlessIsCloned
<1>0. TypeOK'
  BY TypeStep
<1>1. CASE RemoteMoves
  BY <1>1, <1>0 DEF RemoteMoves, prepareVars, processVars
<1>2. CASE Crash
  BY <1>2, <1>0 DEF Crash, Fault, prepareVars, processVars
<1>3. ASSUME NEW a \in Attempts, BeginPrepare(a) PROVE LeftInv'
  BY <1>3, <1>0 DEF BeginPrepare, Goes, prepareVars, processVars
<1>4. ASSUME NEW a \in Attempts, LookForMirror(a) PROVE LeftInv'
  BY <1>4, <1>0 DEF LookForMirror, Goes, prepareVars, processVars
<1>5. ASSUME NEW a \in Attempts, BeginClone(a) PROVE LeftInv'
  <2>1. CASE mirror.dir = "absent"
    <3>1. /\ mirror' = [dir |-> "forming", at |-> 0]
          /\ want' = [want EXCEPT ![a] = remote]
          /\ pc[a] = "clone" /\ pc' = [pc EXCEPT ![a] = "cloning"]
          /\ UNCHANGED <<kind, shell, descendant, old, base, root, container, faults>>
      BY <1>5, <2>1 DEF BeginClone, Goes, processVars
    <3>2. OneClone' /\ HasOwnHead' /\ HeadlessIsCloned'
      BY <2>1, <3>1
    <3>3. HoldsOnlyAtWork'
      BY <3>1
    <3> QED BY <1>0, <3>2, <3>3
  <2>2. CASE mirror.dir # "absent"
    BY <1>5, <2>2, <1>0 DEF BeginClone, Goes, prepareVars, processVars
  <2> QED BY <2>1, <2>2
<1>6. ASSUME NEW a \in Attempts, CloneForms(a) PROVE LeftInv'
  BY <1>6, <1>0 DEF CloneForms, prepareVars, processVars
<1>7. ASSUME NEW a \in Attempts, EndClone(a) PROVE LeftInv'
  BY <1>7, <1>0 DEF EndClone, Goes, LeavesMirror, prepareVars, processVars
<1>8. ASSUME NEW a \in Attempts, CloneFails(a) PROVE LeftInv'
  BY <1>8, <1>0 DEF CloneFails, Goes, LeavesMirror, Fault, prepareVars, processVars
<1>9. ASSUME NEW a \in Attempts, ScrubRemote(a) PROVE LeftInv'
  BY <1>9, <1>0 DEF ScrubRemote, Goes, prepareVars, processVars
<1>10. ASSUME NEW a \in Attempts, BeginFetch(a) PROVE LeftInv'
  <2>1. CASE mirror.dir = "repo"
    <3>1. /\ want' = [want EXCEPT ![a] = remote] /\ old' = [old EXCEPT ![a] = mirror.at]
          /\ pc[a] = "fetch" /\ pc' = [pc EXCEPT ![a] = "fetching"]
          /\ UNCHANGED <<kind, shell, descendant, mirror, base, root, container, faults>>
      BY <1>10, <2>1 DEF BeginFetch, Goes, processVars
    <3>2. OneClone' /\ HasOwnHead' /\ HeadlessIsCloned'
      BY <1>10, <2>1, <3>1 DEF BeginFetch
    <3>3. HoldsOnlyAtWork'
      BY <3>1
    <3> QED BY <1>0, <3>2, <3>3
  <2>2. CASE mirror.dir # "repo"
    BY <1>10, <2>2, <1>0 DEF BeginFetch, Goes, prepareVars, processVars
  <2> QED BY <2>1, <2>2
<1>11. ASSUME NEW a \in Attempts, EndFetch(a) PROVE LeftInv'
  BY <1>11, <1>0 DEF EndFetch, Goes, GitEnds, prepareVars, processVars
<1>12. ASSUME NEW a \in Attempts, GitFails(a) PROVE LeftInv'
  BY <1>12, <1>0 DEF GitFails, Goes, GitEnds, Fault, prepareVars, processVars
<1>13. ASSUME NEW a \in Attempts, CutCheckout(a) PROVE LeftInv'
  BY <1>13, <1>0 DEF CutCheckout, Goes, prepareVars, processVars
<1>14. ASSUME NEW a \in Attempts, MakeBranch(a) PROVE LeftInv'
  BY <1>14, <1>0 DEF MakeBranch, Goes, prepareVars, processVars
<1>15. ASSUME NEW a \in Attempts, BranchFails(a) PROVE LeftInv'
  BY <1>15, <1>0 DEF BranchFails, Goes, Fault, prepareVars, processVars
<1>16. ASSUME NEW a \in Attempts, CreateContainer(a) PROVE LeftInv'
  BY <1>16, <1>0 DEF CreateContainer, Goes, prepareVars, processVars
<1>17. ASSUME NEW a \in Attempts, StartContainer(a) PROVE LeftInv'
  BY <1>17, <1>0 DEF StartContainer, Goes, prepareVars, processVars
<1>18. ASSUME NEW a \in Attempts, Refused(a) PROVE LeftInv'
  BY <1>18, <1>0 DEF Refused, Goes, prepareVars, processVars
<1>19. ASSUME NEW a \in Attempts, DockerFails(a) PROVE LeftInv'
  BY <1>19, <1>0 DEF DockerFails, Goes, Fault, prepareVars, processVars
<1>20. ASSUME NEW a \in Attempts, CommandStep(a) PROVE LeftInv'
  BY <1>20, <1>0 DEF CommandStep, ProcessStep, CallerStep, StartCommand, SpawnDescendant,
     ShellExits, DescendantExits, Reap, Collect, Deadline, KillsGroup, prepareVars,
     processVars
<1>21. ASSUME NEW a \in Attempts, Cleanup(a) PROVE LeftInv'
  BY <1>21, <1>0 DEF Cleanup, Goes, EndsProcesses, prepareVars, processVars
<1>22. ASSUME NEW a \in Attempts, CleanupFails(a) PROVE LeftInv'
  BY <1>22, <1>0 DEF CleanupFails, Goes, Fault, EndsProcesses, prepareVars, processVars
<1>23. CASE UNCHANGED vars
  BY <1>23, <1>0 DEF vars, prepareVars, processVars
<1> QED
  BY <1>1, <1>2, <1>3, <1>4, <1>5, <1>6, <1>7, <1>8, <1>9, <1>10, <1>11, <1>12, <1>13,
     <1>14, <1>15, <1>16, <1>17, <1>18, <1>19, <1>20, <1>21, <1>22, <1>23
     DEF Next, Prepare, Container

\* Unless a command failed that nothing cleans up after, or the process died, an attempt that is
\* over has left no container, no process in one, and no directory but one that was cut from a
\* mirror without a head; and a mirror without a head is somebody's running clone.
THEOREM NothingIsLeft == Spec => []NothingLeftBehind
<1>1. Init => LeftInv
  BY DEF Init, ProcessInit, LeftInv, TypeOK, Phases, OneClone, HasOwnHead, HoldsOnlyAtWork,
    HeadlessIsCloned
<1>2. LeftInv => NothingLeftBehind
  BY DEF LeftInv, TypeOK, OneClone, HoldsOnlyAtWork, HeadlessIsCloned, NothingLeftBehind, HasHead
<1> QED BY <1>1, <1>2, LeftStep, PTL DEF Spec

-----------------------------------------------------------------------------
(* Stray processes *)

\* Every step keeps a cause for each process a timed-out command has left.
LEMMA StrayStep == TypeOK /\ StrayInv /\ [Next]_vars => StrayInv'
<1> SUFFICES ASSUME TypeOK, StrayInv, [Next]_vars PROVE StrayInv'
  OBVIOUS
<1> USE DEF TypeOK, StrayInv, StraysHaveACause
<1>1. CASE RemoteMoves
  BY <1>1 DEF RemoteMoves, prepareVars, processVars
<1>2. CASE Crash
  BY <1>2 DEF Crash, Fault, prepareVars, processVars
<1>3. ASSUME NEW a \in Attempts, BeginPrepare(a) PROVE StrayInv'
  BY <1>3 DEF BeginPrepare, Goes, prepareVars, processVars
<1>4. ASSUME NEW a \in Attempts, LookForMirror(a) PROVE StrayInv'
  BY <1>4 DEF LookForMirror, Goes, prepareVars, processVars
<1>5. ASSUME NEW a \in Attempts, BeginClone(a) PROVE StrayInv'
  BY <1>5 DEF BeginClone, Goes, prepareVars, processVars
<1>6. ASSUME NEW a \in Attempts, CloneForms(a) PROVE StrayInv'
  BY <1>6 DEF CloneForms, prepareVars, processVars
<1>7. ASSUME NEW a \in Attempts, EndClone(a) PROVE StrayInv'
  BY <1>7 DEF EndClone, Goes, LeavesMirror, prepareVars, processVars
<1>8. ASSUME NEW a \in Attempts, CloneFails(a) PROVE StrayInv'
  BY <1>8 DEF CloneFails, Goes, LeavesMirror, Fault, prepareVars, processVars
<1>9. ASSUME NEW a \in Attempts, ScrubRemote(a) PROVE StrayInv'
  BY <1>9 DEF ScrubRemote, Goes, prepareVars, processVars
<1>10. ASSUME NEW a \in Attempts, BeginFetch(a) PROVE StrayInv'
  BY <1>10 DEF BeginFetch, Goes, prepareVars, processVars
<1>11. ASSUME NEW a \in Attempts, EndFetch(a) PROVE StrayInv'
  BY <1>11 DEF EndFetch, Goes, GitEnds, prepareVars, processVars
<1>12. ASSUME NEW a \in Attempts, GitFails(a) PROVE StrayInv'
  BY <1>12 DEF GitFails, Goes, GitEnds, Fault, prepareVars, processVars
<1>13. ASSUME NEW a \in Attempts, CutCheckout(a) PROVE StrayInv'
  BY <1>13 DEF CutCheckout, Goes, prepareVars, processVars
<1>14. ASSUME NEW a \in Attempts, MakeBranch(a) PROVE StrayInv'
  BY <1>14 DEF MakeBranch, Goes, prepareVars, processVars
<1>15. ASSUME NEW a \in Attempts, BranchFails(a) PROVE StrayInv'
  BY <1>15 DEF BranchFails, Goes, Fault, prepareVars, processVars
<1>16. ASSUME NEW a \in Attempts, CreateContainer(a) PROVE StrayInv'
  BY <1>16 DEF CreateContainer, Goes, prepareVars, processVars
<1>17. ASSUME NEW a \in Attempts, StartContainer(a) PROVE StrayInv'
  BY <1>17 DEF StartContainer, Goes, prepareVars, processVars
<1>18. ASSUME NEW a \in Attempts, Refused(a) PROVE StrayInv'
  BY <1>18 DEF Refused, Goes, prepareVars, processVars
<1>19. ASSUME NEW a \in Attempts, DockerFails(a) PROVE StrayInv'
  BY <1>19 DEF DockerFails, Goes, Fault, prepareVars, processVars
<1>20. ASSUME NEW a \in Attempts, CommandStep(a) PROVE StrayInv'
  <2>1. UNCHANGED kind
    BY <1>20 DEF CommandStep
  <2>2. ASSUME StartCommand(a) \/ ProcessStep(a) PROVE StrayInv'
    BY <2>1, <2>2 DEF StartCommand, ProcessStep, SpawnDescendant, ShellExits, DescendantExits
  <2>3. ASSUME Reap(a) \/ Collect(a) PROVE StrayInv'
    BY <2>1, <2>3 DEF Reap, Collect
  <2>4. ASSUME Deadline(a), KillsGroup(a) PROVE StrayInv'
    <3>1. /\ command' = [command EXCEPT ![a] = "timed_out"]
          /\ shell' = [shell EXCEPT ![a] = "none"]
      BY <2>4 DEF Deadline
    <3>2. /\ descendant'[a] # None => descendant'[a].session = "own"
          /\ \A b \in Attempts \ {a} : descendant'[b] = descendant[b]
      BY <2>4 DEF Deadline, Descendants
    <3> QED BY <2>1, <3>1, <3>2
  <2>5. ASSUME Deadline(a), ~ KillsGroup(a) PROVE StrayInv'
    BY <2>1, <2>5 DEF Deadline, KillsGroup, Collected, PipesOpen
  <2> QED BY <1>20, <2>2, <2>3, <2>4, <2>5 DEF CommandStep, CallerStep
<1>21. ASSUME NEW a \in Attempts, Cleanup(a) PROVE StrayInv'
  BY <1>21 DEF Cleanup, Goes, EndsProcesses, prepareVars, processVars
<1>22. ASSUME NEW a \in Attempts, CleanupFails(a) PROVE StrayInv'
  BY <1>22 DEF CleanupFails, Goes, Fault, EndsProcesses, prepareVars, processVars
<1>23. CASE UNCHANGED vars
  BY <1>23 DEF vars, prepareVars, processVars
<1> QED
  BY <1>1, <1>2, <1>3, <1>4, <1>5, <1>6, <1>7, <1>8, <1>9, <1>10, <1>11, <1>12, <1>13,
     <1>14, <1>15, <1>16, <1>17, <1>18, <1>19, <1>20, <1>21, <1>22, <1>23
     DEF Next, Prepare, Container

\* On the host, a process of its own group that outlives a command's deadline was holding the
\* pipes of a command whose shell had been over before.
THEOREM StraysAreExplained == Spec => []StraysHaveACause
<1>1. Init => StrayInv
  BY DEF Init, ProcessInit, StrayInv, StraysHaveACause
<1>2. StrayInv => StraysHaveACause
  BY DEF StrayInv
<1>3. Spec => []TypeOK
  BY TypeCorrect
<1> QED BY <1>1, <1>2, <1>3, StrayStep, PTL DEF Spec
=============================================================================
