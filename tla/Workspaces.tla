----------------------------- MODULE Workspaces ------------------------------
(***************************************************************************)
(* The workspaces of the attempts (gitai-sandbox: git.rs, docker.rs,       *)
(* local.rs): a mirror of the repository that all attempts share, a        *)
(* checkout and a container of each, the commands run in it (Subprocess),  *)
(* and their removal.                                                      *)
(*                                                                         *)
(* Attempts of a round prepare their checkouts at the same time, and each  *)
(* git command is a process that ends some time after it began.  What git  *)
(* does with one directory from two processes is external and kept as wide *)
(* as git leaves it: a clone refuses a directory that is there, a fetch    *)
(* fails when the refs moved under it, and a clone whose directory was     *)
(* filled by someone else fails and may take the directory with it, under  *)
(* every fetch whose working directory it is.                              *)
(***************************************************************************)
EXTENDS Subprocess

CONSTANTS
  Commanders,  \* bound: the attempts that run a command
  MaxVersion,  \* bound: commits on the base branch of the forge
  MaxFaults    \* bound: failing commands, and processes that die

ASSUME WorkspaceAssumption ==
  Commanders \subseteq Attempts /\ MaxVersion \in Nat /\ MaxFaults \in Nat

VARIABLES
  remote,      \* the head of the base branch at the forge
  mirror,      \* the mirror: its directory, and the head it has (0: none)
  pc,          \* where an attempt is
  since,       \* history: the remote head when the attempt began to prepare
  want,        \* the head a running clone or fetch of the attempt has read (0: none runs)
  old,         \* the head the mirror had when that fetch began (-1: that mirror is gone)
  base,        \* base_sha: the head the checkout was cut from (0: none)
  root,        \* the directory of the attempt is there
  container,   \* the container of the attempt is there
  faults       \* history: failures that are not answered with a clean-up of their own

prepareVars == <<since, want, old, base>>
vars == <<kind, processVars, remote, mirror, pc, prepareVars, root, container, faults>>

Init ==
  /\ ProcessInit
  /\ remote = 1 /\ mirror = [dir |-> "absent", at |-> 0]
  /\ pc = [a \in Attempts |-> "idle"]
  /\ since = [a \in Attempts |-> 0] /\ want = [a \in Attempts |-> 0]
  /\ old = [a \in Attempts |-> 0] /\ base = [a \in Attempts |-> 0]
  /\ root = [a \in Attempts |-> FALSE] /\ container = [a \in Attempts |-> FALSE]
  /\ faults = 0

Goes(a, phase) == pc' = [pc EXCEPT ![a] = phase]
Fault == faults < MaxFaults /\ faults' = faults + 1
GitEnds(a) == want' = [want EXCEPT ![a] = 0] /\ old' = [old EXCEPT ![a] = 0]
HasHead == mirror.dir = "repo" /\ mirror.at > 0

-----------------------------------------------------------------------------
(* Checkout::prepare *)

\* Somebody pushes to the base branch.
RemoteMoves ==
  /\ remote < MaxVersion /\ remote' = remote + 1
  /\ UNCHANGED <<kind, processVars, mirror, pc, prepareVars, root, container, faults>>

\* The directory is named after the attempt, whose id is fresh: there is nothing to clear.
BeginPrepare(a) ==
  /\ pc[a] = "idle" /\ Goes(a, "look")
  /\ since' = [since EXCEPT ![a] = remote]
  /\ UNCHANGED <<kind, processVars, remote, mirror, want, old, base, root, container, faults>>

\* Mutant of LookForMirror: a mirror that is there is as good as fresh.
LookForMirrorOnce(a) ==
  /\ pc[a] = "look" /\ Goes(a, IF mirror.dir = "absent" THEN "clone" ELSE "cut")
  /\ UNCHANGED <<kind, processVars, remote, mirror, prepareVars, root, container, faults>>

\* sync_mirror: the look at the directory and what follows are steps apart.
LookForMirror(a) ==
  /\ pc[a] = "look" /\ Goes(a, IF mirror.dir = "absent" THEN "clone" ELSE "fetch")
  /\ UNCHANGED <<kind, processVars, remote, mirror, prepareVars, root, container, faults>>

BeginClone(a) ==
  /\ pc[a] = "clone"
  /\ IF mirror.dir = "absent"
     THEN /\ mirror' = [dir |-> "forming", at |-> 0]
          /\ want' = [want EXCEPT ![a] = remote] /\ Goes(a, "cloning")
     ELSE Goes(a, "over") /\ UNCHANGED <<mirror, want>>
  /\ UNCHANGED <<kind, processVars, remote, since, old, base, root, container, faults>>

\* The directory becomes a repository before it has any refs.
CloneForms(a) ==
  /\ pc[a] = "cloning" /\ mirror.dir = "forming"
  /\ mirror' = [mirror EXCEPT !.dir = "repo"]
  /\ UNCHANGED <<kind, processVars, remote, pc, prepareVars, root, container, faults>>

\* git removes the directory it made, or, killed at GIT_TIMEOUT, leaves it. A fetch runs in
\* the directory it began in: one that is made anew has none of the refs the fetch has read.
LeavesMirror ==
  \/ /\ mirror' = [dir |-> "absent", at |-> 0]
     /\ old' = [a \in Attempts |-> IF pc[a] = "fetching" THEN -1 ELSE old[a]]
  \/ UNCHANGED <<mirror, old>>

EndClone(a) ==
  /\ pc[a] = "cloning" /\ mirror.dir = "repo"
  /\ IF mirror.at = 0
     THEN mirror' = [mirror EXCEPT !.at = want[a]] /\ UNCHANGED old /\ Goes(a, "scrub")
     ELSE LeavesMirror /\ Goes(a, "over")
  /\ want' = [want EXCEPT ![a] = 0]
  /\ UNCHANGED <<kind, processVars, remote, since, base, root, container, faults>>

CloneFails(a) ==
  /\ pc[a] = "cloning" /\ Fault /\ Goes(a, "over") /\ LeavesMirror
  /\ want' = [want EXCEPT ![a] = 0]
  /\ UNCHANGED <<kind, processVars, remote, since, base, root, container>>

\* remote set-url
ScrubRemote(a) ==
  /\ pc[a] = "scrub" /\ Goes(a, "cut")
  /\ UNCHANGED <<kind, processVars, remote, mirror, prepareVars, root, container, faults>>

BeginFetch(a) ==
  /\ pc[a] = "fetch"
  /\ IF mirror.dir = "repo"
     THEN /\ want' = [want EXCEPT ![a] = remote] /\ old' = [old EXCEPT ![a] = mirror.at]
          /\ Goes(a, "fetching")
     ELSE Goes(a, "over") /\ UNCHANGED <<want, old>>
  /\ UNCHANGED <<kind, processVars, remote, mirror, since, base, root, container, faults>>

\* The refs are updated if they are still what they were when the fetch began.
EndFetch(a) ==
  /\ pc[a] = "fetching"
  /\ IF mirror.dir = "repo" /\ (want[a] = old[a] \/ mirror.at = old[a])
     THEN /\ mirror' = [mirror EXCEPT !.at = IF want[a] = old[a] THEN @ ELSE want[a]]
          /\ Goes(a, "cut")
     ELSE Goes(a, "over") /\ UNCHANGED mirror
  /\ GitEnds(a)
  /\ UNCHANGED <<kind, processVars, remote, since, base, root, container, faults>>

\* A git command before the checkout fails, or cannot be started.
GitFails(a) ==
  /\ pc[a] \in {"scrub", "fetching", "cut"} /\ Fault /\ Goes(a, "over") /\ GitEnds(a)
  /\ UNCHANGED <<kind, processVars, remote, mirror, since, base, root, container>>

\* clone --local
CutCheckout(a) ==
  /\ pc[a] = "cut"
  /\ IF mirror.dir = "repo"
     THEN /\ root' = [root EXCEPT ![a] = TRUE]
          /\ base' = [base EXCEPT ![a] = mirror.at] /\ Goes(a, "branch")
     ELSE Goes(a, "over") /\ UNCHANGED <<root, base>>
  /\ UNCHANGED <<kind, processVars, remote, mirror, since, want, old, container, faults>>

\* checkout -b, the identity, rev-parse
MakeBranch(a) ==
  /\ pc[a] = "branch" /\ base[a] > 0
  /\ Goes(a, IF kind = "docker" THEN "create" ELSE "ready")
  /\ UNCHANGED <<kind, processVars, remote, mirror, prepareVars, root, container, faults>>

\* Nothing removes a checkout whose preparation fails after it was cut.
BranchFails(a) ==
  /\ pc[a] = "branch" /\ Goes(a, "over")
  /\ IF base[a] = 0 THEN UNCHANGED faults ELSE Fault
  /\ UNCHANGED <<kind, processVars, remote, mirror, prepareVars, root, container>>

-----------------------------------------------------------------------------
(* DockerSandbox::create *)

CreateContainer(a) ==
  /\ pc[a] = "create" /\ Goes(a, "start")
  /\ container' = [container EXCEPT ![a] = TRUE]
  /\ UNCHANGED <<kind, processVars, remote, mirror, prepareVars, root, faults>>

StartContainer(a) ==
  /\ pc[a] = "start" /\ Goes(a, "ready")
  /\ UNCHANGED <<kind, processVars, remote, mirror, prepareVars, root, container, faults>>

\* Mutant of Refused: the checkout of a container that does not start is forgotten.
RefusedForgetting(a) ==
  /\ pc[a] \in {"create", "start"} /\ Goes(a, "over")
  /\ container' = [container EXCEPT ![a] = FALSE]
  /\ UNCHANGED <<kind, processVars, remote, mirror, prepareVars, root, faults>>

\* Docker answers with an error: the container and the checkout are removed.
Refused(a) ==
  /\ pc[a] \in {"create", "start"} /\ Goes(a, "over")
  /\ container' = [container EXCEPT ![a] = FALSE]
  /\ root' = [root EXCEPT ![a] = FALSE]
  /\ UNCHANGED <<kind, processVars, remote, mirror, prepareVars, faults>>

\* Docker cannot be run, and `?` leaves all behind; or it is killed at its deadline and
\* makes the container later, or the removals fail, which is not looked at.
DockerFails(a) ==
  /\ pc[a] \in {"create", "start"} /\ Fault /\ Goes(a, "over")
  /\ \E there, left \in BOOLEAN :
       container' = [container EXCEPT ![a] = there] /\ root' = [root EXCEPT ![a] = left]
  /\ UNCHANGED <<kind, processVars, remote, mirror, prepareVars>>

-----------------------------------------------------------------------------
(* Workspace *)

CommandStep(a) ==
  /\ \/ a \in Commanders /\ pc[a] = "ready" /\ StartCommand(a)
     \/ ProcessStep(a)
     \/ pc[a] = "ready" /\ CallerStep(a)
  /\ UNCHANGED <<kind, remote, mirror, pc, prepareVars, root, container, faults>>

\* Removing a container ends what runs in it.
EndsProcesses(a) ==
  IF kind = "docker"
  THEN /\ shell' = [shell EXCEPT ![a] = "none"]
       /\ descendant' = [descendant EXCEPT ![a] = None]
       /\ UNCHANGED command
  ELSE UNCHANGED processVars

\* cleanup: the container first, then the checkout.
Cleanup(a) ==
  /\ pc[a] = "ready" /\ command[a] # "running" /\ Goes(a, "over")
  /\ container' = [container EXCEPT ![a] = FALSE]
  /\ root' = [root EXCEPT ![a] = FALSE]
  /\ EndsProcesses(a)
  /\ UNCHANGED <<kind, remote, mirror, prepareVars, faults>>

\* A container that is not removed is logged or not noticed; the checkout is tried still.
CleanupFails(a) ==
  /\ pc[a] = "ready" /\ command[a] # "running" /\ Fault /\ Goes(a, "over")
  /\ \/ /\ UNCHANGED <<container, processVars>>
        /\ \E left \in BOOLEAN : root' = [root EXCEPT ![a] = left]
     \/ /\ container' = [container EXCEPT ![a] = FALSE] /\ EndsProcesses(a)
        /\ UNCHANGED root
  /\ UNCHANGED <<kind, remote, mirror, prepareVars>>

\* The process dies with every attempt it runs. What is on disk, in Docker and in other
\* processes stays; the attempts that have not begun are those of the next process.
Crash ==
  /\ Fault
  /\ pc' = [a \in Attempts |-> IF pc[a] = "idle" THEN "idle" ELSE "over"]
  /\ want' = [a \in Attempts |-> 0] /\ old' = [a \in Attempts |-> 0]
  /\ UNCHANGED <<kind, processVars, remote, mirror, since, base, root, container>>

Prepare(a) ==
  \/ BeginPrepare(a) \/ LookForMirror(a)
  \/ BeginClone(a) \/ CloneForms(a) \/ EndClone(a) \/ CloneFails(a) \/ ScrubRemote(a)
  \/ BeginFetch(a) \/ EndFetch(a) \/ GitFails(a)
  \/ CutCheckout(a) \/ MakeBranch(a) \/ BranchFails(a)

Container(a) == CreateContainer(a) \/ StartContainer(a) \/ Refused(a) \/ DockerFails(a)

Next ==
  \/ RemoteMoves \/ Crash
  \/ \E a \in Attempts :
       Prepare(a) \/ Container(a) \/ CommandStep(a) \/ Cleanup(a) \/ CleanupFails(a)

Spec == Init /\ [][Next]_vars

\* The timer of a command runs out, and its caller is polled.
FairSpec ==
  Spec /\ \A a \in Commanders :
            WF_vars(pc[a] = "ready" /\ CallerStep(a)
                    /\ UNCHANGED <<kind, remote, mirror, pc, prepareVars, root, container, faults>>)

-----------------------------------------------------------------------------

\* However the attempts' clones and fetches of the shared mirror interleave, fail or are
\* killed, an attempt that gets a workspace works on a base that is at least as new as the
\* head of the base branch when it began.
CheckoutIsFresh ==
  \A a \in Attempts : pc[a] \in {"create", "start", "ready"} => base[a] >= since[a]

\* A clone in one process and a fetch in another never leave a mirror without refs behind,
\* and an attempt that ends leaves no directory, no container and no process in one:
\* unless a command failed that nothing cleans up after, or the process died. The one
\* directory that stays without either was cut from a mirror somebody was making anew: it
\* has no base, the branch cannot be made, and `?` leaves it.
NothingLeftBehind ==
  faults = 0 =>
    /\ \A a \in Attempts : pc[a] = "over" =>
         /\ root[a] => base[a] = 0
         /\ ~ container[a]
         /\ kind = "docker" => shell[a] = "none" /\ descendant[a] = None
    /\ mirror.dir # "absent" /\ ~ HasHead => \E a \in Attempts : pc[a] = "cloning"

\* A command comes back to its caller whatever its processes do, unless its caller is gone.
CommandsReturnOrCrash ==
  \A a \in Commanders :
    command[a] = "running" /\ pc[a] = "ready" ~> command[a] # "running" \/ pc[a] = "over"
=============================================================================
