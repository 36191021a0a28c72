----------------------------- MODULE Subprocess ------------------------------
(***************************************************************************)
(* Commands under a deadline (gitai-sandbox, proc.rs and tree.rs, Unix).   *)
(*                                                                         *)
(* A command is a shell in a process group of its own. It may leave one    *)
(* descendant behind, in that group or in a session of its own, that may   *)
(* hold the pipes open.  The caller drains the pipes and waits for the     *)
(* shell at once, and kills what it can reach when the deadline comes      *)
(* first.  Under Docker the child of this process is the client; shell and *)
(* descendant live in the container, and the deadline reaches the client.  *)
(***************************************************************************)
EXTENDS Integers

CONSTANTS
  Attempts,    \* an attempt runs a command at a time
  None

VARIABLES
  kind,        \* sandbox.kind
  command,     \* the command of an attempt: idle, running, finished or timed out
  shell,       \* none, runs, exited, or reaped: its exit status has been collected
  descendant   \* None, or the session and the use of the pipes of a process left behind

processVars == <<command, shell, descendant>>

Descendants == [session : {"group", "own"}, piped : BOOLEAN]

ProcessInit ==
  /\ kind \in {"local", "docker"}
  /\ command = [a \in Attempts |-> "idle"]
  /\ shell = [a \in Attempts |-> "none"]
  /\ descendant = [a \in Attempts |-> None]

\* Workspace::exec
StartCommand(a) ==
  /\ command[a] = "idle"
  /\ command' = [command EXCEPT ![a] = "running"]
  /\ shell' = [shell EXCEPT ![a] = "runs"]
  /\ UNCHANGED descendant

SpawnDescendant(a) ==
  /\ shell[a] = "runs" /\ descendant[a] = None
  /\ \E d \in Descendants : descendant' = [descendant EXCEPT ![a] = d]
  /\ UNCHANGED <<command, shell>>

ShellExits(a) ==
  /\ shell[a] = "runs"
  /\ shell' = [shell EXCEPT ![a] = "exited"]
  /\ UNCHANGED <<command, descendant>>

\* child.wait() is polled beside the pipes: it has the status before they are closed.
Reap(a) ==
  /\ command[a] = "running" /\ shell[a] = "exited"
  /\ shell' = [shell EXCEPT ![a] = "reaped"]
  /\ UNCHANGED <<command, descendant>>

DescendantExits(a) ==
  /\ descendant[a] # None
  /\ descendant' = [descendant EXCEPT ![a] = None]
  /\ UNCHANGED <<command, shell>>

PipesOpen(a) == kind = "local" /\ descendant[a] # None /\ descendant[a].piped

\* Both pipes are at their end and the status is there.
Collected(a) == command[a] = "running" /\ shell[a] = "reaped" /\ ~ PipesOpen(a)

Collect(a) ==
  /\ Collected(a)
  /\ command' = [command EXCEPT ![a] = "finished"]
  /\ UNCHANGED <<shell, descendant>>

\* kill_tree: the group is signalled while the child still has an id, which it has until its
\* status was collected; the client of Docker takes nothing in the container with it.
KillsGroup(a) == kind = "local" /\ shell[a] # "reaped"

\* Mutant of Deadline: the child is killed and its group is not.
DeadlineForTheChild(a) ==
  /\ command[a] = "running" /\ ~ Collected(a)
  /\ command' = [command EXCEPT ![a] = "timed_out"]
  /\ shell' = [shell EXCEPT ![a] = IF KillsGroup(a) THEN "none" ELSE @]
  /\ UNCHANGED descendant

\* Mutant of Deadline: the deadline is around the wait for the child and not around the pipes.
DeadlineOfTheWait(a) ==
  /\ command[a] = "running" /\ shell[a] \in {"runs", "exited"}
  /\ command' = [command EXCEPT ![a] = "timed_out"]
  /\ shell' = [shell EXCEPT ![a] = "none"]
  /\ UNCHANGED descendant

Deadline(a) ==
  /\ command[a] = "running" /\ ~ Collected(a)
  /\ command' = [command EXCEPT ![a] = "timed_out"]
  /\ IF KillsGroup(a)
     THEN /\ shell' = [shell EXCEPT ![a] = "none"]
          /\ descendant' = [descendant EXCEPT ![a] =
                              IF @ # None /\ @.session = "group" THEN None ELSE @]
     ELSE UNCHANGED <<shell, descendant>>

\* What the processes of a command do by themselves, and what the caller does.
ProcessStep(a) == SpawnDescendant(a) \/ ShellExits(a) \/ DescendantExits(a)
CallerStep(a) == Reap(a) \/ Collect(a) \/ Deadline(a)

-----------------------------------------------------------------------------

\* A command that went past its deadline on the host has left a process of its own group
\* behind only when its shell was over before the deadline, which then was waiting for that
\* process to close the pipes.
StraysHaveACause ==
  \A a \in Attempts :
    kind = "local" /\ command[a] = "timed_out" /\ descendant[a] # None =>
      \/ descendant[a].session = "own"
      \/ shell[a] = "reaped" /\ descendant[a].piped
=============================================================================
