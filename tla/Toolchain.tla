------------------------------ MODULE Toolchain ------------------------------
(***************************************************************************)
(* Whose image and whose commands an attempt is judged with.  Three        *)
(* sources may name them: the server's configuration (gitai-core,          *)
(* config.rs), .gitai.toml in the repository, and the planner.  engine.rs  *)
(* merges them in two places, when it plans and when an attempt begins,    *)
(* and the gate (gitai-sandbox, gate.rs) runs what comes of it.            *)
(*                                                                         *)
(* A command is a value that names its source; whether it succeeds is a    *)
(* property of the patch.  A repository is the sequence of the parts of    *)
(* its full name; a changed file is known by its name, whether it lies in  *)
(* the planner's scope and whether it is a test.                           *)
(***************************************************************************)
EXTENDS ListOps

CONSTANT None

Kinds == {"setup", "build", "test", "lint"}

\* What the three configurations say: SandboxConfig, GateConfig and RepoConfig, of which the
\* last is read from the repository. Any of them may leave a list empty.
SandboxConfigs(default, maps) == [image : {default}, images : maps]
GateConfigs(lists, limits) ==
  [commands : lists, enforceScope : BOOLEAN, max : limits, requireTests : BOOLEAN]
RepoConfigs(images, lists) == [is : {"toml"}, image : images, commands : lists]

-----------------------------------------------------------------------------
(* Images *)

\* resolve_configured_image: by full name, else by what follows the first slash.
ConfiguredImage(images, repo) ==
  LET known == {name \in {repo, Tail(repo)} : name \in DOMAIN images}
  IN  IF known = {} THEN None ELSE images[IF repo \in known THEN repo ELSE Tail(repo)]

Or(image, other) == IF image # None THEN image ELSE other

\* The image of an attempt: run_attempt, and Sandbox::create where nobody named one.
AttemptImage(sandbox, repo, spec) ==
  Or(Or(spec.image, ConfiguredImage(sandbox.images, repo)), sandbox.image)

-----------------------------------------------------------------------------
(* Commands *)

\* The commands of each kind: those of the first, where it lists any.
Over(first, second) == [k \in Kinds |-> IF first[k] # <<>> THEN first[k] ELSE second[k]]

\* read_repo_config: a file that is missing or cannot be parsed says nothing.
IsRead(file) == file.is = "toml"

\* Mutant of Planned: .gitai.toml only fills in what the planner left out.
PlannedBeforeToml(file, planner, configured) ==
  IF IsRead(file)
  THEN [image |-> Or(planner.image, file.image), commands |-> Over(planner.commands, file.commands)]
  ELSE [image |-> Or(planner.image, configured), commands |-> planner.commands]

\* plan: what .gitai.toml names goes before what the planner named; the configured image is
\* filled in only when there is no such file.
Planned(file, planner, configured) ==
  IF IsRead(file)
  THEN [image |-> Or(file.image, planner.image), commands |-> Over(file.commands, planner.commands)]
  ELSE [image |-> Or(planner.image, configured), commands |-> planner.commands]

\* effective_gate_config
EffectiveGate(gate, spec) == Over(gate.commands, spec.commands)

\* GateConfig::is_empty
IsEmpty(commands) == \A k \in Kinds \ {"setup"} : commands[k] = <<>>

-----------------------------------------------------------------------------
(* The gate *)

Check(name, ok) == [name |-> name, ok |-> ok, skipped |-> FALSE]
Skipped(name) == [name |-> name, ok |-> TRUE, skipped |-> TRUE]
Passes(checks) == \A i \in DOMAIN checks : checks[i].ok

\* run_step: the commands of one kind up to the first that fails.
Ran(commands, broken) ==
  LET failing == {i \in DOMAIN commands : commands[i] \in broken}
  IN  IF failing = {} THEN commands ELSE SubSeq(commands, 1, Min(failing))

RunStep(kind, commands, broken) ==
  IF commands = <<>> THEN Skipped(kind) ELSE Check(kind, Range(commands) \cap broken = {})

CheckProducedChanges(changed) == Check("changes", changed # {})

\* check_scope: no patterns, no scope (module Scope says when a file matches one).
CheckScope(changed, restricted) ==
  IF ~ restricted THEN Skipped("scope") ELSE Check("scope", \A f \in changed : f.inScope)

\* check_size: a limit of zero is none.
CheckSize(changed, max) ==
  IF max = 0 THEN Skipped("size") ELSE Check("size", Cardinality(changed) <= max)

CheckTestsTouched(changed) == Check("tests_touched", \E f \in changed : f.isTest)

\* run_gate: what costs nothing, all of it.
CheapChecks(gate, changed, restricted) ==
  <<CheckProducedChanges(changed)>>
  \o (IF gate.enforceScope THEN <<CheckScope(changed, restricted)>> ELSE <<>>)
  \o <<CheckSize(changed, gate.max)>>
  \o (IF gate.requireTests THEN <<CheckTestsTouched(changed)>> ELSE <<>>)

Judge(report, kind, commands, broken) ==
  [checks |-> Append(report.checks, RunStep(kind, commands, broken)),
   ran |-> report.ran \o Ran(commands, broken)]

\* Mutant of RunGate: the cheap checks are reported but stop nothing.
RunGateRegardless(gate, commands, changed, restricted, broken) ==
  LET cheap == CheapChecks(gate, changed, restricted)
      Step(report, kind) ==
        IF Passes(SubSeq(report.checks, Len(cheap) + 1, Len(report.checks)))
        THEN Judge(report, kind, commands[kind], broken) ELSE report
  IN  FoldLeft(Step, [checks |-> cheap, ran |-> <<>>], <<"build", "test", "lint">>)

\* run_gate: commands only after the cheap checks agree, and none after one that failed.
RunGate(gate, commands, changed, restricted, broken) ==
  LET Step(report, kind) ==
        IF Passes(report.checks) THEN Judge(report, kind, commands[kind], broken) ELSE report
  IN  FoldLeft(Step, [checks |-> CheapChecks(gate, changed, restricted), ran |-> <<>>],
               <<"build", "test", "lint">>)

\* attempt_body up to its first gate: the setup, which has to succeed.
SetupWorks(commands, broken) == RunStep("setup", commands.setup, broken).ok

-----------------------------------------------------------------------------

\* The sources that have a say, the strongest first.
Sources(job) ==
  <<job.gate.commands>> \o (IF IsRead(job.file) THEN <<job.file.commands>> ELSE <<>>)
  \o <<job.planner.commands>>

\* What the strongest source that has commands of this kind says.
Asked(job, kind) ==
  LET s == SelectInSeq(Sources(job), LAMBDA commands : commands[kind] # <<>>)
  IN  IF s = 0 THEN <<>> ELSE Sources(job)[s][kind]

\* The gate of an attempt on this job, and the attempt's image.
Spec(job) == Planned(job.file, job.planner, ConfiguredImage(job.sandbox.images, job.repo))
Commands(job) == EffectiveGate(job.gate, Spec(job))
Report(job, changed, broken) == RunGate(job.gate, Commands(job), changed, job.restricted, broken)

Agreeable(job, changed) ==
  /\ changed # {}
  /\ job.gate.enforceScope /\ job.restricted => \A f \in changed : f.inScope
  /\ job.gate.max # 0 => Cardinality(changed) <= job.gate.max
  /\ job.gate.requireTests => \E f \in changed : f.isTest

\* A patch passes exactly when its files are agreeable and every command works that the
\* strongest source names, kind by kind; it passes with nothing run only if nobody named
\* anything to run. One that does not pass has run nothing when its files are the reason, and
\* nothing behind the command that failed; and its report says every reason it can know.
GateJudgesAsAsked(job, changed, broken) ==
  LET report == Report(job, changed, broken)
      asked == Asked(job, "build") \o Asked(job, "test") \o Asked(job, "lint")
      wrong == {i \in DOMAIN report.checks : ~ report.checks[i].ok}
  IN  /\ SetupWorks(Commands(job), broken) <=> Range(Asked(job, "setup")) \cap broken = {}
      /\ Passes(report.checks) <=> Agreeable(job, changed) /\ Range(asked) \cap broken = {}
      /\ Passes(report.checks) =>
           /\ report.ran = asked
           /\ report.ran = <<>> => \A i \in DOMAIN Sources(job) : IsEmpty(Sources(job)[i])
      /\ ~ Agreeable(job, changed) => report.ran = <<>>
      /\ Agreeable(job, changed) /\ wrong # {} =>
           /\ wrong = {Len(report.checks)} /\ IsPrefix(report.ran, asked)
           /\ {i \in DOMAIN report.ran : report.ran[i] \in broken} = {Len(report.ran)}

\* An attempt runs in the image of .gitai.toml, else the planner's, else the one configured
\* for the repository, else the default; a broken file takes no image away from anybody.
ImageIsTheOneAsked(job) ==
  AttemptImage(job.sandbox, job.repo, Spec(job)) =
    Or(Or(Or(IF IsRead(job.file) THEN job.file.image ELSE None, job.planner.image),
          ConfiguredImage(job.sandbox.images, job.repo)), job.sandbox.image)
=============================================================================
