-------------------------------- MODULE Roles --------------------------------
(***************************************************************************)
(* The models behind the roles: what of the configuration is checked when  *)
(* it is loaded (gitai-core, config.rs), which model a call goes to        *)
(* (gitai-pipeline, roles.rs; gitai-llm, registry.rs), and how the         *)
(* verdicts of the reviewers are made consistent and compared (roles.rs,   *)
(* model.rs, engine.rs).                                                   *)
(*                                                                         *)
(* A configuration gives the providers there are, for a model its provider *)
(* and whether it has an id, for a role its model, and for the workers a   *)
(* list of models.                                                         *)
(***************************************************************************)
EXTENDS Integers, Sequences, FiniteSets, Functions

SingleRoles == {"planner", "editor", "reviewer", "arbiter"}

-----------------------------------------------------------------------------
(* Configuration *)

\* Config, as it was parsed.
Configs(providers, names) ==
  [providers : SUBSET providers,
   models    : UNION {[S -> [provider : providers, hasId : BOOLEAN]] : S \in SUBSET names},
   roles     : [SingleRoles -> names],
   worker    : Seq(names),
   forges    : SUBSET {"with base_url", "without base_url"}]

\* Mutant of Validate: an empty list of workers passes.
ValidateButWorkers(cfg) ==
  /\ DOMAIN cfg.models # {}
  /\ \A m \in DOMAIN cfg.models : cfg.models[m].provider \in cfg.providers /\ cfg.models[m].hasId
  /\ Range(cfg.roles) \subseteq DOMAIN cfg.models
  /\ Range(cfg.worker) \subseteq DOMAIN cfg.models
  /\ cfg.forges \subseteq {"with base_url"}

\* Config::validate
Validate(cfg) ==
  /\ DOMAIN cfg.models # {}
  /\ \A m \in DOMAIN cfg.models : cfg.models[m].provider \in cfg.providers /\ cfg.models[m].hasId
  /\ Range(cfg.roles) \subseteq DOMAIN cfg.models
  /\ cfg.worker # <<>> /\ Range(cfg.worker) \subseteq DOMAIN cfg.models
  /\ cfg.forges \subseteq {"with base_url"}

\* ModelRegistry::resolve
Resolves(cfg, model) ==
  model \in DOMAIN cfg.models /\ cfg.models[model].provider \in cfg.providers

\* Roles::worker_model: a remainder by the length of the list, which may not be zero.
HasWorkerModel(cfg) == Len(cfg.worker) > 0
WorkerModel(cfg, index) == cfg.worker[1 + (index % Len(cfg.worker))]

-----------------------------------------------------------------------------
(* Verdicts *)

\* Verdict: the score is a u8, whatever scale the reviewer was asked for.
Verdicts == [approved : BOOLEAN, score : 0 .. 255, blocking : BOOLEAN]

\* What became of a review, and the size of the diff that was reviewed.
Reviews == [failed : {FALSE}, verdict : Verdicts, size : Nat] \cup [failed : {TRUE}, size : Nat]

MaxOf(S) == CHOOSE n \in S : \A m \in S : m <= n
MinOf(S) == CHOOSE n \in S : \A m \in S : n <= m

\* Mutant of Normalise: a rejection keeps its score.
NormaliseApprovalOnly(v) ==
  [v EXCEPT !.approved = @ /\ ~ v.blocking, !.score = MinOf({@, 100})]

\* normalise: blockers reject, and a rejection scores at most 60.
Normalise(v) ==
  LET approved == v.approved /\ ~ v.blocking
  IN  [v EXCEPT !.approved = approved,
                !.score = MinOf({@, 100} \cup IF approved THEN {} ELSE {60})]

\* A review that failed to run: Verdict::rejected.
Rejected == [approved |-> FALSE, score |-> 0, blocking |-> TRUE]

\* Attempt::rank: the score, and for equal scores the smaller diff.
Outranks(a, b) ==
  \/ a.verdict.score > b.verdict.score
  \/ a.verdict.score = b.verdict.score /\ a.size < b.size

\* drive: sorted by index and then, stably, by falling rank; the first is the best.
Best(reviewed) ==
  MinOf({i \in DOMAIN reviewed : \A k \in DOMAIN reviewed : ~ Outranks(reviewed[k], reviewed[i])})

\* What the reviewers said of the attempts of a round, as the engine goes on with it.
Reviewed(said) ==
  [i \in DOMAIN said |-> [verdict |-> IF said[i].failed THEN Rejected ELSE Normalise(said[i].verdict),
                          size |-> said[i].size]]

-----------------------------------------------------------------------------

\* A configuration that was accepted has a model and a provider for every call of every
\* role, and shares the attempts of a round evenly among the workers it lists.
AcceptedConfigWorks(cfg, attempts) ==
  LET indices == 0 .. attempts - 1
      Share(k) == Cardinality({i \in indices : 1 + (i % Len(cfg.worker)) = k})
  IN  Validate(cfg) =>
        /\ \A role \in DOMAIN cfg.roles : Resolves(cfg, cfg.roles[role])
        /\ HasWorkerModel(cfg) /\ \A i \in indices : Resolves(cfg, WorkerModel(cfg, i))
        /\ \A j, k \in DOMAIN cfg.worker : Share(j) <= Share(k) + 1

\* The attempt that goes to the arbiter: whatever the reviewers wrote, one with blockers or
\* without approval is not preferred to an approved one that scored more than 60, nor is one
\* whose review failed to any that was scored.
BestIsSound(said) ==
  LET reviewed == Reviewed(said)
      best == reviewed[Best(reviewed)]
      chosen == said[Best(reviewed)]
      Objects(i) == said[i].failed \/ said[i].verdict.blocking \/ ~ said[i].verdict.approved
  IN  /\ chosen.failed => \A i \in DOMAIN said : said[i].failed \/ said[i].verdict.score = 0
      /\ Objects(Best(reviewed)) =>
           ~ best.verdict.approved
           /\ \A i \in DOMAIN said : ~ Objects(i) => said[i].verdict.score <= 60
=============================================================================
