------------------------------- MODULE Inputs --------------------------------
(***************************************************************************)
(* The pure parts of gitai.  A behaviour picks one input of one call and   *)
(* stops; the invariants say what the part makes of it.  The inputs there  *)
(* are to pick from are parameters, which may be any inputs that the       *)
(* program can be given.                                                   *)
(***************************************************************************)
EXTENDS Integers, Sequences, FiniteSets

CONSTANTS
  None,
  Bot, People,          \* the bot's own account, and all accounts
  Labels,               \* of an issue
  Providers, Names,     \* of models, in a configuration
  CommandLines, Images, \* of a gate
  Paths,                \* in a workspace
  PathParts, Symbols,   \* of paths that a worker edits, and of texts
  Characters,           \* of the paths of a patch, and of patterns
  Binary,               \* the content of a file that is no text
  Sites                 \* that a search finds

\* What there is to pick from, for each call.
CONSTANTS Deliveries, Rounds, Loads, Requests, Diffs, Judgements, Jobs, Scopings, EditLists,
          Searches

VARIABLE probe

Forge == INSTANCE Forges
Models == INSTANCE Roles
Window == INSTANCE Context
Tools == INSTANCE Toolchain
Globs == INSTANCE Scope
Worker == INSTANCE Edits
Web == INSTANCE WebSearch

-----------------------------------------------------------------------------
(* Inputs as the program may be given them *)

ASSUME NamesAssumption == Bot \in People /\ None \notin Labels

\* Any act on any issue, for any forge.
ASSUME DeliveriesAssumption ==
  \A d \in Deliveries :
    /\ d.forge \in Forge!Configured /\ d.issue \in Forge!Issues(People)
    /\ d.act.by \in People /\ d.act \in Forge!Acts(d.issue, d.act.by)

\* What was said of the attempts of a round, of which there is one at least; a configuration,
\* and the attempts per round.
ASSUME RoundsAssumption == Rounds \subseteq Seq(Models!Reviews) \ {<<>>}
ASSUME LoadsAssumption == Loads \subseteq [cfg : Models!Configs(Providers, Names), attempts : Nat]

\* What the planner and then the worker asked to see of a workspace; a diff, and who shows it
\* to whom.
ASSUME RequestsAssumption ==
  Requests \subseteq [ws : [Paths -> Window!Contents], window : Nat, relevant : Seq(Paths),
                      turns : Seq(Seq(Paths))]
ASSUME DiffsAssumption == Diffs \subseteq [bytes : Nat, worker : Nat, reader : Nat]

\* What names images and commands; and a patch, with the commands that fail on it.
IsJob(job) ==
  /\ job.gate \in Tools!GateConfigs([Tools!Kinds -> Seq(CommandLines)], Nat)
  /\ \/ job.file \in [is : {"missing", "invalid"}]
     \/ job.file \in Tools!RepoConfigs(Images, [Tools!Kinds -> Seq(CommandLines)])
  /\ job.planner \in [image : Images, commands : [Tools!Kinds -> Seq(CommandLines)]]
  /\ job.restricted \in BOOLEAN

ASSUME JobsAssumption ==
  /\ \A job \in Jobs : IsJob(job)
  /\ \A j \in Judgements :
       /\ IsJob(j.job) /\ IsFiniteSet(j.changed)
       /\ \A f \in j.changed : f.inScope \in BOOLEAN /\ f.isTest \in BOOLEAN

\* The files that a patch changes, and the patterns they are allowed to match.
ASSUME ScopingsAssumption ==
  \A s \in Scopings : s.changed \subseteq Seq(Characters) /\ s.allowed \subseteq Seq(Characters)

\* A checkout without symbolic links, and what a worker wants done to it.
ASSUME EditListsAssumption ==
  \A e \in EditLists :
    /\ Worker!IsTree(e.ws, Seq(PathParts), Seq(Symbols)) /\ Worker!IsCheckout(e.ws)
    /\ e.edits \in Seq(Worker!EditsOf(Seq(PathParts), Seq(Symbols)))

\* A search service, and what it answers to the requests of each query.
ASSUME SearchesAssumption ==
  \A s \in Searches :
    LET Answers == Web!Pages(Sites) \cup {Web!Failed}
    IN  /\ s.engine \in Web!Engines
        /\ s.queries \in Seq(IF s.engine.provider = "duckduckgo" THEN [1 .. 3 -> Answers]
                             ELSE [1 .. 1 -> Answers])

-----------------------------------------------------------------------------
Calls == {"delivery", "reviews", "config", "files", "diff", "gate", "image", "scope", "edits",
          "search"}

\* The input of such a call is still to be picked.
To(call) == probe = [about |-> "nothing", call |-> call]

Pick(call, inputs) == To(call) /\ \E x \in inputs : probe' = [about |-> call, input |-> x]

ReceiveDelivery == Pick("delivery", Deliveries)
CompareReviews == Pick("reviews", Rounds)
LoadConfig == Pick("config", Loads)
OpenFiles == Pick("files", Requests)
ShowDiff == Pick("diff", Diffs)
JudgePatch == Pick("gate", Judgements)
ChooseImage == Pick("image", Jobs)
CheckScopes == Pick("scope", Scopings)
ApplyEdits == Pick("edits", EditLists)
SearchAll == Pick("search", Searches)

Init == \E call \in Calls : probe = [about |-> "nothing", call |-> call]

Next ==
  \/ ReceiveDelivery
  \/ CompareReviews
  \/ LoadConfig
  \/ OpenFiles
  \/ ShowDiff
  \/ JudgePatch
  \/ ChooseImage
  \/ CheckScopes
  \/ ApplyEdits
  \/ SearchAll

Spec == Init /\ [][Next]_probe

-----------------------------------------------------------------------------
(* What is made of them *)

\* A task is started only when somebody asked for it, whatever the forge reports in which
\* words (parse_webhook of three adapters, decide).
StartsAreAskedFor ==
  probe.about = "delivery" =>
    Forge!StartsAreAskedFor(probe.input.forge, probe.input.issue, probe.input.act)

\* Who asks for a task, or for it to stop, is heard on every forge (the same).
AsksAreHeard ==
  probe.about = "delivery" =>
    Forge!AsksAreHeard(probe.input.forge, probe.input.issue, probe.input.act)

\* Every call of an accepted configuration has its model, and the attempts are compared by
\* reviews that contradict neither themselves nor each other (validate, resolve, normalise,
\* rank).
RolesAreSound ==
  /\ probe.about = "reviews" => Models!BestIsSound(probe.input)
  /\ probe.about = "config" => Models!AcceptedConfigWorks(probe.input.cfg, probe.input.attempts)

\* Each request for files keeps to the budget that is planned for all of them, and several
\* requests to one each; the limits that are planned fit the window; and the diff that a
\* reader sees is cut as if it had been cut once, and not without need (ContextLimits,
\* open_files, merge_open_files, cap_diff).
ContextFits ==
  /\ probe.about = "files" =>
       Window!ShownFilesFit(probe.input.ws, probe.input.window, probe.input.relevant,
                            probe.input.turns)
  /\ probe.about = "diff" =>
       /\ Window!LimitsFit(probe.input.worker)
       /\ Window!DiffIsShown(probe.input.bytes, probe.input.worker, probe.input.reader)

\* What an attempt is judged with, and where, is what the strongest of the sources names that
\* names anything (plan, effective_gate_config, run_attempt, run_gate).
GateJudgesAsAsked ==
  /\ probe.about = "gate" =>
       Tools!GateJudgesAsAsked(probe.input.job, probe.input.changed, probe.input.broken)
  /\ probe.about = "image" => Tools!ImageIsTheOneAsked(probe.input)

\* What the gate lets pass lies where the planner's patterns say (match_from, check_scope).
ScopeIsPathwise ==
  probe.about = "scope" => Globs!ScopeIsPathwise(probe.input.changed, probe.input.allowed)

\* What the feedback says of a list of edits is what became of it (apply, Checkout).
EditsDoAsTheySay ==
  probe.about = "edits" => Worker!EditsDoAsTheySay(probe.input.ws, probe.input.edits)

\* A page found by any query of a worker is listed, once, and a query that fails costs the
\* others nothing (WebSearchEngine::search_all).
EachPageIsListedOnce ==
  probe.about = "search" => Web!EachPageIsListedOnce(probe.input.engine, probe.input.queries)
=============================================================================
