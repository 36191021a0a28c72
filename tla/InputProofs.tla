----------------------------- MODULE InputProofs -----------------------------
(***************************************************************************)
(* Proofs about the pure parts of gitai, for every input they may be       *)
(* given.  What holds of a call of a part is a lemma about the operators   *)
(* that model it; the theorems carry the lemmas over to the behaviours     *)
(* whose invariants TLC checks.                                            *)
(***************************************************************************)
EXTENDS Inputs, FiniteSetTheorems, WellFoundedInduction, SequenceTheorems, TLAPS

\* What was picked is an input of the call.
PickedRight ==
  /\ probe.about = "delivery" => probe.input \in Deliveries
  /\ probe.about = "reviews" => probe.input \in Rounds
  /\ probe.about = "config" => probe.input \in Loads
  /\ probe.about = "files" => probe.input \in Requests
  /\ probe.about = "diff" => probe.input \in Diffs
  /\ probe.about = "gate" => probe.input \in Judgements
  /\ probe.about = "image" => probe.input \in Jobs
  /\ probe.about = "scope" => probe.input \in Scopings
  /\ probe.about = "edits" => probe.input \in EditLists
  /\ probe.about = "search" => probe.input \in Searches

\* A call is given nothing but one of its inputs.
LEMMA InputsArePicked == Spec => []PickedRight
<1>1. Init => PickedRight
  BY DEF Init, PickedRight
<1>2. PickedRight /\ [Next]_probe => PickedRight'
  <2> SUFFICES ASSUME PickedRight, [Next]_probe PROVE PickedRight'
    OBVIOUS
  <2>0. ASSUME NEW call, NEW S, Pick(call, S)
        PROVE  \E x \in S : probe' = [about |-> call, input |-> x]
    BY <2>0 DEF Pick
  <2>1. CASE ReceiveDelivery
    BY <2>0, <2>1 DEF ReceiveDelivery, PickedRight
  <2>2. CASE CompareReviews
    BY <2>0, <2>2 DEF CompareReviews, PickedRight
  <2>3. CASE LoadConfig
    BY <2>0, <2>3 DEF LoadConfig, PickedRight
  <2>4. CASE OpenFiles
    BY <2>0, <2>4 DEF OpenFiles, PickedRight
  <2>5. CASE ShowDiff
    BY <2>0, <2>5 DEF ShowDiff, PickedRight
  <2>6. CASE JudgePatch
    BY <2>0, <2>6 DEF JudgePatch, PickedRight
  <2>7. CASE ChooseImage
    BY <2>0, <2>7 DEF ChooseImage, PickedRight
  <2>8. CASE CheckScopes
    BY <2>0, <2>8 DEF CheckScopes, PickedRight
  <2>9. CASE ApplyEdits
    BY <2>0, <2>9 DEF ApplyEdits, PickedRight
  <2>10. CASE SearchAll
    BY <2>0, <2>10 DEF SearchAll, PickedRight
  <2>11. CASE UNCHANGED probe
    BY <2>11 DEF PickedRight
  <2> QED BY <2>1, <2>2, <2>3, <2>4, <2>5, <2>6, <2>7, <2>8, <2>9, <2>10, <2>11 DEF Next
<1> QED BY <1>1, <1>2, PTL DEF Spec

-----------------------------------------------------------------------------
(* Deliveries: parse_webhook and decide *)

\* An act is of one of eight kinds, and says what it is about.
IsAct(issue, act) ==
  \/ act.kind \in {"edit", "close", "open"}
  \/ act.kind \in {"comment", "reword"} /\ act.text \in Forge!Texts
  \/ act.kind = "label" /\ act.label \in Labels \ issue.labels
  \/ act.kind = "unlabel" /\ act.label \in issue.labels

\* Whatever is done to an issue is such an act, and only its author opens it.
LEMMA ActsAreTyped ==
  ASSUME NEW issue \in Forge!Issues(People), NEW who, NEW act \in Forge!Acts(issue, who)
  PROVE  /\ IsAct(issue, act) /\ act.by = who
         /\ act.kind = "open" => who = issue.author
         /\ act.kind \in {"label", "unlabel"} => who # Bot \/ issue.pr
<1>1. CASE act \in {[by |-> who, kind |-> k] : k \in {"edit", "close", "open"}}
           /\ (act.kind = "open" => who = issue.author)
  BY <1>1 DEF IsAct
<1>2. CASE act \in {[by |-> who, kind |-> k, text |-> t] :
                      k \in {"comment", "reword"}, t \in Forge!Texts}
  BY <1>2 DEF IsAct
<1>3. CASE (who # Bot \/ issue.pr) /\ act \in {[by |-> who, kind |-> "label", label |-> l] :
                                              l \in Labels \ issue.labels}
  BY <1>3 DEF IsAct
<1>4. CASE (who # Bot \/ issue.pr) /\ act \in {[by |-> who, kind |-> "unlabel", label |-> l] :
                                              l \in issue.labels}
  BY <1>4 DEF IsAct
<1> QED BY <1>1, <1>2, <1>3, <1>4 DEF Forge!Acts

\* Only an act on a label changes the labels.
LEMMA LabelsAfter ==
  ASSUME NEW issue \in Forge!Issues(People), NEW act
  PROVE  /\ Forge!After(issue, act).pr = issue.pr
         /\ Forge!After(issue, act).author = issue.author
         /\ act.kind = "label" => Forge!After(issue, act).labels = issue.labels \cup {act.label}
         /\ act.kind = "unlabel" => Forge!After(issue, act).labels = issue.labels \ {act.label}
         /\ act.kind \notin {"label", "unlabel"} => Forge!After(issue, act).labels = issue.labels
BY DEF Forge!After, Forge!Issues

\* GitLab's adapter, without its parsing: what a delivery comes to, by what was done.
LEMMA GitLabHears ==
  ASSUME NEW forge \in Forge!Configured, NEW issue \in Forge!Issues(People), NEW who \in People,
         NEW act \in Forge!Acts(issue, who), forge.kind = "gitlab"
  PROVE  Forge!Answer(forge, issue, act) =
           IF Forge!IsBot(forge, act.by) \/ issue.pr THEN "ignore"
           ELSE IF act.kind \in {"comment", "reword"}
           THEN IF act.text = "chatter" THEN "ignore" ELSE act.text
           ELSE IF act.kind = "open" /\ forge.trigger \in issue.labels \cup {None} THEN "start"
           ELSE IF act.kind = "label" /\ forge.trigger \in {act.label, None} THEN "start"
           ELSE "ignore"
<1> DEFINE body == Forge!HookBody(issue, act)
           added == body.issue.labels \ body.before
           wanted == {l \in added : forge.trigger \in {None, l}}
           ev == Forge!Interpret(forge, body)
<1>1. /\ body.kind = IF act.kind \in {"comment", "reword"} THEN "note"
                     ELSE IF issue.pr THEN "merge_request" ELSE "issue"
      /\ body.action = IF act.kind \in {"open", "close"} THEN act.kind ELSE "update"
      /\ body.issue.pr = issue.pr /\ body.act = act /\ body.before = issue.labels
      /\ body.issue = Forge!After(issue, act)
  BY LabelsAfter DEF Forge!HookBody, Forge!IsComment
<1>2. IsAct(issue, act)
  BY ActsAreTyped
<1>3. Forge!Answer(forge, issue, act) = Forge!Decide(forge, ev)
  BY DEF Forge!Answer, Forge!Parse
<1>4. added = IF act.kind = "label" THEN {act.label} ELSE {}
  BY <1>1, <1>2, LabelsAfter DEF IsAct
<1>5. wanted = IF act.kind = "label" /\ forge.trigger \in {act.label, None} THEN {act.label} ELSE {}
  <2> HIDE DEF added
  <2> QED BY <1>4
<1>6. ev = IF Forge!IsBot(forge, act.by) THEN Forge!Ignored
           ELSE CASE body.kind = "note" /\ ~ issue.pr -> Forge!Comment(act)
                  [] body.kind = "issue" /\ body.action = "open" -> Forge!Opened(body.issue)
                  [] body.kind = "issue" /\ body.action = "update" /\ wanted # {} ->
                       Forge!Labeled(act.label)
                  [] OTHER -> Forge!Ignored
  <2> HIDE DEF body
  <2>1. wanted # {} => (CHOOSE l \in wanted : TRUE) = act.label
    <3> HIDE DEF wanted
    <3> QED BY <1>5
  <2> QED BY <1>1, <2>1 DEF Forge!Interpret
<1> HIDE DEF body, wanted, ev, added
<1>0. Forge!IsBot(forge, act.by) \in BOOLEAN /\ issue.pr \in BOOLEAN
  BY DEF Forge!IsBot, Forge!Issues
<1>7. CASE Forge!IsBot(forge, act.by) \/ issue.pr
  <2>1. issue.pr => body.kind # "issue"
    BY <1>1
  <2>2. ev = Forge!Ignored
    <3>1. CASE Forge!IsBot(forge, act.by)
      BY <1>6, <3>1
    <3>2. CASE issue.pr /\ ~ Forge!IsBot(forge, act.by)
      BY <1>6, <2>1, <3>2
    <3> QED BY <1>0, <1>7, <3>1, <3>2
  <2>3. Forge!Decide(forge, ev) = "ignore"
    BY <2>2 DEF Forge!Ignored, Forge!Decide
  <2> QED BY <1>0, <1>3, <1>7, <2>3
<1>8. CASE ~ Forge!IsBot(forge, act.by) /\ ~ issue.pr
  <2>1. CASE act.kind \in {"comment", "reword"}
    <3>1. ev = Forge!Comment(act) /\ act.text \in Forge!Texts
      BY <1>1, <1>2, <1>6, <1>8, <2>1 DEF IsAct
    <3> QED BY <1>3, <1>8, <2>1, <3>1 DEF Forge!Comment, Forge!Decide
  <2>2. CASE act.kind = "open"
    <3>1. ev = Forge!Opened(Forge!After(issue, act))
      BY <1>1, <1>6, <1>8, <2>2
    <3> QED BY <1>3, <1>8, <2>2, <3>1, LabelsAfter DEF Forge!Opened, Forge!Decide
  <2>3. CASE act.kind = "label"
    <3>1. ev = IF wanted # {} THEN Forge!Labeled(act.label) ELSE Forge!Ignored
      BY <1>1, <1>6, <1>8, <2>3
    <3> QED BY <1>3, <1>5, <1>8, <2>3, <3>1 DEF Forge!Labeled, Forge!Ignored, Forge!Decide
  <2>4. CASE act.kind \notin {"comment", "reword", "open", "label"}
    <3>1. ev = Forge!Ignored
      BY <1>1, <1>5, <1>6, <1>8, <2>4
    <3> QED BY <1>3, <1>8, <2>4, <3>1 DEF Forge!Ignored, Forge!Decide
  <2> QED BY <2>1, <2>2, <2>3, <2>4
<1> QED BY <1>7, <1>8

\* The same of the GitHub and Gitea adapters.
LEMMA OthersHear ==
  ASSUME NEW forge \in Forge!Configured, NEW issue \in Forge!Issues(People), NEW who \in People,
         NEW act \in Forge!Acts(issue, who), forge.kind # "gitlab"
  PROVE  Forge!Answer(forge, issue, act) =
           IF issue.pr THEN "ignore"
           ELSE IF act.kind = "comment"
                THEN IF Forge!IsBot(forge, act.by) \/ act.text = "chatter" THEN "ignore" ELSE act.text
           ELSE IF act.kind # "reword" /\ ~ Forge!IsBot(forge, issue.author) /\
                   \/ act.kind = "open" /\ forge.trigger \in issue.labels \cup {None}
                   \/ /\ forge.kind = "github" /\ act.kind = "label"
                      /\ forge.trigger \in {act.label, None}
                   \/ /\ forge.kind = "gitea" /\ act.kind \in {"label", "unlabel"}
                      /\ forge.trigger \in Forge!After(issue, act).labels
                THEN "start" ELSE "ignore"
<1> DEFINE ev == Forge!IssueEvent(forge, issue, act)
           read == Forge!MapIssueEvent(forge, ev)
           bot == Forge!IsBot(forge, act.by)
           own == Forge!IsBot(forge, issue.author)
<1>1. /\ ev.event = IF act.kind \in {"comment", "reword"} THEN "issue_comment"
                     ELSE IF issue.pr THEN "pull_request" ELSE "issues"
      /\ ev.action = Forge!Action(forge, act) /\ ev.act = act /\ ev.issue = Forge!After(issue, act)
      /\ ev.issue.pr = issue.pr /\ ev.issue.author = issue.author
  BY LabelsAfter DEF Forge!IssueEvent, Forge!IsComment
<1>2. IsAct(issue, act)
  BY ActsAreTyped
<1>3. Forge!Answer(forge, issue, act) = Forge!Decide(forge, read)
  BY DEF Forge!Answer, Forge!Parse
<1>4. /\ Forge!Action(forge, act) = "created" <=> act.kind = "comment"
      /\ Forge!Action(forge, act) = "opened" <=> act.kind = "open"
      /\ Forge!Action(forge, act) = "labeled" <=> act.kind = "label" /\ forge.kind = "github"
      /\ Forge!Action(forge, act) = "label_updated" <=>
           act.kind \in {"label", "unlabel"} /\ forge.kind = "gitea"
  <2>1. forge.kind \in {"github", "gitea"}
    BY DEF Forge!Configured
  <2>2. CASE act.kind = "label"
    BY <2>1, <2>2 DEF Forge!Action
  <2>3. CASE act.kind = "unlabel"
    BY <2>1, <2>3 DEF Forge!Action
  <2>4. CASE act.kind \in {"open", "close", "edit", "comment", "reword"}
    BY <2>4 DEF Forge!Action
  <2> QED BY <1>2, <2>2, <2>3, <2>4 DEF IsAct
<1>5. bot \in BOOLEAN /\ own \in BOOLEAN /\ issue.pr \in BOOLEAN
  BY DEF Forge!IsBot, Forge!Issues
<1>6. read = IF \/ issue.pr
                \/ act.kind \notin {"comment", "reword"} /\ own
                \/ act.kind = "comment" /\ bot
                \/ act.kind = "reword"
             THEN Forge!Ignored ELSE Forge!Read(forge, ev)
  <2> HIDE DEF ev
  <2> QED BY <1>1, <1>4, <1>5 DEF Forge!MapIssueEvent, Forge!IsIssue
<1>7. ~ issue.pr => Forge!Read(forge, ev) =
        CASE act.kind \in {"comment", "reword"} -> Forge!Comment(act)
          [] act.kind = "open" -> Forge!Opened(Forge!After(issue, act))
          [] act.kind = "label" /\ forge.kind = "github" -> Forge!Labeled(act.label)
          [] act.kind \in {"label", "unlabel"} /\ forge.kind = "gitea"
             /\ forge.trigger \in Forge!After(issue, act).labels -> Forge!Labeled(forge.trigger)
          [] OTHER -> Forge!Ignored
  <2> HIDE DEF ev
  <2> QED BY <1>1, <1>2, <1>4, <1>5 DEF Forge!Read, IsAct
<1> HIDE DEF ev, read, bot, own
<1>8. CASE issue.pr \/ (act.kind \notin {"comment", "reword"} /\ own)
           \/ (act.kind = "comment" /\ bot) \/ act.kind = "reword"
  <2>1. read = Forge!Ignored
    BY <1>6, <1>8
  <2>2. Forge!Decide(forge, read) = "ignore"
    BY <2>1 DEF Forge!Ignored, Forge!Decide
  <2> QED BY <1>3, <1>5, <1>8, <2>2 DEF bot, own
<1>9. CASE ~ issue.pr /\ act.kind = "comment" /\ ~ bot
  <2>1. read = Forge!Comment(act) /\ act.text \in Forge!Texts
    BY <1>2, <1>5, <1>6, <1>7, <1>9 DEF IsAct
  <2> QED BY <1>3, <1>9, <2>1 DEF Forge!Comment, Forge!Decide, bot
<1>10. CASE ~ issue.pr /\ act.kind = "open" /\ ~ own
  <2>1. read = Forge!Opened(Forge!After(issue, act))
    BY <1>5, <1>6, <1>7, <1>10
  <2> QED BY <1>3, <1>10, <2>1, LabelsAfter DEF Forge!Opened, Forge!Decide, own
<1>11. CASE ~ issue.pr /\ act.kind = "label" /\ forge.kind = "github" /\ ~ own
  <2>1. read = Forge!Labeled(act.label)
    BY <1>5, <1>6, <1>7, <1>11
  <2> QED BY <1>3, <1>11, <2>1 DEF Forge!Labeled, Forge!Decide, own
<1>12. CASE ~ issue.pr /\ act.kind \in {"label", "unlabel"} /\ forge.kind = "gitea" /\ ~ own
  <2>1. read = IF forge.trigger \in Forge!After(issue, act).labels THEN Forge!Labeled(forge.trigger)
               ELSE Forge!Ignored
    BY <1>5, <1>6, <1>7, <1>12
  <2> QED BY <1>3, <1>12, <2>1 DEF Forge!Labeled, Forge!Ignored, Forge!Decide, own
<1>13. CASE /\ ~ issue.pr /\ act.kind \notin {"comment", "reword", "open"} /\ ~ own
            /\ ~ (act.kind = "label" /\ forge.kind = "github")
            /\ ~ (act.kind \in {"label", "unlabel"} /\ forge.kind = "gitea")
  <2>1. read = Forge!Ignored
    BY <1>5, <1>6, <1>7, <1>13
  <2>2. Forge!Decide(forge, read) = "ignore"
    BY <2>1 DEF Forge!Ignored, Forge!Decide
  <2> QED BY <1>3, <1>13, <2>2 DEF own
<1> QED BY <1>5, <1>8, <1>9, <1>10, <1>11, <1>12, <1>13

\* So nothing starts a task but what asks for one.
LEMMA StartIsAskedFor ==
  ASSUME NEW forge \in Forge!Configured, NEW issue \in Forge!Issues(People), NEW who \in People,
         NEW act \in Forge!Acts(issue, who)
  PROVE  Forge!StartsAreAskedFor(forge, issue, act)
<1>1. IsAct(issue, act)
  BY ActsAreTyped
<1>2. forge.kind \in {"github", "gitea", "gitlab"} /\ forge.login \in BOOLEAN /\ issue.pr \in BOOLEAN
  BY DEF Forge!Configured, Forge!Issues
<1>3. CASE forge.kind = "gitlab"
  BY <1>1, <1>2, <1>3, GitLabHears DEF Forge!StartsAreAskedFor, Forge!Asks, Forge!IsBot, IsAct
<1>4. CASE forge.kind = "github"
  BY <1>1, <1>2, <1>4, OthersHear, ActsAreTyped
  DEF Forge!StartsAreAskedFor, Forge!Asks, Forge!IsBot, IsAct
<1>5. CASE forge.kind = "gitea"
  BY <1>1, <1>2, <1>5, OthersHear, LabelsAfter, ActsAreTyped
  DEF Forge!StartsAreAskedFor, Forge!Asks, Forge!IsBot, IsAct
<1> QED BY <1>2, <1>3, <1>4, <1>5

\* And what asks for one, or for it to stop, is heard.
LEMMA AskIsHeard ==
  ASSUME NEW forge \in Forge!Configured, NEW issue \in Forge!Issues(People), NEW who \in People,
         NEW act \in Forge!Acts(issue, who)
  PROVE  Forge!AsksAreHeard(forge, issue, act)
<1>1. IsAct(issue, act)
  BY ActsAreTyped
<1>2. forge.kind \in {"github", "gitea", "gitlab"} /\ forge.login \in BOOLEAN /\ issue.pr \in BOOLEAN
  BY DEF Forge!Configured, Forge!Issues
<1>3. CASE forge.kind = "gitlab"
  BY <1>1, <1>2, <1>3, GitLabHears DEF Forge!AsksAreHeard, Forge!Asks, Forge!IsBot,
     Forge!IsComment, IsAct
<1>4. CASE forge.kind = "github"
  BY <1>1, <1>2, <1>4, OthersHear DEF Forge!AsksAreHeard, Forge!Asks, Forge!IsBot,
     Forge!IsComment, IsAct
<1>5. CASE forge.kind = "gitea"
  BY <1>1, <1>2, <1>5, OthersHear, LabelsAfter DEF Forge!AsksAreHeard, Forge!Asks, Forge!IsBot,
     Forge!IsComment, IsAct
<1> QED BY <1>2, <1>3, <1>4, <1>5

\* A task is started only when somebody asked for it, on every forge, for every issue and whatever
\* is done to it (parse_webhook of three adapters, decide).
THEOREM StartsAreAsked == Spec => []StartsAreAskedFor
<1>1. PickedRight => StartsAreAskedFor
  BY DeliveriesAssumption, StartIsAskedFor DEF PickedRight, StartsAreAskedFor
<1> QED BY <1>1, InputsArePicked, PTL

\* Whoever asks for a task, or for it to stop, is heard (the same).
THEOREM AsksAreAlwaysHeard == Spec => []AsksAreHeard
<1>1. PickedRight => AsksAreHeard
  BY DeliveriesAssumption, AskIsHeard DEF PickedRight, AsksAreHeard
<1> QED BY <1>1, InputsArePicked, PTL

-----------------------------------------------------------------------------
(* Reviews: normalise and rank *)

\* A set of numbers has a smallest one.
LEMMA SmallestExists ==
  ASSUME NEW S \in SUBSET Nat, S # {}
  PROVE  \E x \in S : \A y \in S : x <= y
<1>1. PICK x \in S : \A y \in S : ~ (<<y, x>> \in OpToRel(<, Nat))
  BY NatLessThanWellFounded, WFMin
<1>2. \A y \in S : ~ (y < x)
  BY <1>1 DEF OpToRel
<1> QED BY <1>2

\* What min yields is the smallest.
LEMMA MinOfIs ==
  ASSUME NEW S, S \in SUBSET Int, NEW m \in S, \A x \in S : m <= x
  PROVE  Models!MinOf(S) = m
<1> DEFINE n == Models!MinOf(S)
<1>1. n \in S /\ \A x \in S : n <= x
  BY Zenon DEF Models!MinOf
<1> HIDE DEF n
<1>2. n \in Int /\ m \in Int /\ n <= m /\ m <= n
  BY <1>1
<1> QED BY <1>2 DEF n

\* Of numbers there always is one.
LEMMA MinOfNat ==
  ASSUME NEW S \in SUBSET Nat, S # {}
  PROVE  Models!MinOf(S) \in S /\ \A x \in S : Models!MinOf(S) <= x
<1>1. PICK m \in S : \A x \in S : m <= x
  BY SmallestExists
<1> QED BY <1>1, Zenon DEF Models!MinOf

\* A reviewer that crashed, or has something against the attempt.
Objects(review) == review.failed \/ review.verdict.blocking \/ ~ review.verdict.approved

\* What normalise and the engine keep of what a reviewer said.
IsReviewOf(r, review) ==
  /\ r.size = review.size /\ r.size \in Nat
  /\ r.verdict.score \in 0 .. 100
  /\ r.verdict.approved <=> ~ Objects(review)
  /\ Objects(review) => r.verdict.score <= 60
  /\ review.failed => r.verdict.score = 0
  /\ ~ review.failed /\ r.verdict.score = 0 => review.verdict.score = 0
  /\ ~ Objects(review) =>
       r.verdict.score = IF review.verdict.score > 100 THEN 100 ELSE review.verdict.score

\* What the engine makes of one review: only an approval scores more than 60.
LEMMA ReviewedAs ==
  ASSUME NEW D, NEW said \in [D -> Models!Reviews], NEW i \in D
  PROVE  IsReviewOf(Models!Reviewed(said)[i], said[i])
<1> DEFINE r == Models!Reviewed(said)[i]
           s == said[i]
           v == s.verdict
<1>1. s \in Models!Reviews
  OBVIOUS
<1>2. r = [verdict |-> IF s.failed THEN Models!Rejected ELSE Models!Normalise(v), size |-> s.size]
  BY DEF Models!Reviewed
<1> HIDE DEF r, s
<1>3. s.failed \in BOOLEAN /\ s.size \in Nat
  BY <1>1 DEF Models!Reviews
<1>4. CASE s.failed
  <2>1. /\ r.verdict = [approved |-> FALSE, score |-> 0, blocking |-> TRUE] /\ r.size = s.size
    BY <1>2, <1>4 DEF Models!Rejected
  <2>2. r.verdict.approved = FALSE /\ r.verdict.score = 0
    BY <2>1
  <2>3. IsReviewOf(r, s)
    BY <1>3, <1>4, <2>1, <2>2 DEF Objects, IsReviewOf
  <2> QED BY <2>3 DEF r, s
<1>5. CASE ~ s.failed
  <2>1. v \in Models!Verdicts
    BY <1>1, <1>5 DEF Models!Reviews
  <2>2. v.score \in 0 .. 255 /\ v.approved \in BOOLEAN /\ v.blocking \in BOOLEAN
    BY <2>1 DEF Models!Verdicts
  <2>3. r.verdict = Models!Normalise(v) /\ r.size = s.size
    BY <1>2, <1>5
  <2> HIDE DEF v
  <2>4. CASE v.approved /\ ~ v.blocking
    <3> DEFINE m == IF v.score > 100 THEN 100 ELSE v.score
               S == {v.score, 100} \cup {}
    <3>1. S \in SUBSET Int
      BY <2>2
    <3>2. m \in S /\ \A x \in S : m <= x
      BY <2>2
    <3>3. Models!MinOf(S) = m
      <4> HIDE DEF m, S
      <4> QED BY <3>1, <3>2, MinOfIs
    <3>4. r.verdict.approved = TRUE /\ r.verdict.score = Models!MinOf(S)
      BY <2>1, <2>2, <2>3, <2>4 DEF Models!Normalise, Models!Verdicts
    <3>5. ~ Objects(s)
      BY <1>5, <2>4 DEF Objects, v
    <3>6. r.verdict.score = IF v.score > 100 THEN 100 ELSE v.score
      BY <3>3, <3>4
    <3>7. IsReviewOf(r, s)
      <4> HIDE DEF m, S
      <4> QED BY <1>3, <1>5, <2>2, <2>3, <3>4, <3>5, <3>6 DEF IsReviewOf, v
    <3> QED BY <3>7 DEF r, s
  <2>5. CASE ~ (v.approved /\ ~ v.blocking)
    <3> DEFINE m == IF v.score > 60 THEN 60 ELSE v.score
               S == {v.score, 100} \cup {60}
    <3>1. S \in SUBSET Int
      BY <2>2
    <3>2. m \in S /\ \A x \in S : m <= x
      BY <2>2
    <3>3. Models!MinOf(S) = m
      <4> HIDE DEF m, S
      <4> QED BY <3>1, <3>2, MinOfIs
    <3>4. r.verdict.approved = FALSE /\ r.verdict.score = Models!MinOf(S)
      BY <2>1, <2>2, <2>3, <2>5 DEF Models!Normalise, Models!Verdicts
    <3>5. Objects(s)
      BY <2>2, <2>5 DEF Objects, v
    <3>6. r.verdict.score = IF v.score > 60 THEN 60 ELSE v.score
      BY <3>3, <3>4
    <3>7. IsReviewOf(r, s)
      <4> HIDE DEF m, S
      <4> QED BY <1>3, <1>5, <2>2, <2>3, <3>4, <3>5, <3>6 DEF IsReviewOf, v
    <3> QED BY <3>7 DEF r, s
  <2> QED BY <2>4, <2>5
<1> QED BY <1>3, <1>4, <1>5

\* One that is not outranked scored more, or no less with a diff that is no larger.
LEMMA NotOutranked ==
  ASSUME NEW a, NEW b, a.verdict.score \in Int, b.verdict.score \in Int, a.size \in Int,
         b.size \in Int
  PROVE  ~ Models!Outranks(a, b) <=>
           /\ a.verdict.score <= b.verdict.score
           /\ a.verdict.score = b.verdict.score => b.size <= a.size
BY DEF Models!Outranks

\* Some attempt is not outranked.
LEMMA SomeIsNotOutranked ==
  ASSUME NEW D, D # {}, NEW rev,
         \A i \in D : rev[i].verdict.score \in 0 .. 100 /\ rev[i].size \in Nat
  PROVE  \E i \in D : \A k \in D : ~ Models!Outranks(rev[k], rev[i])
<1> DEFINE score(i) == rev[i].verdict.score
           Lacks == {100 - score(i) : i \in D}
<1>1. ASSUME NEW i \in D PROVE score(i) \in 0 .. 100 /\ rev[i].size \in Nat
  OBVIOUS
<1> HIDE DEF score
<1>2. Lacks \in SUBSET Nat /\ Lacks # {}
  <2>1. ASSUME NEW i \in D PROVE 100 - score(i) \in Nat
    BY <1>1
  <2> QED BY <2>1
<1>3. PICK least \in Lacks : \A x \in Lacks : least <= x
  <2> HIDE DEF Lacks
  <2> QED BY <1>2, SmallestExists
<1> DEFINE Top == {i \in D : 100 - score(i) = least}
           Sizes == {rev[i].size : i \in Top}
<1>4. Sizes \in SUBSET Nat /\ Sizes # {}
  BY <1>1, <1>3
<1>5. PICK size \in Sizes : \A x \in Sizes : size <= x
  <2> HIDE DEF Sizes
  <2> QED BY <1>4, SmallestExists
<1>6. PICK i \in Top : rev[i].size = size
  BY <1>5
<1>7. i \in D /\ least = 100 - score(i)
  BY <1>6
<1>8. ASSUME NEW k \in D PROVE ~ Models!Outranks(rev[k], rev[i])
  <2>1. least <= 100 - score(k)
    BY <1>3
  <2>2. score(k) <= score(i)
    BY <1>1, <1>7, <2>1
  <2>3. score(k) = score(i) => size <= rev[k].size
    BY <1>5, <1>7
  <2>4. rev[i].size = size /\ rev[i].verdict.score \in Int /\ rev[k].verdict.score \in Int
        /\ rev[i].size \in Int /\ rev[k].size \in Int
    BY <1>1, <1>6, <1>7, SMTT(20) DEF score
  <2>5. rev[k].verdict.score <= rev[i].verdict.score
        /\ (rev[k].verdict.score = rev[i].verdict.score => rev[i].size <= rev[k].size)
    BY <2>2, <2>3, <2>4 DEF score
  <2> QED BY <2>4, <2>5, NotOutranked
<1> QED BY <1>7, <1>8

\* So there is a best one.
LEMMA BestExists ==
  ASSUME NEW D, NEW rev, D = DOMAIN rev, D \in SUBSET Nat,
         \E i \in D : \A k \in D : ~ Models!Outranks(rev[k], rev[i])
  PROVE  /\ Models!Best(rev) \in D
         /\ \A k \in D : ~ Models!Outranks(rev[k], rev[Models!Best(rev)])
<1> DEFINE Bests == {j \in DOMAIN rev : \A k \in DOMAIN rev : ~ Models!Outranks(rev[k], rev[j])}
<1>1. Bests \in SUBSET Nat /\ Bests # {}
  OBVIOUS
<1>2. Models!MinOf(Bests) \in Bests
  <2> HIDE DEF Bests
  <2> QED BY <1>1, MinOfNat
<1> QED BY <1>2 DEF Models!Best

\* An attempt that nobody objects to was reviewed by a reviewer that answered.
LEMMA ReviewsAreTyped ==
  ASSUME NEW s \in Models!Reviews
  PROVE  /\ s.failed \in BOOLEAN
         /\ ~ s.failed => s.verdict.score \in Nat
         /\ ~ Objects(s) => ~ s.failed
<1>1. CASE s \in [failed : {FALSE}, verdict : Models!Verdicts, size : Nat]
  <2>1. s.failed = FALSE /\ s.verdict \in Models!Verdicts
    BY <1>1
  <2>2. s.verdict.score \in 0 .. 255
    BY <2>1, Zenon DEF Models!Verdicts
  <2>3. s.verdict.score \in Nat
    BY <2>2
  <2> QED BY <2>1, <2>3
<1>2. CASE s \in [failed : {TRUE}, size : Nat]
  <2>1. s.failed = TRUE
    BY <1>2
  <2> QED BY <2>1 DEF Objects
<1> QED BY <1>1, <1>2 DEF Models!Reviews

\* The best of a round is none that crashed, or was objected to, while another did better.
BestOfReviews(D, said, rev, b) ==
  /\ said[b].failed => \A i \in D : said[i].failed \/ said[i].verdict.score = 0
  /\ Objects(said[b]) => /\ ~ rev[b].verdict.approved
                        /\ \A i \in D : ~ Objects(said[i]) => said[i].verdict.score <= 60

\* One that is not outranked is such a best one.
LEMMA SoundAmong ==
  ASSUME NEW D, NEW said, NEW rev, NEW b \in D,
         \A i \in D : IsReviewOf(rev[i], said[i]),
         \A i \in D : /\ said[i].failed \in BOOLEAN
                      /\ ~ said[i].failed => said[i].verdict.score \in Nat
                      /\ ~ Objects(said[i]) => ~ said[i].failed,
         \A k \in D : ~ Models!Outranks(rev[k], rev[b])
  PROVE  BestOfReviews(D, said, rev, b)
<1>1. ASSUME NEW i \in D PROVE rev[i].verdict.score \in 0 .. 100 /\ rev[i].size \in Nat
  BY DEF IsReviewOf
<1>2. ASSUME NEW i \in D PROVE rev[i].verdict.score <= rev[b].verdict.score
  <2>1. /\ rev[i].verdict.score \in Int /\ rev[i].size \in Int
        /\ rev[b].verdict.score \in Int /\ rev[b].size \in Int
    BY <1>1
  <2> QED BY <2>1, NotOutranked
<1>3. ASSUME said[b].failed, NEW i \in D, ~ said[i].failed PROVE said[i].verdict.score = 0
  <2>1. rev[b].verdict.score = 0
    BY <1>3 DEF IsReviewOf
  <2>2. rev[i].verdict.score = 0
    BY <1>1, <1>2, <2>1
  <2> QED BY <1>3, <2>2 DEF IsReviewOf
<1>4. ASSUME Objects(said[b]) PROVE rev[b].verdict.score <= 60 /\ ~ rev[b].verdict.approved
  BY <1>4 DEF IsReviewOf
<1>5. ASSUME Objects(said[b]), NEW i \in D, ~ Objects(said[i]) PROVE said[i].verdict.score <= 60
  <2>1. rev[i].verdict.score <= 60
    <3>1. rev[i].verdict.score \in Int /\ rev[b].verdict.score \in Int
      BY <1>1
    <3> QED BY <3>1, <1>2, <1>4, <1>5
  <2>2. rev[i].verdict.score = IF said[i].verdict.score > 100 THEN 100 ELSE said[i].verdict.score
    BY <1>5 DEF IsReviewOf
  <2>3. said[i].verdict.score \in Nat
    BY <1>5
  <2> QED BY <2>1, <2>2, <2>3
<1>6. \A i \in D : said[i].failed \in BOOLEAN
  OBVIOUS
<1> QED BY <1>3, <1>4, <1>5, <1>6 DEF BestOfReviews

\* The attempt that rank puts first is sound, whatever the reviewers said.
LEMMA BestAttemptIsSound ==
  ASSUME NEW said \in Seq(Models!Reviews) \ {<<>>}
  PROVE  Models!BestIsSound(said)
<1> DEFINE D == DOMAIN said
           rev == Models!Reviewed(said)
           b == Models!Best(rev)
<1>1. D \in SUBSET Nat /\ D # {} /\ said \in [D -> Models!Reviews]
  <2>1. D = 1 .. Len(said) /\ Len(said) \in Nat
    OBVIOUS
  <2>2. D # {}
    <3>1. Len(said) # 0
      BY EmptySeq
    <3>2. 1 \in 1 .. Len(said)
      BY <2>1, <3>1
    <3> QED BY <2>1, <3>2
  <2>3. said \in [D -> Models!Reviews]
    OBVIOUS
  <2> QED BY <2>1, <2>2, <2>3
<1>2. D = DOMAIN rev
  BY DEF Models!Reviewed
<1>3. \A i \in D : IsReviewOf(rev[i], said[i])
  <2> HIDE DEF D
  <2> QED BY <1>1, ReviewedAs
<1>4. \A i \in D : /\ said[i].failed \in BOOLEAN
                   /\ ~ said[i].failed => said[i].verdict.score \in Nat
                   /\ ~ Objects(said[i]) => ~ said[i].failed
  <2> TAKE i \in D
  <2>1. said[i] \in Models!Reviews
    BY <1>1
  <2>2. \A s \in Models!Reviews : /\ s.failed \in BOOLEAN
                                  /\ ~ s.failed => s.verdict.score \in Nat
                                  /\ ~ Objects(s) => ~ s.failed
    BY ReviewsAreTyped
  <2> QED BY <2>1, <2>2
<1>5. b \in D /\ \A k \in D : ~ Models!Outranks(rev[k], rev[b])
  <2> HIDE DEF rev, D
  <2>1. \A i \in D : rev[i].verdict.score \in 0 .. 100 /\ rev[i].size \in Nat
    BY <1>3 DEF IsReviewOf
  <2>2. \E i \in D : \A k \in D : ~ Models!Outranks(rev[k], rev[i])
    BY <1>1, <2>1, SomeIsNotOutranked
  <2> QED BY <1>1, <1>2, <2>2, BestExists DEF b
<1>6. BestOfReviews(D, said, rev, b)
  <2> HIDE DEF b, rev, D
  <2> QED BY <1>3, <1>4, <1>5, SoundAmong
<1> QED BY <1>6 DEF BestOfReviews, Models!BestIsSound, Objects

-----------------------------------------------------------------------------
(* Configuration: validate, resolve and the shares of the workers *)

\* Division with remainder.
LEMMA DivMod ==
  ASSUME NEW a \in Int, NEW w \in Nat, w > 0
  PROVE  a = w * (a \div w) + (a % w) /\ a % w \in 0 .. w - 1 /\ a \div w \in Int
OBVIOUS

\* A multiple is no less.
LEMMA AtLeastOnce == ASSUME NEW p \in Int, p >= 1, NEW w \in Nat, w > 0
  PROVE  w * p >= w
OBVIOUS

\* The remainder is the one that fits.
LEMMA ModIs == ASSUME NEW a \in Nat, NEW w \in Nat, w > 0, NEW q \in Int, NEW r \in 0 .. w - 1,
   a = w * q + r
  PROVE  a % w = r
<1> DEFINE d == a \div w
           m == a % w
<1>1. a = w * d + m /\ m \in 0 .. w - 1 /\ d \in Int
  BY DivMod
<1> HIDE DEF d, m
<1>2. w * (d - q) = r - m
  BY <1>1
<1>3. ~ (d - q >= 1)
  <2>1. d - q >= 1 => w * (d - q) >= w
    BY <1>1, AtLeastOnce
  <2> QED BY <1>1, <1>2, <2>1
<1>4. ~ (q - d >= 1)
  <2>1. q - d >= 1 => w * (q - d) >= w
    BY <1>1, AtLeastOnce
  <2>2. w * (q - d) = m - r
    BY <1>1
  <2> QED BY <1>1, <2>2, <2>1
<1>5. d = q
  BY <1>1, <1>3, <1>4
<1>6. m = r
  BY <1>1, <1>5
<1> QED BY <1>6 DEF m

\* Of the first n numbers, those of one remainder are at most one more than those of another:
\* moving each of them by the difference of the remainders is an injection into the others,
\* but for at most one.
LEMMA SharesAreEven ==
  ASSUME NEW n \in Nat, NEW w \in Nat, w > 0, NEW c \in 0 .. w - 1, NEW d \in 0 .. w - 1
  PROVE  Cardinality({i \in 0 .. n - 1 : i % w = c}) <= Cardinality({i \in 0 .. n - 1 : i % w = d}) + 1
<1> DEFINE S == {i \in 0 .. n - 1 : i % w = c}
           T == {i \in 0 .. n - 1 : i % w = d}
           f == [i \in S \ {c} |-> i - w - c + d]
<1>1. IsFiniteSet(S) /\ IsFiniteSet(T)
  <2>1. IsFiniteSet(0 .. n - 1)
    BY FS_Interval
  <2> QED BY <2>1, FS_Subset
<1>2. ASSUME NEW i \in S \ {c} PROVE i - w - c + d \in T
  <2> DEFINE q == i \div w
  <2>1. i = w * q + c /\ q \in Int /\ i \in Nat /\ i <= n - 1
    BY DivMod
  <2> HIDE DEF q
  <2>2. q >= 1
    <3>1. q # 0
      BY <2>1
    <3>2. - q >= 1 => w * (- q) >= w
      BY <2>1, AtLeastOnce
    <3>3. w * (- q) = - (w * q)
      BY <2>1
    <3>4. w * q \in Int
      BY <2>1
    <3> QED BY <2>1, <3>1, <3>2, <3>3, <3>4
  <2>3. i - w - c + d = w * (q - 1) + d
    BY <2>1
  <2>4. w * (q - 1) \in Nat
    <3>1. q - 1 \in Nat
      BY <2>1, <2>2
    <3> QED BY <3>1
  <2>5. i - w - c + d \in 0 .. n - 1
    BY <2>1, <2>3, <2>4
  <2>6. (i - w - c + d) % w = d
    <3> DEFINE a == i - w - c + d
    <3>1. a \in Nat /\ a = w * (q - 1) + d /\ q - 1 \in Int
      BY <2>1, <2>3, <2>5
    <3> HIDE DEF a
    <3>2. a % w = d
      BY <3>1, ModIs
    <3> QED BY <3>2 DEF a
  <2> QED BY <2>5, <2>6
<1>3. f \in Injection(S \ {c}, T)
  <2>1. f \in [S \ {c} -> T]
    BY <1>2
  <2>2. \A i, k \in S \ {c} : f[i] = f[k] => i = k
    OBVIOUS
  <2> HIDE DEF f, S, T
  <2> QED BY <2>1, <2>2 DEF Injection, IsInjective
<1> HIDE DEF f, S, T
<1>4. Cardinality(S \ {c}) <= Cardinality(T)
  BY <1>1, <1>3, FS_Injection
<1>5. Cardinality(S \ {c}) = IF c \in S THEN Cardinality(S) - 1 ELSE Cardinality(S)
  BY <1>1, FS_RemoveElement
<1>6. Cardinality(S) \in Nat /\ Cardinality(T) \in Nat
  BY <1>1, FS_CardinalityType
<1>7. Cardinality(S) <= Cardinality(T) + 1
  BY <1>4, <1>5, <1>6
<1> QED BY <1>7 DEF S, T

\* The index of an attempt picks one of the workers.
LEMMA IndexInList ==
  ASSUME NEW i \in Nat, NEW w \in Nat, w > 0
  PROVE  i % w \in 0 .. w - 1 /\ 1 + (i % w) \in 1 .. w
BY DivMod

\* Whichever place in the list: where its worker starts does not matter.
LEMMA SharesOfPlaces ==
  ASSUME NEW n \in Nat, NEW w \in Nat, w > 0, NEW j \in 1 .. w, NEW k \in 1 .. w
  PROVE  Cardinality({i \in 0 .. n - 1 : 1 + (i % w) = j})
           <= Cardinality({i \in 0 .. n - 1 : 1 + (i % w) = k}) + 1
<1>1. \A i \in 0 .. n - 1 : i % w \in Int
  BY IndexInList
<1>2. {i \in 0 .. n - 1 : 1 + (i % w) = j} = {i \in 0 .. n - 1 : i % w = j - 1}
  BY <1>1
<1>3. {i \in 0 .. n - 1 : 1 + (i % w) = k} = {i \in 0 .. n - 1 : i % w = k - 1}
  BY <1>1
<1>4. j - 1 \in 0 .. w - 1 /\ k - 1 \in 0 .. w - 1
  OBVIOUS
<1>5. Cardinality({i \in 0 .. n - 1 : i % w = j - 1})
        <= Cardinality({i \in 0 .. n - 1 : i % w = k - 1}) + 1
  BY <1>4, SharesAreEven, Zenon
<1> QED BY <1>2, <1>3, <1>5, Zenon

\* Roles counts as everybody does.
LEMMA SameCardinality ==
  ASSUME NEW S
  PROVE  Models!Cardinality(S) = Cardinality(S)
BY DEF Models!Cardinality, Cardinality

\* A configuration that validate accepts has a model for every call, and shares its attempts out
\* evenly.
LEMMA AcceptedConfigsWork ==
  ASSUME NEW cfg \in Models!Configs(Providers, Names), NEW n \in Nat
  PROVE  Models!AcceptedConfigWorks(cfg, n)
<1>1. ASSUME Models!Validate(cfg)
      PROVE  /\ \A role \in DOMAIN cfg.roles : Models!Resolves(cfg, cfg.roles[role])
             /\ Models!HasWorkerModel(cfg)
             /\ \A i \in 0 .. n - 1 : Models!Resolves(cfg, Models!WorkerModel(cfg, i))
             /\ \A j, k \in DOMAIN cfg.worker :
                  Cardinality({i \in 0 .. n - 1 : 1 + (i % Len(cfg.worker)) = j})
                    <= Cardinality({i \in 0 .. n - 1 : 1 + (i % Len(cfg.worker)) = k}) + 1
  <2> DEFINE list == cfg.worker
             w == Len(list)
  <2>1. list \in Seq(Names)
    BY DEF Models!Configs
  <2>2. list # <<>> /\ Range(list) \subseteq DOMAIN cfg.models
        /\ Range(cfg.roles) \subseteq DOMAIN cfg.models
        /\ \A m \in DOMAIN cfg.models : cfg.models[m].provider \in cfg.providers
    BY <1>1 DEF Models!Validate, Models!Range, Range
  <2>3. \A m \in DOMAIN cfg.models : Models!Resolves(cfg, m)
    BY <2>2 DEF Models!Resolves
  <2> HIDE DEF list
  <2>4. w \in Nat /\ w > 0 /\ DOMAIN list = 1 .. w
    BY <2>1, <2>2, EmptySeq
  <2>5. \A role \in DOMAIN cfg.roles : Models!Resolves(cfg, cfg.roles[role])
    BY <2>2, <2>3 DEF Range
  <2>6. Models!HasWorkerModel(cfg)
    BY <2>4 DEF Models!HasWorkerModel, list
  <2> HIDE DEF w
  <2>7. ASSUME NEW i \in 0 .. n - 1 PROVE Models!Resolves(cfg, list[1 + (i % w)])
    <3>1. 1 + (i % w) \in 1 .. w
      BY <2>4, IndexInList
    <3>2. list[1 + (i % w)] \in Range(list)
      BY <2>4, <3>1 DEF Range
    <3> QED BY <2>2, <2>3, <3>2
  <2>8. \A j, k \in 1 .. w : Cardinality({i \in 0 .. n - 1 : 1 + (i % w) = j})
                               <= Cardinality({i \in 0 .. n - 1 : 1 + (i % w) = k}) + 1
    BY <2>4, SharesOfPlaces
  <2> QED BY <2>4, <2>5, <2>6, <2>7, <2>8 DEF Models!WorkerModel, w, list
<1> QED BY <1>1, SameCardinality, Zenon DEF Models!AcceptedConfigWorks

\* Whatever the reviewers say, of however many attempts, the best attempt is sound, and whatever
\* configuration is accepted works (normalise, rank, validate, resolve).
THEOREM RolesAreAlwaysSound == Spec => []RolesAreSound
<1>1. PickedRight => RolesAreSound
  <2> SUFFICES ASSUME PickedRight PROVE RolesAreSound
    OBVIOUS
  <2>1. probe.about = "reviews" => Models!BestIsSound(probe.input)
    BY RoundsAssumption, BestAttemptIsSound DEF PickedRight
  <2>2. probe.about = "config" => Models!AcceptedConfigWorks(probe.input.cfg, probe.input.attempts)
    BY LoadsAssumption, AcceptedConfigsWork DEF PickedRight
  <2> QED BY <2>1, <2>2 DEF RolesAreSound
<1> QED BY <1>1, InputsArePicked, PTL

-----------------------------------------------------------------------------
(* Iteration: what a fold makes of a finite set or a sequence *)

\* What a fold does with the elements of D: for each part of D, what comes of taking the one
\* that is picked after all others.
IsIteration(it, D, X, x0, picked, step) ==
  /\ it \in [SUBSET D -> X]
  /\ \A T \in SUBSET D : it[T] = IF T = {} THEN x0 ELSE step[<<picked[T], it[T \ {picked[T]}]>>]

\* There is such a function, and not only a relation: an iteration over a part of D with one
\* element more continues the ones over less, and there is none that has no predecessor.
LEMMA IterationExists ==
  ASSUME NEW D, IsFiniteSet(D), NEW X, NEW x0 \in X, NEW step \in [D \X X -> X],
         NEW picked, \A T \in SUBSET D : T # {} => picked[T] \in T
  PROVE  \E it : IsIteration(it, D, X, x0, picked, step)
<1> DEFINE Next1(it, T) == IF T = {} THEN x0 ELSE step[<<picked[T], it[T \ {picked[T]}]>>]
           UpToSize(it, k) == it \in [SUBSET D -> X]
                              /\ \A T \in SUBSET D : Cardinality(T) <= k => it[T] = Next1(it, T)
           Missing == {k \in Nat : ~ \E it : UpToSize(it, k)}
<1>1. ASSUME NEW T \in SUBSET D
      PROVE  /\ IsFiniteSet(T) /\ Cardinality(T) \in Nat
             /\ Cardinality(T) = 0 <=> T = {}
             /\ T # {} => /\ T \ {picked[T]} \in SUBSET D
                          /\ Cardinality(T \ {picked[T]}) = Cardinality(T) - 1
  <2>1. IsFiniteSet(T)
    BY FS_Subset
  <2> QED BY <2>1, FS_CardinalityType, FS_EmptySet, FS_RemoveElement
<1>2. ASSUME NEW it \in [SUBSET D -> X], NEW T \in SUBSET D PROVE Next1(it, T) \in X
  BY <1>1
<1> HIDE DEF Next1
<1>3. Missing = {}
  <2> SUFFICES ASSUME Missing # {} PROVE FALSE
    OBVIOUS
  <2>0. Missing \in SUBSET Nat
    OBVIOUS
  <2>1. PICK k \in Missing : \A j \in Missing : k <= j
    <3> HIDE DEF Missing
    <3> QED BY <2>0, SmallestExists
  <2>2. CASE k = 0
    <3> DEFINE it == [T \in SUBSET D |-> x0]
    <3>1. \A T \in SUBSET D : Cardinality(T) <= 0 => T = {}
      <4> TAKE T \in SUBSET D
      <4>1. Cardinality(T) \in Nat /\ (Cardinality(T) = 0 <=> T = {})
        BY <1>1
      <4> QED BY <4>1
    <3>2. UpToSize(it, 0)
      BY <3>1 DEF Next1
    <3> HIDE DEF it, UpToSize
    <3> QED BY <2>1, <2>2, <3>2
  <2>3. CASE k > 0
    <3>1. PICK old : UpToSize(old, k - 1)
      <4>1. k - 1 \in Nat /\ k - 1 \notin Missing
        <5> HIDE DEF Missing
        <5>1. k \in Nat
          BY <2>0, <2>1
        <5>2. ~ (k <= k - 1)
          BY <5>1
        <5> QED BY <2>1, <2>3, <5>1, <5>2
      <4> HIDE DEF UpToSize
      <4> QED BY <4>1
    <3> DEFINE it == [T \in SUBSET D |-> Next1(old, T)]
    <3>2. it \in [SUBSET D -> X]
      BY <1>2, <3>1
    <3>3. ASSUME NEW T \in SUBSET D, Cardinality(T) <= k PROVE it[T] = Next1(it, T)
      <4>1. CASE T = {}
        BY <4>1 DEF Next1
      <4>2. CASE T # {}
        <5> DEFINE U == T \ {picked[T]}
        <5>1. U \in SUBSET D /\ Cardinality(U) <= k - 1
          <6>1. Cardinality(T) \in Nat /\ U \in SUBSET D /\ Cardinality(U) = Cardinality(T) - 1
            BY <1>1, <4>2
          <6>2. k \in Nat
            BY <2>0, <2>1
          <6> HIDE DEF U
          <6> QED BY <3>3, <6>1, <6>2
        <5>2. it[U] = old[U]
          BY <3>1, <5>1
        <5> HIDE DEF it
        <5>3. it[T] = Next1(old, T)
          BY DEF it
        <5> QED BY <4>2, <5>2, <5>3 DEF Next1
      <4> QED BY <4>1, <4>2
    <3>4. UpToSize(it, k)
      BY <3>2, <3>3
    <3> HIDE DEF it, UpToSize
    <3> QED BY <2>1, <3>4
  <2> QED BY <2>1, <2>2, <2>3
<1>4. PICK it : UpToSize(it, Cardinality(D))
  <2>1. Cardinality(D) \in Nat
    BY FS_CardinalityType
  <2> HIDE DEF UpToSize
  <2> QED BY <1>3, <2>1
<1>5. ASSUME NEW T \in SUBSET D PROVE it[T] = Next1(it, T)
  <2>1. Cardinality(T) <= Cardinality(D)
    BY FS_Subset
  <2> QED BY <1>4, <2>1
<1> QED BY <1>4, <1>5 DEF IsIteration, Next1

\* The last of the first n numbers.
LEMMA LastIsMax ==
  ASSUME NEW n \in Nat
  PROVE  /\ \A T \in SUBSET (1 .. n) : T # {} => Window!Max(T) \in T
         /\ n > 0 => Window!Max(1 .. n) = n
<1>1. ASSUME NEW T \in SUBSET (1 .. n), NEW m \in T, \A x \in T : x <= m PROVE Window!Max(T) = m
  <2>1. m \in T /\ \A x \in T : m >= x
    BY <1>1
  <2>2. Window!Max(T) \in T /\ \A x \in T : Window!Max(T) >= x
    BY <2>1, Zenon DEF Window!Max
  <2> DEFINE max == Window!Max(T)
  <2>3. max \in T /\ (\A x \in T : max >= x)
    BY <2>2
  <2>4. \A x \in T : x \in Int
    OBVIOUS
  <2> HIDE DEF max
  <2>5. max \in Int /\ m \in Int /\ max >= m /\ m >= max
    BY <2>1, <2>3, <2>4
  <2>6. max = m
    BY <2>5
  <2> QED BY <2>6 DEF max
<1>2. ASSUME NEW T \in SUBSET (1 .. n), T # {} PROVE \E m \in T : \A x \in T : x <= m
  <2> DEFINE Rest == {n - x : x \in T}
  <2>1. Rest \in SUBSET Nat /\ Rest # {}
    <3>1. \A x \in T : n - x \in Nat
      OBVIOUS
    <3> QED BY <1>2, <3>1
  <2>2. PICK r \in Rest : \A s \in Rest : r <= s
    <3> HIDE DEF Rest
    <3> QED BY <2>1, SmallestExists
  <2>3. PICK m \in T : r = n - m
    BY <2>2
  <2>4. ASSUME NEW x \in T PROVE x <= m
    <3>1. n - m <= n - x
      BY <2>2, <2>3
    <3>2. n \in Int /\ m \in Int /\ x \in Int
      OBVIOUS
    <3> QED BY <3>1, <3>2
  <2> QED BY <2>4
<1>3. ASSUME NEW T \in SUBSET (1 .. n), T # {} PROVE Window!Max(T) \in T
  <2>1. PICK m \in T : \A x \in T : x <= m
    BY <1>2, <1>3
  <2>2. Window!Max(T) = m
    BY <1>1, <2>1
  <2> QED BY <2>1, <2>2
<1>4. ASSUME n > 0 PROVE Window!Max(1 .. n) = n
  <2> DEFINE T == 1 .. n
  <2>1. T \in SUBSET (1 .. n) /\ n \in T /\ \A x \in T : x <= n
    BY <1>4
  <2> HIDE DEF T
  <2>2. Window!Max(T) = n
    BY <1>1, <2>1
  <2> QED BY <2>2 DEF T
<1> QED BY <1>3, <1>4

\* A fold over n elements takes them one after another.
Largest(n) == [T \in SUBSET (1 .. n) |-> Window!Max(T)]

\* Such a fold exists, for any step that stays within its set.
LEMMA FoldExists ==
  ASSUME NEW n \in Nat, NEW X, NEW x0 \in X, NEW step \in [(1 .. n) \X X -> X]
  PROVE  \E it : IsIteration(it, 1 .. n, X, x0, Largest(n), step)
<1> DEFINE D == 1 .. n
           picked == Largest(n)
<1>1. IsFiniteSet(D)
  BY FS_Interval
<1>2. \A T \in SUBSET D : T # {} => picked[T] \in T
  BY LastIsMax DEF Largest
<1> HIDE DEF D, picked
<1>3. step \in [D \X X -> X]
  BY DEF D
<1>4. \E it : IsIteration(it, D, X, x0, picked, step)
  BY <1>1, <1>2, <1>3, IterationExists
<1> QED BY <1>4 DEF D, picked

\* Counting up to n.
LEMMA Counting ==
  ASSUME NEW n \in Nat, NEW P, 0 \in P, \A k \in 1 .. n : k - 1 \in P => k \in P
  PROVE  \A k \in 0 .. n : k \in P
<1> DEFINE Not == {k \in 0 .. n : k \notin P}
<1> SUFFICES ASSUME Not # {} PROVE FALSE
  OBVIOUS
<1>1. Not \in SUBSET Nat
  OBVIOUS
<1>2. PICK k \in Not : \A j \in Not : k <= j
  <2> HIDE DEF Not
  <2> QED BY <1>1, SmallestExists
<1>3. k \in 1 .. n /\ k - 1 \in 0 .. n /\ ~ (k <= k - 1)
  BY <1>2
<1> QED BY <1>2, <1>3

\* A fold takes one element after another, whatever it would do with less than all before them.
StepByStep(f, fold, n, X, x0, step) ==
  /\ fold[1 .. n] = f[n]
  /\ f \in [0 .. n -> X]
  /\ f[0] = x0
  /\ \A k \in 1 .. n : f[k] = step[<<k, f[k - 1]>>]

IsFold(fold, n, X, x0, step) ==
  /\ fold[{}] = x0
  /\ \A T \in SUBSET (1 .. n) :
       T # {} /\ fold[T \ {Window!Max(T)}] \in X =>
         fold[T] = step[<<Window!Max(T), fold[T \ {Window!Max(T)}]>>]

LEMMA FoldTakesSteps ==
  ASSUME NEW n \in Nat, NEW X, NEW x0 \in X, NEW step \in [(1 .. n) \X X -> X],
         NEW fold, IsFold(fold, n, X, x0, step)
  PROVE  \E f : StepByStep(f, fold, n, X, x0, step)
<1>0. /\ fold[{}] = x0
      /\ \A T \in SUBSET (1 .. n) :
           T # {} /\ fold[T \ {Window!Max(T)}] \in X =>
             fold[T] = step[<<Window!Max(T), fold[T \ {Window!Max(T)}]>>]
  BY DEF IsFold
<1>1. ASSUME NEW k \in 1 .. n, fold[1 .. k - 1] \in X
      PROVE  fold[1 .. k] = step[<<k, fold[1 .. k - 1]>>] /\ fold[1 .. k] \in X
  <2> DEFINE T == 1 .. k
             U == 1 .. k - 1
  <2>1. T \in SUBSET (1 .. n) /\ T # {} /\ T \ {k} = U /\ k \in Nat /\ k > 0
    <3>1. k \in Nat /\ k > 0 /\ k <= n
      OBVIOUS
    <3>2. T \subseteq 1 .. n
      BY <3>1
    <3>3. k \in T /\ T \ {k} = U
      BY <3>1
    <3> QED BY <3>1, <3>2, <3>3
  <2>2. Window!Max(T) = k
    BY <2>1, LastIsMax
  <2>3. fold[U] \in X
    BY <1>1
  <2> HIDE DEF T, U
  <2>4. fold[T] = step[<<k, fold[U]>>]
    BY <1>0, <2>1, <2>2, <2>3
  <2>5. step[<<k, fold[U]>>] \in X
    BY <2>3
  <2> QED BY <2>4, <2>5 DEF T, U
<1> DEFINE P == {k \in 0 .. n : fold[1 .. k] \in X}
<1>2. 0 \in P
  <2>1. 1 .. 0 = {} /\ 0 \in 0 .. n
    OBVIOUS
  <2> QED BY <1>0, <2>1
<1>3. ASSUME NEW k \in 1 .. n, k - 1 \in P PROVE k \in P
  <2>1. k \in 0 .. n /\ fold[1 .. k - 1] \in X
    BY <1>3
  <2>2. fold[1 .. k] \in X
    BY <1>1, <2>1
  <2> QED BY <2>1, <2>2
<1>4. \A k \in 0 .. n : k \in P
  <2> HIDE DEF P
  <2> QED BY <1>2, <1>3, Counting
<1> DEFINE f == [k \in 0 .. n |-> fold[1 .. k]]
<1>5. f[0] = x0
  <2>1. 1 .. 0 = {} /\ 0 \in 0 .. n
    OBVIOUS
  <2> QED BY <1>0, <2>1
<1>6. f \in [0 .. n -> X]
  BY <1>4
<1>7. ASSUME NEW k \in 1 .. n PROVE f[k] = step[<<k, f[k - 1]>>]
  <2>1. k \in 0 .. n /\ k - 1 \in 0 .. n
    OBVIOUS
  <2>2. fold[1 .. k - 1] \in X
    BY <1>4, <2>1
  <2> QED BY <1>1, <2>1, <2>2
<1>8. fold[1 .. n] = f[n]
  OBVIOUS
<1> HIDE DEF f
<1> QED BY <1>5, <1>6, <1>7, <1>8 DEF StepByStep

-----------------------------------------------------------------------------
(* The gate: run_step and run_gate *)

\* The first i of a sequence, where it has that many.
Heads(s, t) == Len(s) <= Len(t) /\ \A i \in 1 .. Len(s) : s[i] = t[i]

\* Where a command of the sequence fails.
Breaks(commands, broken) == {i \in DOMAIN commands : commands[i] \in broken}

\* run_step: everything, or up to the first command that fails.
LEMMA RanUpToFailure ==
  ASSUME NEW S, NEW commands \in Seq(S), NEW broken
  PROVE  /\ Tools!Ran(commands, broken) \in Seq(S)
         /\ Heads(Tools!Ran(commands, broken), commands)
         /\ Breaks(commands, broken) = {} => Tools!Ran(commands, broken) = commands
         /\ Breaks(commands, broken) # {} =>
              Breaks(Tools!Ran(commands, broken), broken) = {Len(Tools!Ran(commands, broken))}
<1> DEFINE failing == Breaks(commands, broken)
           ran == Tools!Ran(commands, broken)
<1>1. DOMAIN commands = 1 .. Len(commands) /\ Len(commands) \in Nat
  BY LenProperties
<1>2. ran = IF failing = {} THEN commands ELSE SubSeq(commands, 1, Tools!Min(failing))
  BY DEF Tools!Ran, Breaks
<1>3. CASE failing = {}
  <2>1. ran = commands
    BY <1>2, <1>3
  <2> QED BY <1>1, <1>3, <2>1 DEF Heads
<1>4. CASE failing # {}
  <2> DEFINE m == Tools!Min(failing)
  <2>1. failing \in SUBSET Nat /\ failing \subseteq 1 .. Len(commands)
    BY <1>1 DEF Breaks
  <2>2. m \in failing /\ \A i \in failing : m <= i
    <3> HIDE DEF failing
    <3>1. PICK x \in failing : \A y \in failing : x <= y
      BY <1>4, <2>1, SmallestExists
    <3> QED BY <3>1, Zenon DEF Tools!Min
  <2> HIDE DEF m
  <2>3. m \in 1 .. Len(commands) /\ commands[m] \in broken
        /\ \A i \in 1 .. m - 1 : commands[i] \notin broken
    <3>1. m \in 1 .. Len(commands)
      BY <2>1, <2>2
    <3>2. commands[m] \in broken
      BY <2>2 DEF Breaks
    <3>3. ASSUME NEW i \in 1 .. m - 1 PROVE commands[i] \notin broken
      <4>1. i \in DOMAIN commands /\ ~ (m <= i)
        BY <1>1, <3>1
      <4> QED BY <2>2, <4>1 DEF Breaks
    <3> QED BY <3>1, <3>2, <3>3
  <2>4. ran = SubSeq(commands, 1, m)
    BY <1>2, <1>4 DEF m
  <2> HIDE DEF ran
  <2>5. ran \in Seq(S) /\ Len(ran) = m /\ \A i \in 1 .. m : ran[i] = commands[i]
    <3>1. \A i \in 1 .. m : commands[i] \in S
      BY <2>3, ElementOfSeq
    <3>2. /\ SubSeq(commands, 1, m) \in Seq(S)
          /\ Len(SubSeq(commands, 1, m)) = IF 1 <= m THEN m - 1 + 1 ELSE 0
          /\ \A i \in 1 .. m - 1 + 1 : SubSeq(commands, 1, m)[i] = commands[1 + i - 1]
      BY <2>3, <3>1, SubSeqProperties
    <3> QED BY <2>3, <2>4, <3>2
  <2>6. Breaks(ran, broken) = {m}
    <3>1. DOMAIN ran = 1 .. m
      BY <2>5, LenProperties
    <3> QED BY <2>3, <2>5, <3>1 DEF Breaks
  <2>7. Heads(ran, commands)
    BY <1>1, <2>3, <2>5 DEF Heads
  <2> QED BY <1>4, <2>5, <2>6, <2>7 DEF ran
<1> QED BY <1>3, <1>4

\* A report of the gate.
CheckRecords ==
  [name : Tools!Kinds \cup {"changes", "scope", "size", "tests_touched"}, ok : BOOLEAN,
   skipped : BOOLEAN]

\* What run_gate returns: its checks, and the commands that it ran.
Reports == [checks : Seq(CheckRecords), ran : Seq(CommandLines)]

\* run_gate, one kind of command further.
Further(report, kind, commands, broken) ==
  IF Tools!Passes(report.checks) THEN Tools!Judge(report, kind, commands[kind], broken) ELSE report

\* It stays a report.
LEMMA FurtherIsTyped ==
  ASSUME NEW report \in Reports, NEW kind \in Tools!Kinds,
         NEW commands \in [Tools!Kinds -> Seq(CommandLines)],
         NEW broken
  PROVE  Further(report, kind, commands, broken) \in Reports
<1>2. commands[kind] \in Seq(CommandLines)
  OBVIOUS
<1>3. Tools!RunStep(kind, commands[kind], broken) \in CheckRecords
  BY DEF Tools!RunStep, Tools!Skipped, Tools!Check, CheckRecords
<1>4. Tools!Ran(commands[kind], broken) \in Seq(CommandLines)
  BY <1>2, RanUpToFailure
<1>5. report.checks \in Seq(CheckRecords) /\ report.ran \in Seq(CommandLines)
  BY DEF Reports
<1>6. Append(report.checks, Tools!RunStep(kind, commands[kind], broken)) \in Seq(CheckRecords)
  BY <1>3, <1>5, AppendProperties
<1>7. report.ran \o Tools!Ran(commands[kind], broken) \in Seq(CommandLines)
  BY <1>4, <1>5, ConcatProperties
<1> QED BY <1>6, <1>7 DEF Further, Tools!Judge, Reports

\* max yields the largest.
LEMMA MaxOf ==
  ASSUME NEW S, NEW m \in S, S \subseteq Int, \A x \in S : x <= m
  PROVE  Tools!Max(S) = m
<1>1. m \in S /\ \A y \in S : m >= y
  OBVIOUS
<1>2. Tools!Max(S) \in S /\ \A y \in S : Tools!Max(S) >= y
  BY <1>1, Zenon DEF Tools!Max
<1> HIDE DEF Tools!Max
<1>3. Tools!Max(S) \in Int /\ m \in Int /\ Tools!Max(S) >= m /\ m >= Tools!Max(S)
  BY <1>1, <1>2
<1> QED BY <1>3

\* run_gate judges builds, then tests, then lint.
LEMMA GateUnfolds ==
  ASSUME NEW gate, NEW commands \in [Tools!Kinds -> Seq(CommandLines)], NEW changed, NEW restricted,
         NEW broken,
         Tools!CheapChecks(gate, changed, restricted) \in Seq(CheckRecords)
  PROVE  Tools!RunGate(gate, commands, changed, restricted, broken) =
           Further(Further(Further([checks |-> Tools!CheapChecks(gate, changed, restricted), ran |-> <<>>],
             "build", commands, broken), "test", commands, broken), "lint", commands, broken)
<1> DEFINE r0 == [checks |-> Tools!CheapChecks(gate, changed, restricted), ran |-> <<>>]
           seq == <<"build", "test", "lint">>
           D == {1, 2, 3}
           picked == [T \in SUBSET D |-> IF 3 \in T THEN 3 ELSE IF 2 \in T THEN 2 ELSE 1]
           step == [p \in D \X Reports |-> Further(p[2], seq[p[1]], commands, broken)]
           Step(i, report) == Further(report, seq[i], commands, broken)
           Is(it) == it = [T \in SUBSET DOMAIN seq |->
                            IF T = {} THEN r0 ELSE Step(Tools!Max(T), it[T \ {Tools!Max(T)}])]
           fold == CHOOSE it : Is(it)
<1>1. r0 \in Reports
  BY DEF Reports
<1>2. DOMAIN seq = D /\ seq[1] = "build" /\ seq[2] = "test" /\ seq[3] = "lint"
  OBVIOUS
<1> HIDE DEF r0, seq
<1>3. ASSUME NEW i \in D, NEW report \in Reports PROVE Step(i, report) \in Reports
  BY <1>2, FurtherIsTyped DEF Tools!Kinds
<1>4. step \in [D \X Reports -> Reports] /\ \A i \in D, report \in Reports :
        step[<<i, report>>] = Step(i, report)
  BY <1>3
<1>5. \A T \in SUBSET D : T # {} => picked[T] \in T /\ picked[T] = Tools!Max(T)
  <2> TAKE T \in SUBSET D
  <2>1. T # {} => picked[T] \in T /\ \A x \in T : x <= picked[T]
    <3>1. picked[T] = IF 3 \in T THEN 3 ELSE IF 2 \in T THEN 2 ELSE 1
      OBVIOUS
    <3>2. T \subseteq {1, 2, 3}
      OBVIOUS
    <3> DEFINE p == picked[T]
    <3>3. T # {} => p \in T
      BY <3>1, <3>2
    <3>4. \A x \in T : x = 1 \/ x = 2 \/ x = 3
      BY <3>2
    <3>5. p = IF 3 \in T THEN 3 ELSE IF 2 \in T THEN 2 ELSE 1
      BY <3>1
    <3> HIDE DEF D, picked, p
    <3>6. \A x \in T : x <= p
      BY <3>4, <3>5
    <3> QED BY <3>3, <3>6 DEF p
  <2>2. T \subseteq Int
    OBVIOUS
  <2> HIDE DEF picked
  <2> QED BY <2>1, <2>2, MaxOf
<1> HIDE DEF picked, step, Step
<1>6. PICK it : IsIteration(it, D, Reports, r0, picked, step)
  <2>1. IsFiniteSet(D)
    <3>1. D \in SUBSET Nat /\ \A i \in D : i <= 3
      OBVIOUS
    <3> HIDE DEF D
    <3> QED BY <3>1, FS_BoundedSetOfNaturals
  <2> HIDE DEF D
  <2> QED BY <1>1, <1>4, <1>5, <2>1, IterationExists
<1>7. Is(it)
  <2>1. it \in [SUBSET D -> Reports]
    BY <1>6 DEF IsIteration
  <2>2. ASSUME NEW T \in SUBSET D
        PROVE  it[T] = IF T = {} THEN r0 ELSE Step(Tools!Max(T), it[T \ {Tools!Max(T)}])
    <3>1. it[T] = IF T = {} THEN r0 ELSE step[<<picked[T], it[T \ {picked[T]}]>>]
      BY <1>6 DEF IsIteration
    <3>2. it[T \ {picked[T]}] \in Reports
      BY <2>1
    <3> QED BY <1>4, <1>5, <3>1, <3>2, ZenonT(40)
  <2> HIDE DEF D
  <2> QED BY <1>2, <2>1, <2>2
<1>8. Is(fold)
  <2> HIDE DEF Is
  <2> QED BY <1>7, Zenon
<1>9. Tools!RunGate(gate, commands, changed, restricted, broken) = fold[DOMAIN seq]
  BY Zenon DEF Tools!RunGate, Tools!FoldLeft, Tools!MapThenFoldSet, Further, r0, seq, Step
<1> HIDE DEF fold
<1>10. fold[{}] = r0 /\ \A T \in SUBSET D :
         T # {} => fold[T] = Step(picked[T], fold[T \ {picked[T]}])
  BY <1>2, <1>5, <1>8
<1>11. /\ picked[{1, 2, 3}] = 3 /\ picked[{1, 2}] = 2 /\ picked[{1}] = 1
       /\ {1, 2, 3} \ {3} = {1, 2} /\ {1, 2} \ {2} = {1} /\ {1} \ {1} = {}
  BY DEF picked
<1>12. fold[{1, 2, 3}] = Step(3, Step(2, Step(1, r0)))
  <2>1. {1} \in SUBSET D /\ {1, 2} \in SUBSET D /\ {1, 2, 3} \in SUBSET D
        /\ {1} # {} /\ {1, 2} # {} /\ {1, 2, 3} # {}
    OBVIOUS
  <2> DEFINE A == {1}
             B == {1, 2}
             C == {1, 2, 3}
  <2>2. /\ A \in SUBSET D /\ A # {} /\ picked[A] = 1 /\ A \ {1} = {}
        /\ B \in SUBSET D /\ B # {} /\ picked[B] = 2 /\ B \ {2} = A
        /\ C \in SUBSET D /\ C # {} /\ picked[C] = 3 /\ C \ {3} = B
    BY <1>11, <2>1
  <2> HIDE DEF A, B, C, D
  <2>3. fold[A] = Step(1, fold[{}]) /\ fold[B] = Step(2, fold[A]) /\ fold[C] = Step(3, fold[B])
    BY <1>10, <2>2
  <2>4. fold[C] = Step(3, Step(2, Step(1, r0)))
    BY <1>10, <2>3
  <2> QED BY <2>4 DEF C
<1> QED BY <1>2, <1>9, <1>12, Zenon DEF Step, r0

\* Checks one after another pass if each part of them does.
LEMMA PartsPass ==
  ASSUME NEW s \in Seq(CheckRecords), NEW t \in Seq(CheckRecords)
  PROVE  s \o t \in Seq(CheckRecords) /\ (Tools!Passes(s \o t) <=> Tools!Passes(s) /\ Tools!Passes(t))
<1>1. /\ s \o t \in Seq(CheckRecords) /\ Len(s \o t) = Len(s) + Len(t)
      /\ \A i \in 1 .. Len(s) + Len(t) : (s \o t)[i] = IF i <= Len(s) THEN s[i] ELSE t[i - Len(s)]
  BY ConcatProperties
<1>2. /\ DOMAIN s = 1 .. Len(s) /\ DOMAIN t = 1 .. Len(t) /\ Len(s) \in Nat /\ Len(t) \in Nat
      /\ DOMAIN (s \o t) = 1 .. Len(s) + Len(t)
  BY <1>1, LenProperties
<1>3. ASSUME Tools!Passes(s), Tools!Passes(t) PROVE Tools!Passes(s \o t)
  BY <1>1, <1>2, <1>3 DEF Tools!Passes
<1>4. ASSUME Tools!Passes(s \o t), NEW i \in 1 .. Len(s) PROVE s[i].ok
  <2>1. i \in 1 .. Len(s) + Len(t) /\ i <= Len(s)
    BY <1>2
  <2> QED BY <1>1, <1>2, <1>4, <2>1 DEF Tools!Passes
<1>5. ASSUME Tools!Passes(s \o t), NEW i \in 1 .. Len(t) PROVE t[i].ok
  <2>1. Len(s) + i \in 1 .. Len(s) + Len(t) /\ ~ (Len(s) + i <= Len(s)) /\ (Len(s) + i) - Len(s) = i
    BY <1>2
  <2> QED BY <1>1, <1>2, <1>5, <2>1 DEF Tools!Passes
<1> QED BY <1>1, <1>2, <1>3, <1>4, <1>5 DEF Tools!Passes

\* One check passes if it is ok.
LEMMA OnePasses ==
  ASSUME NEW c \in CheckRecords
  PROVE  <<c>> \in Seq(CheckRecords) /\ (Tools!Passes(<<c>>) <=> c.ok)
<1>1. <<c>> \in Seq(CheckRecords) /\ DOMAIN <<c>> = {1} /\ <<c>>[1] = c
  OBVIOUS
<1> QED BY <1>1 DEF Tools!Passes

\* No checks pass.
LEMMA NonePasses == <<>> \in Seq(CheckRecords) /\ Tools!Passes(<<>>)
BY DEF Tools!Passes

\* Toolchain counts as everybody does.
LEMMA SameSize == ASSUME NEW S PROVE Tools!Cardinality(S) = Cardinality(S)
BY DEF Tools!Cardinality, Cardinality

\* The checks that cost nothing pass when the files of the patch are agreeable.
LEMMA CheapChecksAgree ==
  ASSUME NEW job, NEW changed, job.gate \in Tools!GateConfigs([Tools!Kinds -> Seq(CommandLines)], Nat),
         job.restricted \in BOOLEAN, IsFiniteSet(changed),
            \A f \in changed : f.inScope \in BOOLEAN /\ f.isTest \in BOOLEAN
  PROVE  /\ Tools!CheapChecks(job.gate, changed, job.restricted) \in Seq(CheckRecords)
         /\ Tools!Passes(Tools!CheapChecks(job.gate, changed, job.restricted))
              <=> Tools!Agreeable(job, changed)
<1> DEFINE gate == job.gate
           a == Tools!CheckProducedChanges(changed)
           b == Tools!CheckScope(changed, job.restricted)
           c == Tools!CheckSize(changed, gate.max)
           d == Tools!CheckTestsTouched(changed)
           B == IF gate.enforceScope THEN <<b>> ELSE <<>>
           E == IF gate.requireTests THEN <<d>> ELSE <<>>
           n == Tools!Cardinality(changed)
           small == n <= gate.max
           inScope == \A f \in changed : f.inScope
           tested == \E f \in changed : f.isTest
<1>0. gate.enforceScope \in BOOLEAN /\ gate.requireTests \in BOOLEAN /\ gate.max \in Nat
  BY DEF Tools!GateConfigs
<1>a. n \in Nat
  BY FS_CardinalityType, SameSize
<1>1. a \in CheckRecords /\ (a.ok <=> changed # {})
  BY DEF Tools!CheckProducedChanges, Tools!Check, CheckRecords
<1>2. b \in CheckRecords /\ (b.ok <=> (job.restricted => inScope))
  BY DEF Tools!CheckScope, Tools!Check, Tools!Skipped, CheckRecords
<1>3. c \in CheckRecords /\ (c.ok <=> (gate.max # 0 => small))
  <2>1. c = IF gate.max = 0 THEN Tools!Skipped("size") ELSE Tools!Check("size", n <= gate.max)
    BY DEF Tools!CheckSize
  <2> HIDE DEF n, c
  <2>2. small \in BOOLEAN
    BY <1>0, <1>a
  <2> HIDE DEF gate
  <2> QED BY <1>0, <1>a, <2>1, <2>2 DEF Tools!Check, Tools!Skipped, CheckRecords
<1>4. d \in CheckRecords /\ (d.ok <=> tested)
  BY DEF Tools!CheckTestsTouched, Tools!Check, CheckRecords
<1>5. Tools!CheapChecks(gate, changed, job.restricted) = <<a>> \o B \o <<c>> \o E
  BY DEF Tools!CheapChecks
<1>6. Tools!Agreeable(job, changed) <=>
        /\ changed # {}
        /\ gate.enforceScope /\ job.restricted => inScope
        /\ gate.max # 0 => small
        /\ gate.requireTests => tested
  BY Zenon DEF Tools!Agreeable
<1> HIDE DEF a, b, c, d
<1>7. B \in Seq(CheckRecords) /\ (Tools!Passes(B) <=> (gate.enforceScope => b.ok))
  BY <1>0, <1>2, OnePasses, NonePasses
<1>8. E \in Seq(CheckRecords) /\ (Tools!Passes(E) <=> (gate.requireTests => d.ok))
  BY <1>0, <1>4, OnePasses, NonePasses
<1>9. /\ <<a>> \in Seq(CheckRecords) /\ (Tools!Passes(<<a>>) <=> a.ok)
      /\ <<c>> \in Seq(CheckRecords) /\ (Tools!Passes(<<c>>) <=> c.ok)
  BY <1>1, <1>3, OnePasses
<1> HIDE DEF B, E
<1>10. <<a>> \o B \in Seq(CheckRecords) /\ (Tools!Passes(<<a>> \o B) <=> a.ok /\ Tools!Passes(B))
  BY <1>7, <1>9, PartsPass
<1>11. <<a>> \o B \o <<c>> \in Seq(CheckRecords)
       /\ (Tools!Passes(<<a>> \o B \o <<c>>) <=> Tools!Passes(<<a>> \o B) /\ c.ok)
  BY <1>9, <1>10, PartsPass
<1>12. <<a>> \o B \o <<c>> \o E \in Seq(CheckRecords)
       /\ (Tools!Passes(<<a>> \o B \o <<c>> \o E) <=> Tools!Passes(<<a>> \o B \o <<c>>) /\ Tools!Passes(E))
  BY <1>8, <1>11, PartsPass
<1>13. Tools!Passes(<<a>> \o B \o <<c>> \o E)
         <=> a.ok /\ (gate.enforceScope => b.ok) /\ c.ok /\ (gate.requireTests => d.ok)
  BY <1>7, <1>8, <1>10, <1>11, <1>12
<1> HIDE DEF gate, inScope, tested, small
<1>14. Tools!Agreeable(job, changed)
         <=> a.ok /\ (gate.enforceScope => b.ok) /\ c.ok /\ (gate.requireTests => d.ok)
  BY <1>0, <1>1, <1>2, <1>3, <1>4, <1>6
<1> QED BY <1>5, <1>12, <1>13, <1>14 DEF gate

\* run_step agrees when no command of the kind breaks.
LEMMA StepAgrees ==
  ASSUME NEW kind \in Tools!Kinds, NEW commands \in Seq(CommandLines), NEW broken
  PROVE  /\ Tools!RunStep(kind, commands, broken) \in CheckRecords
         /\ Tools!RunStep(kind, commands, broken).ok <=> Breaks(commands, broken) = {}
         /\ Tools!Range(commands) \cap broken = {} <=> Breaks(commands, broken) = {}
<1>1. Tools!Range(commands) \cap broken = {} <=> Breaks(commands, broken) = {}
  BY DEF Tools!Range, Breaks
<1>2. CASE commands = <<>>
  BY <1>1, <1>2 DEF Tools!RunStep, Tools!Skipped, CheckRecords, Breaks
<1>3. CASE commands # <<>>
  BY <1>1, <1>3 DEF Tools!RunStep, Tools!Check, CheckRecords
<1> QED BY <1>1, <1>2, <1>3

\* A failing command of two sequences is one of either.
LEMMA BreaksOfBoth ==
  ASSUME NEW S, NEW s \in Seq(S), NEW t \in Seq(S), NEW broken
  PROVE  /\ s \o t \in Seq(S)
         /\ Breaks(s \o t, broken) = Breaks(s, broken) \cup {Len(s) + i : i \in Breaks(t, broken)}
<1>1. /\ s \o t \in Seq(S) /\ Len(s \o t) = Len(s) + Len(t)
      /\ \A i \in 1 .. Len(s) + Len(t) : (s \o t)[i] = IF i <= Len(s) THEN s[i] ELSE t[i - Len(s)]
  BY ConcatProperties
<1>2. /\ DOMAIN s = 1 .. Len(s) /\ DOMAIN t = 1 .. Len(t) /\ Len(s) \in Nat /\ Len(t) \in Nat
      /\ DOMAIN (s \o t) = 1 .. Len(s) + Len(t)
  BY <1>1, LenProperties
<1> DEFINE u == s \o t
           n == Len(s)
           m == Len(t)
<1>3. ASSUME NEW i \in Breaks(u, broken)
      PROVE  i \in Breaks(s, broken) \/ \E j \in Breaks(t, broken) : i = n + j
  <2>1. i \in 1 .. n + m /\ u[i] \in broken
    BY <1>2, <1>3 DEF Breaks
  <2>2. CASE i <= n
    <3>1. i \in 1 .. n /\ s[i] \in broken
      BY <1>1, <1>2, <2>1, <2>2
    <3> QED BY <1>2, <3>1 DEF Breaks
  <2>3. CASE ~ (i <= n)
    <3>1. i - n \in 1 .. m /\ t[i - n] \in broken /\ i = n + (i - n)
      BY <1>1, <1>2, <2>1, <2>3
    <3>2. i - n \in Breaks(t, broken)
      BY <1>2, <3>1 DEF Breaks
    <3> QED BY <3>1, <3>2
  <2> QED BY <2>2, <2>3
<1>4. ASSUME NEW i \in Breaks(s, broken) PROVE i \in Breaks(u, broken)
  <2>1. i \in 1 .. n /\ s[i] \in broken
    BY <1>2, <1>4 DEF Breaks
  <2>2. i \in 1 .. n + m /\ u[i] = s[i]
    BY <1>1, <1>2, <2>1
  <2> QED BY <1>2, <2>1, <2>2 DEF Breaks
<1>5. ASSUME NEW j \in Breaks(t, broken) PROVE n + j \in Breaks(u, broken)
  <2>1. j \in 1 .. m /\ t[j] \in broken
    BY <1>2, <1>5 DEF Breaks
  <2>2. n + j \in 1 .. n + m /\ ~ (n + j <= n) /\ (n + j) - n = j
    BY <1>2, <2>1
  <2>3. u[n + j] = t[j]
    BY <1>1, <2>2
  <2> QED BY <1>2, <2>1, <2>2, <2>3 DEF Breaks
<1> QED BY <1>1, <1>3, <1>4, <1>5

\* A head stays one when more follows, and when the same comes first.
LEMMA HeadsOfBoth ==
  ASSUME NEW S, NEW s \in Seq(S), NEW t \in Seq(S), NEW u \in Seq(S)
  PROVE  /\ Heads(s, t) => Heads(s, t \o u)
         /\ Heads(s, u) => Heads(t \o s, t \o u)
<1>1. /\ Len(t \o u) = Len(t) + Len(u)
      /\ \A i \in 1 .. Len(t) + Len(u) : (t \o u)[i] = IF i <= Len(t) THEN t[i] ELSE u[i - Len(t)]
      /\ Len(t \o s) = Len(t) + Len(s)
      /\ \A i \in 1 .. Len(t) + Len(s) : (t \o s)[i] = IF i <= Len(t) THEN t[i] ELSE s[i - Len(t)]
  BY ConcatProperties
<1>2. Len(s) \in Nat /\ Len(t) \in Nat /\ Len(u) \in Nat
  BY LenProperties
<1>3. ASSUME Heads(s, t) PROVE Heads(s, t \o u)
  <2>1. Len(s) <= Len(t) /\ \A i \in 1 .. Len(s) : s[i] = t[i]
    BY <1>3 DEF Heads
  <2>2. \A i \in 1 .. Len(s) : i \in 1 .. Len(t) + Len(u) /\ i <= Len(t)
    BY <1>2, <2>1
  <2>3. Len(s) <= Len(t \o u)
    BY <1>1, <1>2, <2>1
  <2> QED BY <1>1, <2>1, <2>2, <2>3 DEF Heads
<1>4. ASSUME Heads(s, u) PROVE Heads(t \o s, t \o u)
  <2>1. Len(s) <= Len(u) /\ \A i \in 1 .. Len(s) : s[i] = u[i]
    BY <1>4 DEF Heads
  <2>2. ASSUME NEW i \in 1 .. Len(t) + Len(s) PROVE (t \o s)[i] = (t \o u)[i]
    <3>1. i \in 1 .. Len(t) + Len(u) /\ (~ (i <= Len(t)) => i - Len(t) \in 1 .. Len(s))
      BY <1>2, <2>1
    <3> QED BY <1>1, <2>1, <3>1
  <2>3. Len(t \o s) <= Len(t \o u)
    BY <1>1, <1>2, <2>1
  <2> QED BY <1>1, <2>2, <2>3 DEF Heads
<1> QED BY <1>3, <1>4

\* How far the gate has got with the commands of done: either all of them worked and nothing
\* is wrong, or the last one it ran is the first that breaks, and only the last check is wrong.
OnCourse(report, done, broken) ==
  /\ report \in Reports /\ done \in Seq(CommandLines)
  /\ \/ /\ Tools!Passes(report.checks)
        /\ report.ran = done
        /\ Breaks(done, broken) = {}
     \/ /\ ~ Tools!Passes(report.checks)
        /\ {i \in DOMAIN report.checks : ~ report.checks[i].ok} = {Len(report.checks)}
        /\ Heads(report.ran, done)
        /\ Breaks(report.ran, broken) = {Len(report.ran)}
        /\ Breaks(done, broken) # {}

\* One check more.
LEMMA OneCheckMore ==
  ASSUME NEW checks \in Seq(CheckRecords), NEW c \in CheckRecords, Tools!Passes(checks)
  PROVE  /\ Append(checks, c) \in Seq(CheckRecords)
         /\ Tools!Passes(Append(checks, c)) <=> c.ok
         /\ ~ c.ok => {i \in DOMAIN Append(checks, c) : ~ Append(checks, c)[i].ok}
                        = {Len(Append(checks, c))}
<1> DEFINE more == Append(checks, c)
           n == Len(checks)
<1>1. /\ more \in Seq(CheckRecords) /\ Len(more) = n + 1 /\ n \in Nat /\ DOMAIN more = 1 .. n + 1
      /\ \A i \in 1 .. n : more[i] = checks[i] /\ checks[i].ok
      /\ more[n + 1] = c
  <2>1. /\ more \in Seq(CheckRecords) /\ Len(more) = n + 1 /\ more[n + 1] = c
        /\ \A i \in 1 .. n : more[i] = checks[i]
    BY AppendProperties
  <2>2. n \in Nat /\ DOMAIN checks = 1 .. n /\ DOMAIN more = 1 .. n + 1
    BY <2>1, LenProperties
  <2> QED BY <2>1, <2>2 DEF Tools!Passes
<1>2. c.ok \in BOOLEAN
  BY DEF CheckRecords
<1> HIDE DEF more, n
<1>3. \A i \in 1 .. n + 1 : i \in 1 .. n \/ i = n + 1
  BY <1>1
<1>4. n + 1 \in 1 .. n + 1
  BY <1>1
<1>5. Tools!Passes(more) <=> c.ok
  BY <1>1, <1>3, <1>4 DEF Tools!Passes
<1>6. ~ c.ok => {i \in DOMAIN more : ~ more[i].ok} = {n + 1}
  BY <1>1, <1>3, <1>4
<1> QED BY <1>1, <1>5, <1>6 DEF more

\* run_step stays on that course, whatever the commands of the kind do.
LEMMA KeepsOnCourse ==
  ASSUME NEW report, NEW done, NEW kind \in Tools!Kinds,
         NEW commands \in [Tools!Kinds -> Seq(CommandLines)],
         NEW broken, OnCourse(report, done, broken)
  PROVE  OnCourse(Further(report, kind, commands, broken), done \o commands[kind], broken)
<1> DEFINE next == Further(report, kind, commands, broken)
           now == commands[kind]
           step == Tools!RunStep(kind, now, broken)
           ran == Tools!Ran(now, broken)
<1>1. now \in Seq(CommandLines) /\ done \in Seq(CommandLines) /\ report.ran \in Seq(CommandLines)
      /\ report.checks \in Seq(CheckRecords)
  BY DEF OnCourse, Reports
<1>2. /\ ran \in Seq(CommandLines) /\ Heads(ran, now)
      /\ Breaks(now, broken) = {} => ran = now
      /\ Breaks(now, broken) # {} => Breaks(ran, broken) = {Len(ran)}
  BY <1>1, RanUpToFailure
<1>3. step \in CheckRecords /\ (step.ok <=> Breaks(now, broken) = {})
  BY <1>1, StepAgrees
<1>4. /\ done \o now \in Seq(CommandLines)
      /\ Breaks(done \o now, broken) = Breaks(done, broken) \cup {Len(done) + i : i \in Breaks(now, broken)}
  BY <1>1, BreaksOfBoth
<1>5. CASE ~ Tools!Passes(report.checks)
  <2>1. next = report
    BY <1>5 DEF Further
  <2>2. Heads(report.ran, done \o now) /\ Breaks(done \o now, broken) # {}
    BY <1>1, <1>4, <1>5, HeadsOfBoth DEF OnCourse
  <2> QED BY <1>4, <1>5, <2>1, <2>2 DEF OnCourse
<1>6. CASE Tools!Passes(report.checks)
  <2>1. next = [checks |-> Append(report.checks, step), ran |-> report.ran \o ran]
    BY <1>6 DEF Further, Tools!Judge
  <2>2. report.ran = done /\ Breaks(done, broken) = {}
    BY <1>6 DEF OnCourse
  <2>3. /\ next.checks \in Seq(CheckRecords)
        /\ Tools!Passes(next.checks) <=> step.ok
        /\ ~ step.ok => {i \in DOMAIN next.checks : ~ next.checks[i].ok} = {Len(next.checks)}
    <3> DEFINE checks == report.checks
               more == next.checks
    <3>1. more = Append(checks, step)
      BY <2>1
    <3>2. checks \in Seq(CheckRecords) /\ Tools!Passes(checks) /\ step \in CheckRecords
      BY <1>1, <1>3, <1>6
    <3> HIDE DEF step, next, checks, more
    <3>3. /\ Append(checks, step) \in Seq(CheckRecords)
          /\ Tools!Passes(Append(checks, step)) <=> step.ok
          /\ ~ step.ok => {i \in DOMAIN Append(checks, step) : ~ Append(checks, step)[i].ok}
                             = {Len(Append(checks, step))}
      BY <3>2, OneCheckMore
    <3> QED BY <3>1, <3>3 DEF more
  <2>4. /\ done \o ran \in Seq(CommandLines)
        /\ Breaks(done \o ran, broken) = {Len(done) + i : i \in Breaks(ran, broken)}
        /\ Len(done \o ran) = Len(done) + Len(ran)
    BY <1>1, <1>2, <2>2, BreaksOfBoth, ConcatProperties
  <2>5. next \in Reports /\ next.ran = done \o ran
    BY <2>1, <2>2, <2>3, <2>4 DEF Reports
  <2>6. Heads(done \o ran, done \o now)
    BY <1>1, <1>2, HeadsOfBoth
  <2> HIDE DEF next, now, step, ran
  <2>7. CASE Breaks(now, broken) = {}
    <3>1. Breaks(done \o now, broken) = {}
      BY <1>4, <2>2, <2>7
    <3>2. OnCourse(next, done \o now, broken)
      BY <1>2, <1>3, <1>4, <2>3, <2>5, <2>7, <3>1 DEF OnCourse
    <3> QED BY <3>2 DEF next, now
  <2>8. CASE Breaks(now, broken) # {}
    <3>1. Breaks(done \o now, broken) # {}
      BY <1>4, <2>8
    <3>2. Breaks(next.ran, broken) = {Len(next.ran)}
      BY <1>2, <2>4, <2>5, <2>8
    <3>3. OnCourse(next, done \o now, broken)
      BY <1>3, <1>4, <2>3, <2>5, <2>6, <2>8, <3>1, <3>2 DEF OnCourse
    <3> QED BY <3>3 DEF next, now
  <2> QED BY <2>7, <2>8
<1> QED BY <1>5, <1>6

\* Concatenation of the single commands that plan and detection make.
LEMMA InARow ==
  ASSUME NEW a, NEW b, NEW c
  PROVE  <<a>> \o <<b>> \o <<c>> = <<a, b, c>> /\ <<a>> \o <<>> \o <<c>> = <<a, c>>
<1> DEFINE S == {a, b, c}
<1>1. <<a>> \in Seq(S) /\ <<b>> \in Seq(S) /\ <<c>> \in Seq(S) /\ <<a, b>> \in Seq(S) /\ <<a,
   c>> \in Seq(S)
      /\ <<a, b, c>> \in Seq(S) /\ a \in S /\ b \in S /\ c \in S
  OBVIOUS
<1> HIDE DEF S
<1>2. \A s \in Seq(S), e \in S : s \o <<e>> = Append(s, e)
  BY AppendIsConcat
<1>3. Append(<<a>>, b) = <<a, b>> /\ Append(<<a, b>>, c) = <<a, b, c>> /\ Append(<<a>>, c) = <<a,
   c>>
  <2>1. ASSUME NEW x \in S, NEW y \in S, <<x>> \in Seq(S), <<x, y>> \in Seq(S)
        PROVE  Append(<<x>>, y) = <<x, y>>
    <3> DEFINE s == <<x>>
               t == <<x, y>>
               u == Append(s, y)
    <3>1. Len(s) = 1 /\ s[1] = x /\ Len(t) = 2 /\ t[1] = x /\ t[2] = y /\ s \in Seq(S) /\ t \in Seq(S)
      BY <2>1
    <3>a. s \in Seq(S) /\ y \in S
      BY <2>1
    <3> HIDE DEF s, t
    <3>2. u \in Seq(S) /\ Len(u) = 2 /\ u[1] = x /\ u[2] = y
      <4>1. u \in Seq(S) /\ Len(u) = Len(s) + 1 /\ (\A i \in 1 .. Len(s) : u[i] = s[i]) /\ u[Len(s) + 1] = y
        BY <3>a, AppendProperties
      <4> HIDE DEF u
      <4> QED BY <3>1, <4>1
    <3> HIDE DEF u
    <3>3. \A i \in 1 .. Len(u) : u[i] = t[i]
      BY <3>1, <3>2
    <3>4. u = t
      BY <3>1, <3>2, <3>3, SeqEqual
    <3> QED BY <3>4 DEF u, s, t
  <2>2. Append(<<a, b>>, c) = <<a, b, c>>
    <3> DEFINE s == <<a, b>>
               t == <<a, b, c>>
               u == Append(s, c)
    <3>1. /\ Len(s) = 2 /\ s[1] = a /\ s[2] = b /\ Len(t) = 3 /\ t[1] = a /\ t[2] = b /\ t[3] = c
          /\ s \in Seq(S) /\ t \in Seq(S)
      BY <1>1
    <3>a. s \in Seq(S) /\ c \in S
      BY <1>1
    <3> HIDE DEF s, t
    <3>2. u \in Seq(S) /\ Len(u) = 3 /\ u[1] = a /\ u[2] = b /\ u[3] = c
      <4>1. u \in Seq(S) /\ Len(u) = Len(s) + 1 /\ (\A i \in 1 .. Len(s) : u[i] = s[i]) /\ u[Len(s) + 1] = c
        BY <3>a, AppendProperties
      <4> HIDE DEF u
      <4> QED BY <3>1, <4>1
    <3> HIDE DEF u
    <3>3. \A i \in 1 .. Len(u) : u[i] = t[i]
      BY <3>1, <3>2
    <3>4. u = t
      BY <3>1, <3>2, <3>3, SeqEqual
    <3> QED BY <3>4 DEF u, s, t
  <2> QED BY <1>1, <2>1, <2>2
<1>4. <<a>> \o <<>> = <<a>>
  BY <1>1, ConcatEmptySeq
<1> QED BY <1>1, <1>2, <1>3, <1>4

\* The commands of an attempt are those of the strongest source, and a kind without commands is
\* one that no source names commands of.
LEMMA StrongestIsAsked ==
  ASSUME NEW job, IsJob(job), NEW kind \in Tools!Kinds
  PROVE  /\ Tools!Commands(job) \in [Tools!Kinds -> Seq(CommandLines)]
         /\ Tools!Commands(job)[kind] = Tools!Asked(job, kind)
         /\ Tools!Asked(job, kind) = <<>> =>
              \A i \in DOMAIN Tools!Sources(job) : Tools!Sources(job)[i][kind] = <<>>
<1> DEFINE gate == job.gate.commands
           planner == job.planner.commands
           toml == job.file.commands
           read == Tools!IsRead(job.file)
           sources == Tools!Sources(job)
           having == {i \in 1 .. Len(sources) : sources[i][kind] # <<>>}
           asked == Tools!Asked(job, kind)
           C == [Tools!Kinds -> Seq(CommandLines)]
<1>1. gate \in C /\ planner \in C /\ (read => toml \in C) /\ read \in BOOLEAN
  BY DEF IsJob, Tools!GateConfigs, Tools!RepoConfigs, Tools!IsRead
<1>2. Tools!Commands(job) = Tools!Over(gate, IF read THEN Tools!Over(toml, planner) ELSE planner)
  BY DEF Tools!Commands, Tools!EffectiveGate, Tools!Spec, Tools!Planned
<1>3. \A one \in C, other \in C : /\ Tools!Over(one, other) \in C
                                 /\ Tools!Over(one, other)[kind] =
                                      IF one[kind] # <<>> THEN one[kind] ELSE other[kind]
  BY DEF Tools!Over
<1>4. sources = IF read THEN <<gate, toml, planner>> ELSE <<gate, planner>>
  <2>1. sources = <<gate>> \o (IF read THEN <<toml>> ELSE <<>>) \o <<planner>>
    BY Zenon DEF Tools!Sources
  <2> HIDE DEF sources
  <2> QED BY <1>1, <2>1, InARow
<1>5. ASSUME having # {} PROVE Tools!Min(having) \in having /\ \A i \in having : Tools!Min(having) <= i
  <2>1. having \in SUBSET Nat
    OBVIOUS
  <2> HIDE DEF having
  <2>2. PICK x \in having : \A y \in having : x <= y
    BY <1>5, <2>1, SmallestExists
  <2> QED BY <2>2, Zenon DEF Tools!Min
<1>6. asked = IF having # {} THEN sources[Tools!Min(having)][kind] ELSE <<>>
  <2>1. asked = LET s == IF having # {} THEN Tools!Min(having) ELSE 0
                IN  IF s = 0 THEN <<>> ELSE sources[s][kind]
    BY Zenon DEF Tools!Asked, Tools!SelectInSeq
  <2>2. having # {} => Tools!Min(having) # 0
    BY <1>5
  <2> HIDE DEF asked, having
  <2> QED BY <2>1, <2>2
<1>7. having = {i \in DOMAIN sources : sources[i][kind] # <<>>}
  BY <1>4
<1> DEFINE first == Tools!Min(having)
<1> HIDE DEF first
<1>8. ASSUME asked = <<>> PROVE \A i \in DOMAIN sources : sources[i][kind] = <<>>
  <2>1. having = {}
    <3> SUFFICES ASSUME having # {} PROVE FALSE
      OBVIOUS
    <3>1. first \in having /\ asked = sources[first][kind]
      BY <1>5, <1>6 DEF first
    <3> QED BY <1>7, <1>8, <3>1
  <2> QED BY <1>7, <2>1
<1>9. /\ Tools!Commands(job) \in C
      /\ Tools!Commands(job)[kind] =
           IF gate[kind] # <<>> THEN gate[kind]
           ELSE IF read /\ toml[kind] # <<>> THEN toml[kind] ELSE planner[kind]
  <2> HIDE DEF C, gate, toml, planner, read
  <2> QED BY <1>1, <1>2, <1>3
<1>10. Tools!Commands(job)[kind] = asked
  <2>1. CASE read
    <3>1. /\ DOMAIN sources = 1 .. 3 /\ sources[1] = gate /\ sources[2] = toml /\ sources[3] = planner
      BY <1>4, <2>1
    <3>2. Tools!Commands(job)[kind] =
            IF gate[kind] # <<>> THEN gate[kind]
            ELSE IF toml[kind] # <<>> THEN toml[kind] ELSE planner[kind]
      <4> HIDE DEF gate, toml, planner, read
      <4> QED BY <1>9, <2>1
    <3>3. asked = IF having # {} THEN sources[first][kind] ELSE <<>>
      BY <1>6 DEF first
    <3>4. having # {} => first \in having /\ \A i \in having : first <= i
      BY <1>5 DEF first
    <3> HIDE DEF asked, having, sources, gate, toml, planner, read
    <3>5. \A i \in 1 .. 3 : i \in having <=> sources[i][kind] # <<>>
      BY <1>7, <3>1
    <3>6. having \subseteq {1, 2, 3}
      BY <1>7, <3>1
    <3>7. CASE gate[kind] # <<>>
      <4>1. 1 \in having
        BY <3>1, <3>5, <3>7
      <4>a. having # {}
        BY <4>1
      <4>b. first \in {1, 2, 3} /\ first <= 1
        BY <3>4, <3>6, <4>1, <4>a
      <4>2. first = 1 /\ having # {}
        BY <4>a, <4>b
      <4> QED BY <3>1, <3>2, <3>3, <3>7, <4>2
    <3>8. CASE gate[kind] = <<>> /\ toml[kind] # <<>>
      <4>0. 2 \in having /\ 1 \notin having
        BY <3>1, <3>5, <3>8
      <4>a. having # {}
        BY <4>0
      <4>b. first \in {2, 3} /\ first <= 2
        BY <3>4, <3>6, <4>0, <4>a
      <4>1. first = 2 /\ having # {}
        BY <4>a, <4>b
      <4> QED BY <3>1, <3>2, <3>3, <3>8, <4>1
    <3>9. CASE gate[kind] = <<>> /\ toml[kind] = <<>>
      <4>0. 2 \notin having /\ 1 \notin having
        BY <3>1, <3>5, <3>9
      <4>1. having # {} => first = 3
        BY <3>4, <3>6, <4>0
      <4>2. having = {} => planner[kind] = <<>>
        BY <3>1, <3>5
      <4> QED BY <3>1, <3>2, <3>3, <3>9, <4>1, <4>2
    <3> QED BY <3>7, <3>8, <3>9
  <2>2. CASE ~ read
    <3>1. /\ DOMAIN sources = 1 .. 2 /\ sources[1] = gate /\ sources[2] = planner
      BY <1>4, <2>2
    <3>2. Tools!Commands(job)[kind] = IF gate[kind] # <<>> THEN gate[kind] ELSE planner[kind]
      <4> HIDE DEF gate, toml, planner, read
      <4> QED BY <1>9, <2>2
    <3>3. asked = IF having # {} THEN sources[first][kind] ELSE <<>>
      BY <1>6 DEF first
    <3>4. having # {} => first \in having /\ \A i \in having : first <= i
      BY <1>5 DEF first
    <3> HIDE DEF asked, having, sources, gate, toml, planner, read
    <3>5. \A i \in 1 .. 2 : i \in having <=> sources[i][kind] # <<>>
      BY <1>7, <3>1
    <3>6. having \subseteq {1, 2}
      BY <1>7, <3>1
    <3>7. CASE gate[kind] # <<>>
      <4>1. first = 1 /\ having # {}
        BY <3>1, <3>4, <3>5, <3>6, <3>7
      <4> QED BY <3>1, <3>2, <3>3, <3>7, <4>1
    <3>8. CASE gate[kind] = <<>>
      <4>1. having # {} => first = 2
        BY <3>1, <3>4, <3>5, <3>6, <3>8
      <4>2. having = {} => planner[kind] = <<>>
        BY <3>1, <3>5
      <4> QED BY <3>1, <3>2, <3>3, <3>8, <4>1, <4>2
    <3> QED BY <3>7, <3>8
  <2> QED BY <1>1, <2>1, <2>2
<1> QED BY <1>8, <1>9, <1>10

\* What a gate has agreed on is the start of the commands it was asked for.
LEMMA HeadsArePrefixes ==
  ASSUME NEW S, NEW s \in Seq(S), NEW t \in Seq(S), Heads(s, t)
  PROVE  Tools!IsPrefix(s, t)
<1> DEFINE u == SubSeq(t, 1, Len(s))
<1>1. Len(s) \in Nat /\ Len(t) \in Nat /\ Len(s) <= Len(t)
  BY LenProperties DEF Heads
<1>2. u \in Seq(S) /\ Len(u) = Len(s) /\ \A i \in 1 .. Len(s) : u[i] = t[i]
  <2>1. \A i \in 1 .. Len(s) : t[i] \in S
    BY <1>1, ElementOfSeq
  <2>2. u \in Seq(S) /\ Len(u) = (IF 1 <= Len(s) THEN Len(s) - 1 + 1 ELSE 0)
        /\ \A i \in 1 .. Len(s) - 1 + 1 : u[i] = t[1 + i - 1]
    BY <1>1, <2>1, SubSeqProperties
  <2> HIDE DEF u
  <2> QED BY <1>1, <2>2
<1> HIDE DEF u
<1>3. u = s
  BY <1>2, SeqEqual DEF Heads
<1>4. SubSeq(s, 1, Len(s)) = s
  BY SubSeqFull
<1> QED BY <1>1, <1>3, <1>4 DEF Tools!IsPrefix, u

\* The verdict of a gate is that of the commands it was asked to run: all of them ran and worked,
\* or it says which was the first that did not.
LEMMA GateJudges ==
  ASSUME NEW job, IsJob(job), NEW changed, IsFiniteSet(changed),
         \A f \in changed : f.inScope \in BOOLEAN /\ f.isTest \in BOOLEAN, NEW broken
  PROVE  Tools!GateJudgesAsAsked(job, changed, broken)
<1> DEFINE commands == Tools!Commands(job)
           cheap == Tools!CheapChecks(job.gate, changed, job.restricted)
           r0 == [checks |-> cheap, ran |-> <<>>]
           r1 == Further(r0, "build", commands, broken)
           r2 == Further(r1, "test", commands, broken)
           report == Tools!Report(job, changed, broken)
           build == Tools!Asked(job, "build")
           test == Tools!Asked(job, "test")
           lint == Tools!Asked(job, "lint")
           setup == Tools!Asked(job, "setup")
           asked == build \o test \o lint
           wrong == {i \in DOMAIN report.checks : ~ report.checks[i].ok}
           agreeable == Tools!Agreeable(job, changed)
<1>1. {"setup", "build", "test", "lint"} = Tools!Kinds
  BY DEF Tools!Kinds
<1>2. commands \in [Tools!Kinds -> Seq(CommandLines)]
  BY <1>1, StrongestIsAsked
<1>3. /\ commands["build"] = build /\ commands["test"] = test /\ commands["lint"] = lint
      /\ commands["setup"] = setup
  BY <1>1, StrongestIsAsked
<1>4. /\ build \in Seq(CommandLines) /\ test \in Seq(CommandLines)
      /\ lint \in Seq(CommandLines) /\ setup \in Seq(CommandLines)
  <2> HIDE DEF build, test, lint, setup, commands
  <2> QED BY <1>1, <1>2, <1>3
<1>5. cheap \in Seq(CheckRecords) /\ (Tools!Passes(cheap) <=> agreeable)
  BY CheapChecksAgree DEF IsJob
<1>6. report = Further(r2, "lint", commands, broken)
  BY <1>2, <1>5, GateUnfolds DEF Tools!Report
<1> HIDE DEF commands, cheap, report, build, test, lint, setup, agreeable
<1>7. Tools!SetupWorks(Tools!Commands(job), broken) <=> Tools!Range(setup) \cap broken = {}
  <2>1. commands.setup = setup
    BY <1>3
  <2> QED BY <1>1, <1>4, <2>1, StepAgrees DEF Tools!SetupWorks, commands
<1>8. asked \in Seq(CommandLines) /\ build \o test \in Seq(CommandLines) /\ <<>> \o build = build
  BY <1>4, ConcatProperties, ConcatEmptySeq
<1>a. Tools!Range(asked) \cap broken = {} <=> Breaks(asked, broken) = {}
  BY <1>1, <1>8, StepAgrees
<1>b. ASSUME asked = <<>> PROVE \A i \in DOMAIN Tools!Sources(job) : Tools!IsEmpty(Tools!Sources(job)[i])
  <2>1. build = <<>> /\ test = <<>> /\ lint = <<>>
    <3>1. Len(asked) = Len(build) + Len(test) + Len(lint)
      BY <1>4, <1>8, ConcatProperties
    <3>2. Len(build) \in Nat /\ Len(test) \in Nat /\ Len(lint) \in Nat
      BY <1>4, LenProperties
    <3>3. Len(asked) = 0
      BY <1>b
    <3> HIDE DEF asked
    <3>4. Len(build) = 0 /\ Len(test) = 0 /\ Len(lint) = 0
      <4> DEFINE b == Len(build)
                 t == Len(test)
                 l == Len(lint)
      <4>1. b \in Nat /\ t \in Nat /\ l \in Nat /\ b + t + l = 0
        BY <3>1, <3>2, <3>3
      <4> HIDE DEF b, t, l
      <4>2. b = 0 /\ t = 0 /\ l = 0
        BY <4>1
      <4> QED BY <4>2 DEF b, t, l
    <3> QED BY <1>4, <3>4, EmptySeq
  <2> QED BY <1>1, <2>1, StrongestIsAsked DEF Tools!IsEmpty, Tools!Kinds, build, test, lint
<1>9. /\ Tools!Passes(report.checks) <=> agreeable /\ Breaks(asked, broken) = {}
      /\ Tools!Passes(report.checks) => report.ran = asked
      /\ ~ agreeable => report.ran = <<>>
      /\ agreeable /\ wrong # {} =>
           /\ wrong = {Len(report.checks)} /\ Tools!IsPrefix(report.ran, asked)
           /\ Breaks(report.ran, broken) = {Len(report.ran)}
  <2>1. CASE agreeable
    <3>1. OnCourse(r0, <<>>, broken)
      BY <1>5, <2>1 DEF OnCourse, Reports, Breaks
    <3> HIDE DEF r0
    <3>2. OnCourse(r1, build, broken)
      BY <1>1, <1>2, <1>3, <1>8, <3>1, KeepsOnCourse
    <3> HIDE DEF r1
    <3>3. OnCourse(r2, build \o test, broken)
      BY <1>1, <1>2, <1>3, <3>2, KeepsOnCourse
    <3> HIDE DEF r2
    <3>4. OnCourse(report, asked, broken)
      BY <1>1, <1>2, <1>3, <1>6, <3>3, KeepsOnCourse
    <3> HIDE DEF asked
    <3>5. Tools!Passes(report.checks) => wrong = {}
      BY DEF Tools!Passes
    <3>6. Heads(report.ran, asked) => Tools!IsPrefix(report.ran, asked)
      BY <3>4, HeadsArePrefixes DEF OnCourse, Reports
    <3> HIDE DEF wrong
    <3>7. ~ Tools!Passes(report.checks) => wrong = {Len(report.checks)}
      BY <3>4 DEF OnCourse, wrong
    <3> QED BY <2>1, <3>4, <3>5, <3>6, <3>7 DEF OnCourse
  <2>2. CASE ~ agreeable
    <3>1. report = r0
      BY <1>5, <1>6, <2>2 DEF Further
    <3> QED BY <1>5, <2>2, <3>1
  <2> QED BY <2>1, <2>2
<1>10. {i \in DOMAIN report.ran : report.ran[i] \in broken} = Breaks(report.ran, broken)
  BY DEF Breaks
<1> QED BY <1>7, <1>a, <1>b, <1>9, <1>10, Zenon
        DEF Tools!GateJudgesAsAsked, report, build, test, lint, setup, agreeable

\* The image of an attempt is that of the file, or else the one of the planner.
LEMMA ImageIsAsked ==
  ASSUME NEW job
  PROVE  Tools!ImageIsTheOneAsked(job)
BY DEF Tools!ImageIsTheOneAsked, Tools!AttemptImage, Tools!Spec, Tools!Planned, Tools!Or,
       Tools!IsRead

\* A patch is judged by what the strongest source names, for any commands of any kinds, any files
\* changed and any commands that fail (plan, effective_gate_config, run_gate).
THEOREM GateAlwaysJudgesAsAsked == Spec => []GateJudgesAsAsked
<1>1. PickedRight => GateJudgesAsAsked
  <2> SUFFICES ASSUME PickedRight PROVE GateJudgesAsAsked
    OBVIOUS
  <2>1. ASSUME probe.about = "gate"
        PROVE  Tools!GateJudgesAsAsked(probe.input.job, probe.input.changed, probe.input.broken)
    <3>1. probe.input \in Judgements
      BY <2>1 DEF PickedRight
    <3> QED BY <3>1, JobsAssumption, GateJudges
  <2>2. probe.about = "image" => Tools!ImageIsTheOneAsked(probe.input)
    BY ImageIsAsked
  <2> QED BY <2>1, <2>2 DEF GateJudgesAsAsked
<1> QED BY <1>1, InputsArePicked, PTL

-----------------------------------------------------------------------------
(* Limits of a context: for_worker_window and cap_diff *)

\* min of two numbers.
LEMMA SmallerOfTwo ==
  ASSUME NEW a \in Int, NEW b \in Int
  PROVE  Window!Min({a, b}) = IF a <= b THEN a ELSE b
<1> DEFINE m == IF a <= b THEN a ELSE b
           n == Window!Min({a, b})
<1>1. m \in {a, b} /\ \A y \in {a, b} : m <= y
  OBVIOUS
<1>2. n \in {a, b} /\ \A y \in {a, b} : n <= y
  <2> HIDE DEF m
  <2> QED BY <1>1, Zenon DEF Window!Min
<1> HIDE DEF n
<1>3. n = m
  BY <1>2
<1> QED BY <1>3 DEF n

\* max of two numbers.
LEMMA LargerOfTwo ==
  ASSUME NEW a \in Int, NEW b \in Int
  PROVE  Window!Max({a, b}) = IF a <= b THEN b ELSE a
<1> DEFINE m == IF a <= b THEN b ELSE a
           n == Window!Max({a, b})
<1>1. m \in {a, b} /\ \A y \in {a, b} : m >= y
  OBVIOUS
<1>2. n \in {a, b} /\ \A y \in {a, b} : n >= y
  <2> HIDE DEF m
  <2> QED BY <1>1, Zenon DEF Window!Max
<1> HIDE DEF n
<1>3. n = m
  BY <1>2
<1> QED BY <1>3 DEF n

\* clamp of a number.
LEMMA Clamped ==
  ASSUME NEW n \in Int, NEW low \in Int, NEW high \in Int
  PROVE  Window!Clamp(n, low, high) =
           IF n <= low THEN IF high <= low THEN high ELSE low ELSE IF high <= n THEN high ELSE n
<1>1. Window!Max({low, n}) = IF low <= n THEN n ELSE low
  BY LargerOfTwo
<1>2. Window!Max({low, n}) \in Int
  BY <1>1
<1>3. Window!Clamp(n, low, high) = IF high <= Window!Max({low, n}) THEN high ELSE Window!Max({low, n})
  BY <1>2, SmallerOfTwo DEF Window!Clamp
<1> QED BY <1>1, <1>3

\* clamp, for limits in order.
ClampTo(n, low, high) == IF n <= low THEN low ELSE IF high <= n THEN high ELSE n

\* What for_worker_window works out for c characters.
FollowFrom(l, c) ==
  /\ l.tree = ClampTo(((c * 10) \div 100) \div 60, 40, 600)
  /\ l.file = ClampTo(((c * 45) \div 100) \div 3, 2000, 60000)
  /\ l.files = IF (c * 45) \div 100 <= 4000 THEN 4000 ELSE (c * 45) \div 100
  /\ l.open = 12
  /\ l.readme = ClampTo((c * 5) \div 100, 500, 8000)
  /\ l.diff = ClampTo((c * 40) \div 100, 4000, 120000)

\* The limits, in terms of the characters a window has room for.
LEMMA LimitsAre ==
  ASSUME NEW window \in Nat, NEW c, c = 3 * ((window * 65) \div 100)
  PROVE  c \in Nat /\ FollowFrom(Window!Limits(window), c)
<1>1. c \in Nat
  OBVIOUS
<1>2. /\ ((c * 10) \div 100) \div 60 \in Int /\ ((c * 45) \div 100) \div 3 \in Int
      /\ (c * 45) \div 100 \in Int /\ (c * 5) \div 100 \in Int /\ (c * 40) \div 100 \in Int
  BY <1>1
<1>3. Window!Limits(window) =
        [tree   |-> Window!Clamp(((c * 10) \div 100) \div 60, 40, 600),
         file   |-> Window!Clamp(((c * 45) \div 100) \div 3, 2000, 60000),
         files  |-> Window!Max({(c * 45) \div 100, 4000}),
         open   |-> 12,
         readme |-> Window!Clamp((c * 5) \div 100, 500, 8000),
         diff   |-> Window!Clamp((c * 40) \div 100, 4000, 120000)]
  BY DEF Window!Limits, Window!Usable, Window!TreeEntryBytes
<1> DEFINE l == Window!Limits(window)
<1>4. l.tree = Window!Clamp(((c * 10) \div 100) \div 60, 40, 600)
      /\ l.file = Window!Clamp(((c * 45) \div 100) \div 3, 2000, 60000)
      /\ l.files = Window!Max({(c * 45) \div 100, 4000}) /\ l.open = 12
      /\ l.readme = Window!Clamp((c * 5) \div 100, 500, 8000)
      /\ l.diff = Window!Clamp((c * 40) \div 100, 4000, 120000)
  <2> DEFINE a1 == Window!Clamp(((c * 10) \div 100) \div 60, 40, 600)
             a2 == Window!Clamp(((c * 45) \div 100) \div 3, 2000, 60000)
             a3 == Window!Max({(c * 45) \div 100, 4000})
             a5 == Window!Clamp((c * 5) \div 100, 500, 8000)
             a6 == Window!Clamp((c * 40) \div 100, 4000, 120000)
  <2>1. l = [tree |-> a1, file |-> a2, files |-> a3, open |-> 12, readme |-> a5, diff |-> a6]
    BY <1>3
  <2> HIDE DEF l, a1, a2, a3, a5, a6
  <2>2. l.tree = a1 /\ l.file = a2 /\ l.files = a3 /\ l.open = 12 /\ l.readme = a5 /\ l.diff = a6
    BY <2>1
  <2> QED BY <2>2 DEF a1, a2, a3, a5, a6
<1> HIDE DEF l
<1>5. l.tree = ClampTo(((c * 10) \div 100) \div 60, 40, 600)
  BY <1>2, <1>4, Clamped DEF ClampTo
<1>6. l.file = ClampTo(((c * 45) \div 100) \div 3, 2000, 60000)
  BY <1>2, <1>4, Clamped DEF ClampTo
<1>7. l.files = IF (c * 45) \div 100 <= 4000 THEN 4000 ELSE (c * 45) \div 100
  BY <1>2, <1>4, LargerOfTwo
<1>8. l.readme = ClampTo((c * 5) \div 100, 500, 8000)
  BY <1>2, <1>4, Clamped DEF ClampTo
<1>9. l.diff = ClampTo((c * 40) \div 100, 4000, 120000)
  BY <1>2, <1>4, Clamped DEF ClampTo
<1>10. FollowFrom(l, c)
  BY <1>4, <1>5, <1>6, <1>7, <1>8, <1>9 DEF FollowFrom
<1> QED BY <1>1, <1>10 DEF l

\* The shares of a window never add up to more than the window.
LEMMA CeilingFits ==
  ASSUME NEW window \in Nat PROVE Window!LimitsFit(window)
<1> DEFINE u == (window * 65) \div 100
           c == 3 * u
           l == Window!Limits(window)
<1>1. /\ c \in Nat
      /\ l.tree = ClampTo(((c * 10) \div 100) \div 60, 40, 600)
      /\ l.files = IF (c * 45) \div 100 <= 4000 THEN 4000 ELSE (c * 45) \div 100
      /\ l.readme = ClampTo((c * 5) \div 100, 500, 8000)
      /\ l.diff = ClampTo((c * 40) \div 100, 4000, 120000)
  <2>1. c \in Nat /\ FollowFrom(l, c)
    BY LimitsAre
  <2> HIDE DEF l, c
  <2> QED BY <2>1 DEF FollowFrom
<1>2. u \in Nat /\ 100 * u <= 65 * window /\ 65 * window < 100 * u + 100
  OBVIOUS
<1> DEFINE t == l.tree f == l.files r == l.readme d == l.diff
<1> HIDE DEF l, u
<1>3. /\ t \in Int /\ 60 * t <= (IF c <= 24000 THEN 2400
                                ELSE IF 10 * c <= 3600000 THEN c \div 10 ELSE 36000)
  BY <1>1, <1>2 DEF ClampTo
<1>4. f \in Int /\ f <= (IF c <= 8888 THEN 4000 ELSE (c * 45) \div 100)
  BY <1>1, <1>2
<1>5. r \in Int /\ r <= (IF c <= 10000 THEN 500 ELSE (c * 5) \div 100)
  BY <1>1, <1>2 DEF ClampTo
<1>6. d \in Int /\ d <= (IF c <= 10000 THEN 4000 ELSE (c * 40) \div 100)
  BY <1>1, <1>2 DEF ClampTo
<1>7. Window!Ceiling(l) = (t * 60 + f + r + d) \div 3
  BY DEF Window!Ceiling, Window!TreeEntryBytes
<1> HIDE DEF t, f, r, d
<1>8. window >= 3634 => t * 60 + f + r + d <= 3 * window + 2
  BY <1>2, <1>3, <1>4, <1>5, <1>6
<1>9. window >= 12307 => t * 60 + f + r + d <= 3 * u + 2
  BY <1>2, <1>3, <1>4, <1>5, <1>6
<1>10. Window!Usable(window) = u
  BY DEF Window!Usable, u
<1> QED BY <1>2, <1>3, <1>4, <1>5, <1>6, <1>7, <1>8, <1>9, <1>10 DEF Window!LimitsFit, l

\* There is always room for a diff of 4000 bytes.
LEMMA DiffLimitIs ==
  ASSUME NEW window \in Nat
  PROVE  Window!Limits(window).diff \in Nat /\ Window!Limits(window).diff >= 4000
<1> DEFINE c == 3 * ((window * 65) \div 100)
<1>1. c \in Nat /\ Window!Limits(window).diff = ClampTo((c * 40) \div 100, 4000, 120000)
  BY LimitsAre DEF FollowFrom
<1> HIDE DEF c
<1> QED BY <1>1 DEF ClampTo

\* A diff that is cut twice is cut as if once, to the smaller of both limits.
LEMMA DiffIsCutOnce ==
  ASSUME NEW bytes \in Nat, NEW worker \in Nat, NEW reader \in Nat
  PROVE  Window!DiffIsShown(bytes, worker, reader)
<1> DEFINE w == Window!Limits(worker).diff
           r == Window!Limits(reader).diff
           shown == IF bytes <= w THEN bytes ELSE w + 52
<1>1. w \in Nat /\ r \in Nat /\ w >= 4000 /\ r >= 4000
  BY DiffLimitIs
<1>2. \A b \in Nat, l \in Nat : Window!Cut(b, 1, l) = IF b <= l THEN b ELSE l
  BY DEF Window!Cut
<1>3. \A b \in Nat : \A l : l.diff \in Nat => Window!CapDiff(b, l) = IF b <= l.diff THEN b ELSE l.diff + 52
  BY <1>2 DEF Window!CapDiff, Window!Notice
<1>4. Window!CapDiff(bytes, Window!Limits(worker)) = shown
  BY <1>1, <1>3
<1>5. shown \in Nat
  BY <1>1
<1>6. Window!DiffFor(bytes, worker, reader) = IF shown <= r THEN shown ELSE r + 52
  <2> HIDE DEF shown
  <2> QED BY <1>1, <1>3, <1>4, <1>5 DEF Window!DiffFor
<1>7. Window!Min({w, r}) = IF w <= r THEN w ELSE r
  BY <1>1, SmallerOfTwo
<1> DEFINE least == Window!Min({w, r})
           seen == Window!DiffFor(bytes, worker, reader)
<1>8. /\ bytes <= least => seen = bytes
      /\ bytes > least => seen >= least /\ seen <= least + 2 * 52
  <2> HIDE DEF w, r, least, seen
  <2>1. least = IF w <= r THEN w ELSE r
    BY <1>7 DEF least
  <2>2. seen = IF shown <= r THEN shown ELSE r + 52
    BY <1>6 DEF seen
  <2> QED BY <1>1, <2>1, <2>2
<1> QED BY <1>8 DEF Window!DiffIsShown, Window!Notice

-----------------------------------------------------------------------------
(* Sums: the bytes of the files that are open *)

\* Induction on finite sets: what holds of a set when it holds of every set with one element
\* less holds of all of them.
LEMMA SetInduction ==
  ASSUME NEW D, IsFiniteSet(D), NEW G,
         \A T \in SUBSET D : (\A x \in T : T \ {x} \in G) => T \in G
  PROVE  SUBSET D \subseteq G
<1> DEFINE Sizes == {Cardinality(T) : T \in (SUBSET D) \ G}
<1>1. \A T \in SUBSET D : IsFiniteSet(T) /\ Cardinality(T) \in Nat
  BY FS_Subset, FS_CardinalityType
<1> SUFFICES ASSUME ~ (SUBSET D \subseteq G) PROVE FALSE
  OBVIOUS
<1>2. Sizes \in SUBSET Nat /\ Sizes # {}
  BY <1>1
<1>3. PICK n \in Sizes : \A m \in Sizes : n <= m
  <2> HIDE DEF Sizes
  <2> QED BY <1>2, SmallestExists
<1>4. PICK T \in (SUBSET D) \ G : n = Cardinality(T)
  BY <1>3
<1>5. PICK x \in T : T \ {x} \notin G
  BY <1>4
<1>6. T \ {x} \in SUBSET D /\ Cardinality(T \ {x}) = Cardinality(T) - 1
  BY <1>1, <1>4, <1>5, FS_RemoveElement
<1>7. Cardinality(T \ {x}) \in Sizes
  BY <1>5, <1>6
<1>8. Cardinality(T) \in Nat
  BY <1>1
<1> HIDE DEF Sizes
<1> QED BY <1>3, <1>4, <1>6, <1>7, <1>8

\* The sum of the values of f over each part of D, however the parts are taken apart.
IsSum(sum, f, D) ==
  /\ sum \in [SUBSET D -> Nat]
  /\ sum[{}] = 0
  /\ \A T \in SUBSET D : \A x \in T : sum[T] = f[x] + sum[T \ {x}]

\* Whichever element a sum takes first.
IsPickedSum(sum, f, D, picked) ==
  /\ sum \in [SUBSET D -> Nat] /\ \A x \in D : f[x] \in Nat
  /\ sum[{}] = 0
  /\ \A T \in SUBSET D :
       T # {} => picked[T] \in T /\ sum[T] = f[picked[T]] + sum[T \ {picked[T]}]

\* A sum that takes a certain element first is one that may take any first.
LEMMA SumsInAnyOrder ==
  ASSUME NEW D, IsFiniteSet(D), NEW f, NEW sum, NEW picked, IsPickedSum(sum, f, D, picked)
  PROVE  IsSum(sum, f, D)
<1> DEFINE G == {T \in SUBSET D : \A x \in T : sum[T] = f[x] + sum[T \ {x}]}
<1>1. ASSUME NEW T \in SUBSET D, \A x \in T : T \ {x} \in G PROVE T \in G
  <2> SUFFICES ASSUME NEW x \in T PROVE sum[T] = f[x] + sum[T \ {x}]
    OBVIOUS
  <2> DEFINE y == picked[T]
  <2>1. y \in T /\ sum[T] = f[y] + sum[T \ {y}]
    BY DEF IsPickedSum
  <2> HIDE DEF y
  <2>2. CASE x = y
    BY <2>1, <2>2
  <2>3. CASE x # y
    <3> DEFINE U == T \ {x}
               V == T \ {y}
               W == T \ {x, y}
    <3>1. U \in G /\ V \in G /\ y \in U /\ x \in V /\ U \ {y} = W /\ V \ {x} = W
      BY <1>1, <2>1, <2>3
    <3>2. sum[U] = f[y] + sum[W] /\ sum[V] = f[x] + sum[W]
      BY <3>1
    <3>3. sum[W] \in Nat /\ f[x] \in Nat /\ f[y] \in Nat
      BY <2>1 DEF IsPickedSum
    <3> HIDE DEF U, V, W, G
    <3>4. sum[T] = f[y] + (f[x] + sum[W])
      BY <2>1, <3>2 DEF V
    <3>5. sum[T] = f[x] + sum[U]
      BY <3>2, <3>3, <3>4
    <3> QED BY <3>5 DEF U
  <2> QED BY <2>2, <2>3
<1>2. SUBSET D \subseteq G
  <2> HIDE DEF G
  <2>1. \A T \in SUBSET D : (\A x \in T : T \ {x} \in G) => T \in G
    BY <1>1
  <2>2. IsFiniteSet(D)
    OBVIOUS
  <2>3. SUBSET D \subseteq G
    BY <2>1, <2>2, SetInduction, Zenon
  <2> QED BY <2>3
<1> QED BY <1>2 DEF IsSum, IsPickedSum

\* Two parts add up, and what is added is the same whatever function it comes from.
LEMMA SumsAddUp ==
  ASSUME NEW D, IsFiniteSet(D), NEW f, NEW sum, IsSum(sum, f, D), \A x \in D : f[x] \in Nat,
         NEW E, NEW g, NEW other, IsSum(other, g, E), NEW C \in SUBSET D
  PROVE  \A T \in SUBSET (D \ C) :
           T \subseteq E /\ (\A x \in T : g[x] = f[x]) => sum[C \cup T] = sum[C] + other[T]
<1> DEFINE Same(T) == T \subseteq E /\ (\A x \in T : g[x] = f[x])
           G == {T \in SUBSET (D \ C) : Same(T) => sum[C \cup T] = sum[C] + other[T]}
<1>1. ASSUME NEW T \in SUBSET (D \ C), \A x \in T : T \ {x} \in G PROVE T \in G
  <2> SUFFICES ASSUME Same(T) PROVE sum[C \cup T] = sum[C] + other[T]
    OBVIOUS
  <2>1. CASE T = {}
    <3>1. other[T] = 0 /\ sum[C] \in Nat
      BY <2>1 DEF IsSum
    <3>2. C \cup T = C
      BY <2>1
    <3>3. sum[C \cup T] = sum[C]
      BY <3>2
    <3>4. sum[C] = sum[C] + other[T]
      BY <3>1
    <3> QED BY <3>3, <3>4
  <2>2. CASE T # {}
    <3>1. PICK x \in T : TRUE
      BY <2>2
    <3> DEFINE U == T \ {x}
    <3>2. sum[C \cup U] = sum[C] + other[U]
      BY <1>1
    <3>3. /\ C \cup T \in SUBSET D /\ x \in C \cup T /\ (C \cup T) \ {x} = C \cup U
          /\ C \cup U \in SUBSET D /\ U \in SUBSET E /\ T \in SUBSET E /\ g[x] = f[x] /\ x \in D
      BY <3>1
    <3> HIDE DEF U
    <3>4. sum[C \cup T] = f[x] + sum[C \cup U]
      <4> DEFINE V == C \cup T
      <4>1. V \in SUBSET D /\ x \in V /\ V \ {x} = C \cup U
        BY <3>3
      <4> HIDE DEF V
      <4>2. sum[V] = f[x] + sum[V \ {x}]
        BY <4>1, Zenon DEF IsSum
      <4> QED BY <4>1, <4>2 DEF V
    <3>5. other[T] = g[x] + other[U]
      BY <3>3 DEF IsSum, U
    <3>6. sum[C] \in Nat /\ other[U] \in Nat /\ f[x] \in Nat
      BY <3>3 DEF IsSum
    <3> QED BY <3>2, <3>3, <3>4, <3>5, <3>6
  <2> QED BY <2>1, <2>2
<1>2. IsFiniteSet(D \ C)
  BY FS_Subset
<1>3. SUBSET (D \ C) \subseteq G
  <2> DEFINE R == D \ C
  <2> HIDE DEF G
  <2>1. \A T \in SUBSET R : (\A x \in T : T \ {x} \in G) => T \in G
    BY <1>1
  <2>2. IsFiniteSet(R)
    BY <1>2
  <2> HIDE DEF R
  <2>3. SUBSET R \subseteq G
    BY <2>1, <2>2, SetInduction, Zenon
  <2> QED BY <2>3 DEF R
<1> QED BY <1>3

\* Bytes of a set of open files: there is such a sum.
Shown(open) == /\ IsFiniteSet(DOMAIN open)
               /\ open \in [DOMAIN open -> Nat]

\* The bytes of a set of open files are such a sum.
LEMMA BytesAreASum ==
  ASSUME NEW open, Shown(open)
  PROVE  \E sum : IsSum(sum, open, DOMAIN open) /\ Window!Bytes(open) = sum[DOMAIN open]
<1> DEFINE D == DOMAIN open
           picked == [T \in SUBSET D |-> CHOOSE x \in T : TRUE]
           step == [p \in D \X Nat |-> open[p[1]] + p[2]]
           Is(it) == it = [T \in SUBSET D |->
                            IF T = {} THEN 0
                            ELSE open[CHOOSE x \in T : TRUE] + it[T \ {CHOOSE x \in T : TRUE}]]
           fold == CHOOSE it : Is(it)
<1>1. IsFiniteSet(D) /\ \A x \in D : open[x] \in Nat
  BY DEF Shown
<1>2. step \in [D \X Nat -> Nat] /\ \A x \in D, n \in Nat : step[<<x, n>>] = open[x] + n
  <2> HIDE DEF D
  <2> QED BY <1>1
<1>3. \A T \in SUBSET D : T # {} => picked[T] \in T /\ picked[T] = CHOOSE x \in T : TRUE
  OBVIOUS
<1> HIDE DEF picked, step
<1>4. PICK it : IsIteration(it, D, Nat, 0, picked, step)
  <2> HIDE DEF D
  <2> QED BY <1>1, <1>2, <1>3, IterationExists
<1> HIDE DEF D
<1>5. Is(it)
  <2>1. it \in [SUBSET D -> Nat]
    BY <1>4 DEF IsIteration
  <2>2. ASSUME NEW T \in SUBSET D
        PROVE  it[T] = IF T = {} THEN 0 ELSE open[CHOOSE x \in T : TRUE] + it[T \ {CHOOSE x \in T : TRUE}]
    <3>1. it[T] = IF T = {} THEN 0 ELSE step[<<picked[T], it[T \ {picked[T]}]>>]
      BY <1>4 DEF IsIteration
    <3>2. it[T \ {picked[T]}] \in Nat
      BY <2>1
    <3> QED BY <1>2, <1>3, <3>1, <3>2
  <2> QED BY <2>1, <2>2
<1>6. Is(fold)
  <2> HIDE DEF Is
  <2> QED BY <1>5, Zenon
<1>7. Window!Bytes(open) = fold[D]
  BY Zenon DEF Window!Bytes, Window!FoldFunction, Window!FoldFunctionOnSet, Window!MapThenFoldSet, D
<1> HIDE DEF fold
<1>8. fold[{}] = 0 /\ \A T \in SUBSET D :
        T # {} => fold[T] = open[picked[T]] + fold[T \ {picked[T]}]
  BY <1>3, <1>6
<1>9. fold \in [SUBSET D -> Nat]
  <2> DEFINE G == {T \in SUBSET D : fold[T] \in Nat}
  <2>1. ASSUME NEW T \in SUBSET D, \A x \in T : T \ {x} \in G PROVE T \in G
    <3>1. CASE T = {}
      BY <1>8, <3>1
    <3>2. CASE T # {}
      <4>1. picked[T] \in T /\ fold[T] = open[picked[T]] + fold[T \ {picked[T]}]
        BY <1>3, <1>8, <3>2
      <4>2. fold[T \ {picked[T]}] \in Nat
        BY <2>1, <4>1
      <4>3. open[picked[T]] \in Nat
        BY <1>1, <4>1
      <4> QED BY <4>1, <4>2, <4>3
    <3> QED BY <3>1, <3>2
  <2>2. SUBSET D \subseteq G
    <3> HIDE DEF G
    <3> QED BY <1>1, <2>1, SetInduction
  <2>3. \A T \in SUBSET D : fold[T] \in Nat
    BY <2>2
  <2> HIDE DEF G
  <2> QED BY <1>6, <2>3
<1>10. IsSum(fold, open, D)
  <2>1. IsPickedSum(fold, open, D, picked)
    BY <1>1, <1>3, <1>8, <1>9 DEF IsPickedSum
  <2> QED BY <1>1, <2>1, SumsInAnyOrder
<1> QED BY <1>7, <1>10 DEF D

\* Merging adds no more than what is merged.
LEMMA BytesOfBoth ==
  ASSUME NEW now, NEW earlier, Shown(now), Shown(earlier)
  PROVE  /\ Shown(Window!Merged(now, earlier))
         /\ Window!Bytes(Window!Merged(now, earlier)) \in Nat
         /\ Window!Bytes(Window!Merged(now, earlier)) <= Window!Bytes(now) + Window!Bytes(earlier)
<1> DEFINE A == DOMAIN now
           B == DOMAIN earlier
           C == B \ A
           both == Window!Merged(now, earlier)
           D == A \cup B
<1>1. both = [path \in D |-> IF path \in A THEN now[path] ELSE earlier[path]]
  BY DEF Window!Merged
<1>2. IsFiniteSet(A) /\ IsFiniteSet(B) /\ (\A p \in A : now[p] \in Nat) /\ (\A p \in B : earlier[p] \in Nat)
  BY DEF Shown
<1>3. DOMAIN both = D /\ \A p \in D : both[p] \in Nat
  BY <1>1, <1>2
<1>4. (\A p \in A : both[p] = now[p]) /\ (\A p \in C : both[p] = earlier[p])
  BY <1>1
<1>5. Shown(both)
  <2>1. IsFiniteSet(D)
    BY <1>2, FS_Union
  <2>2. both \in [D -> Nat]
    <3> HIDE DEF D
    <3> QED BY <1>1, <1>3
  <2> QED BY <1>3, <2>1, <2>2 DEF Shown
<1> HIDE DEF both
<1>6. PICK sum : IsSum(sum, both, D) /\ Window!Bytes(both) = sum[D]
  BY <1>3, <1>5, BytesAreASum
<1>7. PICK new : IsSum(new, now, A) /\ Window!Bytes(now) = new[A]
  BY BytesAreASum
<1>8. PICK old : IsSum(old, earlier, B) /\ Window!Bytes(earlier) = old[B]
  BY BytesAreASum
<1>9. /\ {} \cup A = A /\ A \in SUBSET (D \ {}) /\ A \cup C = D /\ C \in SUBSET (D \ A) /\ A \in SUBSET D
      /\ A \subseteq A /\ C \subseteq B /\ {} \in SUBSET D /\ C \in SUBSET (B \ {}) /\ {} \cup C = C
      /\ C \in SUBSET B /\ A \cap B \in SUBSET (B \ C) /\ C \cup (A \cap B) = B /\ A \cap B \in SUBSET B
  OBVIOUS
<1>10. IsFiniteSet(D)
  BY <1>3, <1>5 DEF Shown
<1> HIDE DEF C, D, A, B
<1>11. sum[A] = sum[{}] + new[A]
  <2>1. \A T \in SUBSET (D \ {}) :
           T \subseteq A /\ (\A x \in T : now[x] = both[x]) => sum[{} \cup T] = sum[{}] + new[T]
    BY <1>3, <1>6, <1>7, <1>9, <1>10, SumsAddUp
  <2> QED BY <1>4, <1>9, <2>1
<1>12. sum[D] = sum[A] + old[C]
  <2>1. \A T \in SUBSET (D \ A) :
           T \subseteq B /\ (\A x \in T : earlier[x] = both[x]) => sum[A \cup T] = sum[A] + old[T]
    BY <1>3, <1>6, <1>8, <1>9, <1>10, SumsAddUp
  <2> QED BY <1>4, <1>9, <2>1
<1>13. old[B] = old[C] + old[A \cap B]
  <2>1. \A T \in SUBSET (B \ C) :
           T \subseteq B /\ (\A x \in T : earlier[x] = earlier[x]) => old[C \cup T] = old[C] + old[T]
    BY <1>2, <1>8, <1>9, SumsAddUp
  <2> QED BY <1>9, <2>1
<1>14. sum[{}] = 0 /\ old[C] \in Nat /\ old[A \cap B] \in Nat /\ new[A] \in Nat
  BY <1>6, <1>7, <1>8, <1>9 DEF IsSum
<1> QED BY <1>5, <1>6, <1>7, <1>8, <1>11, <1>12, <1>13, <1>14 DEF both

\* One file shows as much as it shows, and none nothing.
LEMMA BytesOfOne ==
  ASSUME NEW path, NEW n \in Nat
  PROVE  Shown([p \in {path} |-> n]) /\ Window!Bytes([p \in {path} |-> n]) = n
<1> DEFINE one == [p \in {path} |-> n]
<1>1. DOMAIN one = {path} /\ one[path] = n
  OBVIOUS
<1>2. Shown(one)
  BY FS_Singleton DEF Shown
<1> HIDE DEF one
<1>3. PICK sum : IsSum(sum, one, {path}) /\ Window!Bytes(one) = sum[{path}]
  BY <1>1, <1>2, BytesAreASum
<1>4. sum[{path}] = one[path] + sum[{path} \ {path}]
  BY <1>3 DEF IsSum
<1>5. {path} \ {path} = {} /\ sum[{}] = 0
  BY <1>3 DEF IsSum
<1> QED BY <1>1, <1>2, <1>3, <1>4, <1>5 DEF one

\* No files have no bytes.
LEMMA BytesOfNone == DOMAIN <<>> = {} /\ Shown(<<>>) /\ Window!Bytes(<<>>) = 0
<1>1. DOMAIN <<>> = {}
  OBVIOUS
<1>2. Shown(<<>>)
  BY <1>1, FS_EmptySet DEF Shown
<1>3. PICK none : IsSum(none, <<>>, {}) /\ Window!Bytes(<<>>) = none[{}]
  BY <1>1, <1>2, BytesAreASum
<1> QED BY <1>1, <1>2, <1>3 DEF IsSum

-----------------------------------------------------------------------------
(* Files in a context: open_files and merge_open_files *)

\* Files of ws that are open within the limits.
Open(ws, limits, open) ==
  /\ open \in UNION {[T -> Nat] : T \in SUBSET Paths} /\ Shown(open)
  /\ Window!Bytes(open) \in Nat /\ Window!Bytes(open) <= limits.files
  /\ \A path \in DOMAIN open :
       /\ open[path] <= limits.file
       /\ open[path] = ws[path].bytes \/ open[path] > 400 - ws[path].width

\* What is cut fits, and is whole or as long as the limit but for a character.
LEMMA CutFits ==
  ASSUME NEW bytes \in Nat, NEW width \in 1 .. 4, NEW limit \in Nat, limit >= 400
  PROVE  /\ Window!Cut(bytes, width, limit) \in Nat
         /\ Window!Cut(bytes, width, limit) <= limit
         /\ Window!Cut(bytes, width, limit) = bytes \/ Window!Cut(bytes, width, limit) > 400 - width
<1>1. limit % width \in 0 .. width - 1
  BY Z3
<1> QED BY <1>1 DEF Window!Cut

\* Nothing open fits any limits.
LEMMA NoneOpen ==
  ASSUME NEW ws, NEW limits, limits.files \in Nat
  PROVE  Open(ws, limits, <<>>)
<1> DEFINE none == <<>>
<1>1. DOMAIN none = {} /\ Shown(none) /\ Window!Bytes(none) = 0 /\ none \in [{} -> Nat]
  BY BytesOfNone DEF Shown
<1>2. {} \in SUBSET Paths
  OBVIOUS
<1> HIDE DEF none
<1>3. none \in UNION {[T -> Nat] : T \in SUBSET Paths}
  BY <1>1, <1>2
<1>4. 0 \in Nat /\ 0 <= limits.files
  OBVIOUS
<1>5. Open(ws, limits, none)
  BY <1>1, <1>3, <1>4, Zenon DEF Open
<1> QED BY <1>5 DEF none

\* Opening one more file stays within the limits, closes none, and leaves something open if it
\* is a text.
LEMMA OneMoreFits ==
  ASSUME NEW ws \in [Paths -> Window!Contents], NEW limits, limits.file \in Nat,
         limits.files \in Nat,
         limits.file >= 400, limits.files >= 400, NEW open, Open(ws, limits, open),
            NEW path \in Paths
  PROVE  /\ Open(ws, limits, Window!OpenFile(ws, limits, open, path))
         /\ DOMAIN open \subseteq DOMAIN Window!OpenFile(ws, limits, open, path)
         /\ Window!IsText(ws[path]) => DOMAIN Window!OpenFile(ws, limits, open, path) # {}
<1> DEFINE remaining == limits.files - Window!Bytes(open)
           least == Window!Min({limits.file, remaining})
           n == Window!Cut(ws[path].bytes, ws[path].width, least)
           one == [p \in {path} |-> n]
           next == Window!OpenFile(ws, limits, open, path)
<1>1. next = IF path \in DOMAIN open \/ remaining < 400 \/ ~ Window!IsText(ws[path]) THEN open
             ELSE Window!Merged(one, open)
  BY DEF Window!OpenFile, Window!MinUsefulFileBytes
<1>2. Window!Bytes(open) \in Nat /\ Shown(open)
  BY DEF Open
<1>3. CASE path \in DOMAIN open \/ remaining < 400 \/ ~ Window!IsText(ws[path])
  <2>1. next = open
    BY <1>1, <1>3
  <2>2. Window!IsText(ws[path]) => DOMAIN open # {}
    <3>1. path \in DOMAIN open => DOMAIN open # {}
      OBVIOUS
    <3>2. remaining < 400 => DOMAIN open # {}
      <4> SUFFICES ASSUME DOMAIN open = {} PROVE ~ (remaining < 400)
        OBVIOUS
      <4>0. open = <<>>
        <5> DEFINE none == <<>>
        <5>1. open \in [DOMAIN open -> Nat] /\ none \in [{} -> Nat]
          BY <1>2, BytesOfNone DEF Shown
        <5> HIDE DEF none
        <5>2. open = none
          BY <5>1
        <5> QED BY <5>2 DEF none
      <4>1. Window!Bytes(open) = 0
        BY <4>0, BytesOfNone
      <4> QED BY <4>1
    <3> QED BY <1>3, <3>1, <3>2
  <2> QED BY <2>1, <2>2
<1>4. CASE path \notin DOMAIN open /\ ~ (remaining < 400) /\ Window!IsText(ws[path])
  <2>1. remaining \in Nat /\ remaining >= 400
    BY <1>2, <1>4 DEF Open
  <2>2. least = IF limits.file <= remaining THEN limits.file ELSE remaining
    <3> HIDE DEF remaining
    <3> QED BY <2>1, SmallerOfTwo
  <2> HIDE DEF remaining, least
  <2>3. least \in Nat /\ least >= 400 /\ least <= limits.file /\ least <= remaining
    BY <2>1, <2>2
  <2>4. ws[path].bytes \in Nat /\ ws[path].width \in 1 .. 4
    BY <1>4 DEF Window!Contents, Window!IsText
  <2>5. n \in Nat /\ n <= least /\ (n = ws[path].bytes \/ n > 400 - ws[path].width)
    BY <2>3, <2>4, CutFits, ZenonT(40)
  <2> HIDE DEF n
  <2>6. Shown(one) /\ Window!Bytes(one) = n
    BY <2>5, BytesOfOne
  <2>7. next = Window!Merged(one, open)
    BY <1>1, <1>4
  <2>8. /\ DOMAIN next = {path} \cup DOMAIN open
        /\ next[path] = n
        /\ \A p \in DOMAIN open : next[p] = open[p]
    BY <1>4, <2>7 DEF Window!Merged
  <2> HIDE DEF one, next
  <2>9. Shown(next) /\ Window!Bytes(next) \in Nat /\ Window!Bytes(next) <= n + Window!Bytes(open)
    BY <1>2, <2>6, <2>7, BytesOfBoth
  <2>10. n + Window!Bytes(open) <= limits.files
    BY <1>2, <2>3, <2>5 DEF remaining
  <2>11. Window!Bytes(next) <= limits.files
    BY <1>2, <2>5, <2>9, <2>10
  <2>12. DOMAIN next \in SUBSET Paths
    <3>1. DOMAIN open \in SUBSET Paths
      BY DEF Open
    <3> QED BY <2>8, <3>1
  <2>13. next \in UNION {[T -> Nat] : T \in SUBSET Paths}
    BY <2>9, <2>12 DEF Shown
  <2>14. ASSUME NEW p \in DOMAIN next
         PROVE  next[p] <= limits.file /\ (next[p] = ws[p].bytes \/ next[p] > 400 - ws[p].width)
    <3>1. CASE p = path
      BY <2>3, <2>5, <2>8, <3>1
    <3>2. CASE p \in DOMAIN open
      BY <2>8, <3>2 DEF Open
    <3> QED BY <2>8, <3>1, <3>2
  <2>15. DOMAIN next # {}
    BY <2>8
  <2>16. Open(ws, limits, next)
    BY <2>9, <2>11, <2>13, <2>14 DEF Open
  <2> QED BY <2>8, <2>15, <2>16 DEF next
<1> QED BY <1>3, <1>4

\* open_files takes the paths one after another.
LEMMA OpenFilesSteps ==
  ASSUME NEW ws \in [Paths -> Window!Contents], NEW limits, limits.file \in Nat,
         limits.files \in Nat,
         limits.file >= 400, limits.files >= 400, NEW asked,
         Window!First(limits.open, asked) \in Seq(Paths), NEW n, n = Len(Window!First(limits.open, asked))
  PROVE  \E f : /\ f[0] = <<>>
                /\ \A k \in 1 .. n :
                     f[k] = Window!OpenFile(ws, limits, f[k - 1], Window!First(limits.open, asked)[k])
                /\ Window!OpenFiles(ws, limits, asked) = f[n]
<1> DEFINE seq == Window!First(limits.open, asked)
           D == 1 .. n
           X == {open \in UNION {[T -> Nat] : T \in SUBSET Paths} : Open(ws, limits, open)}
           Step(i, open) == Window!OpenFile(ws, limits, open, seq[i])
           step == [p \in D \X X |-> Step(p[1], p[2])]
           Is(it) == it = [T \in SUBSET DOMAIN seq |->
                            IF T = {} THEN <<>> ELSE Step(Window!Max(T), it[T \ {Window!Max(T)}])]
           fold == CHOOSE it : Is(it)
<1>1. n \in Nat /\ DOMAIN seq = D /\ \A i \in D : seq[i] \in Paths
  BY LenProperties, ElementOfSeq
<1> HIDE DEF seq
<1>2. <<>> \in X
  <2> DEFINE none == <<>>
  <2>1. DOMAIN none = {} /\ Shown(none) /\ Window!Bytes(none) = 0 /\ none \in [{} -> Nat]
    BY BytesOfNone DEF Shown
  <2>2. {} \in SUBSET Paths
    OBVIOUS
  <2> HIDE DEF none
  <2>3. none \in UNION {[T -> Nat] : T \in SUBSET Paths}
    BY <2>1, <2>2
  <2>4. 0 \in Nat /\ 0 <= limits.files
    OBVIOUS
  <2>5. Open(ws, limits, none)
    BY <2>1, <2>3, <2>4, Zenon DEF Open
  <2>6. none \in X
    BY <2>3, <2>5
  <2> QED BY <2>6 DEF none
<1>3. ASSUME NEW i \in D, NEW open \in X PROVE Step(i, open) \in X
  <2>1. Open(ws, limits, Step(i, open))
    BY <1>1, OneMoreFits
  <2> HIDE DEF Step
  <2> QED BY <2>1 DEF Open
<1>4. \A T \in SUBSET D : T # {} => Window!Max(T) \in T
  BY <1>1, LastIsMax
<1> HIDE DEF X, Step
<1>5. step \in [D \X X -> X] /\ \A i \in D, open \in X : step[<<i, open>>] = Step(i, open)
  BY <1>3
<1> HIDE DEF step
<1>6. PICK it : IsIteration(it, D, X, <<>>, Largest(n), step)
  BY <1>1, <1>2, <1>5, FoldExists
<1> HIDE DEF D
<1>7. Is(it)
  <2>1. it \in [SUBSET D -> X]
    BY <1>6 DEF IsIteration
  <2>2. ASSUME NEW T \in SUBSET D
        PROVE  it[T] = IF T = {} THEN <<>> ELSE Step(Window!Max(T), it[T \ {Window!Max(T)}])
    <3>1. it[T] = IF T = {} THEN <<>> ELSE step[<<Window!Max(T), it[T \ {Window!Max(T)}]>>]
      BY <1>6 DEF IsIteration, Largest, D
    <3>2. it[T \ {Window!Max(T)}] \in X
      BY <2>1
    <3> QED BY <1>4, <1>5, <3>1, <3>2
  <2> QED BY <1>1, <2>1, <2>2
<1>8. Is(fold)
  <2> HIDE DEF Is
  <2> QED BY <1>7, Zenon
<1>9. Window!OpenFiles(ws, limits, asked) = fold[DOMAIN seq]
  BY Zenon DEF Window!OpenFiles, Window!FoldLeft, Window!MapThenFoldSet, Step, seq
<1> HIDE DEF fold
<1>10. fold[{}] = <<>> /\ \A T \in SUBSET D :
         T # {} => fold[T] = Step(Window!Max(T), fold[T \ {Window!Max(T)}])
  BY <1>1, <1>8
<1> HIDE DEF Is
<1>11. PICK f : StepByStep(f, fold, n, X, <<>>, step)
  <2>1. n \in Nat /\ step \in [(1 .. n) \X X -> X]
    BY <1>1, <1>5 DEF D
  <2>2. IsFold(fold, n, X, <<>>, step)
    <3>1. \A T \in SUBSET D : T # {} /\ fold[T \ {Window!Max(T)}] \in X =>
             fold[T] = step[<<Window!Max(T), fold[T \ {Window!Max(T)}]>>]
      BY <1>4, <1>5, <1>10
    <3> QED BY <1>10, <3>1 DEF D, IsFold
  <2> QED BY <1>2, <2>1, <2>2, FoldTakesSteps
<1>12. ASSUME NEW k \in 1 .. n PROVE f[k] = Step(k, f[k - 1])
  <2>1. k - 1 \in 0 .. n
    BY <1>1
  <2> QED BY <1>5, <1>11, <2>1 DEF StepByStep, D
<1>13. f[0] = <<>> /\ fold[1 .. n] = f[n]
  BY <1>11 DEF StepByStep
<1> QED BY <1>1, <1>9, <1>12, <1>13 DEF D, Step, seq

\* What one request shows fits, and is something if a text is among the first dozen.
LEMMA OneRequestFits ==
  ASSUME NEW ws \in [Paths -> Window!Contents], NEW limits, limits.file \in Nat,
         limits.files \in Nat,
         limits.file >= 400, limits.files >= 400, NEW asked,
         Window!First(limits.open, asked) \in Seq(Paths)
  PROVE  /\ Open(ws, limits, Window!OpenFiles(ws, limits, asked))
         /\ (\E path \in Window!Range(Window!First(limits.open, asked)) : Window!IsText(ws[path])) =>
              Window!OpenFiles(ws, limits, asked) # <<>>
<1> DEFINE seq == Window!First(limits.open, asked)
           n == Len(seq)
<1>1. n \in Nat /\ DOMAIN seq = 1 .. n /\ \A i \in 1 .. n : seq[i] \in Paths
  BY LenProperties, ElementOfSeq
<1>2. PICK f : /\ f[0] = <<>>
               /\ \A k \in 1 .. n : f[k] = Window!OpenFile(ws, limits, f[k - 1], seq[k])
               /\ Window!OpenFiles(ws, limits, asked) = f[n]
  BY OpenFilesSteps, SMTT(20)
<1> HIDE DEF seq, n
<1>3. \A k \in 0 .. n : Open(ws, limits, f[k])
  <2> DEFINE P == {k \in 0 .. n : Open(ws, limits, f[k])}
  <2>1. 0 \in P
    BY <1>1, <1>2, NoneOpen
  <2>2. ASSUME NEW k \in 1 .. n, k - 1 \in P PROVE k \in P
    <3>1. k \in 0 .. n
      BY <1>1
    <3>2. Open(ws, limits, Window!OpenFile(ws, limits, f[k - 1], seq[k]))
      BY <1>1, <2>2, OneMoreFits
    <3> QED BY <1>2, <3>1, <3>2
  <2>3. \A k \in 0 .. n : k \in P
    <3> HIDE DEF P
    <3> QED BY <1>1, <2>1, <2>2, Counting
  <2> QED BY <2>3
<1>4. ASSUME NEW i \in 1 .. n, Window!IsText(ws[seq[i]]) PROVE DOMAIN f[n] # {}
  <2> DEFINE P == {k \in 0 .. n : i <= k => DOMAIN f[k] # {}}
  <2>1. 0 \in P
    BY <1>1
  <2>2. ASSUME NEW k \in 1 .. n, k - 1 \in P PROVE k \in P
    <3>1. k \in 0 .. n /\ k - 1 \in 0 .. n
      BY <1>1
    <3>2. /\ f[k] = Window!OpenFile(ws, limits, f[k - 1], seq[k])
          /\ DOMAIN f[k - 1] \subseteq DOMAIN f[k]
          /\ Window!IsText(ws[seq[k]]) => DOMAIN f[k] # {}
      <4>1. Open(ws, limits, f[k - 1]) /\ seq[k] \in Paths
        BY <1>1, <1>3, <3>1
      <4>2. f[k] = Window!OpenFile(ws, limits, f[k - 1], seq[k])
        BY <1>2
      <4> QED BY <4>1, <4>2, OneMoreFits
    <3>3. CASE i = k
      BY <1>4, <3>1, <3>2, <3>3
    <3>4. CASE i # k
      <4>1. i <= k => i <= k - 1
        BY <1>1, <3>4
      <4>2. i <= k => DOMAIN f[k - 1] # {}
        BY <2>2, <4>1
      <4> QED BY <3>1, <3>2, <4>2
    <3> QED BY <3>3, <3>4
  <2>3. \A k \in 0 .. n : k \in P
    <3> HIDE DEF P
    <3> QED BY <1>1, <2>1, <2>2, Counting
  <2>4. n \in 0 .. n /\ i <= n
    BY <1>1
  <2> QED BY <2>3, <2>4
<1>5. (\E path \in Window!Range(seq) : Window!IsText(ws[path])) => f[n] # <<>>
  <2>1. \A path \in Window!Range(seq) : \E i \in 1 .. n : path = seq[i]
    BY <1>1 DEF Window!Range
  <2> QED BY <1>4, <2>1, BytesOfNone
<1>6. n \in 0 .. n
  BY <1>1
<1> QED BY <1>2, <1>3, <1>5, <1>6 DEF seq

\* Turn after turn.
TurnByTurn(f, ws, limits, relevant, turns) ==
  /\ f[0] = Window!OpenFiles(ws, limits, relevant)
  /\ \A k \in 1 .. Len(turns) :
       f[k] = Window!Merged(Window!OpenFiles(ws, limits, turns[k]), f[k - 1])
  /\ Window!ShownAfter(ws, limits, relevant, turns) = f[Len(turns)]

\* The files that a worker is shown, as the engine collects them.
LEMMA ShownSteps ==
  ASSUME NEW ws \in [Paths -> Window!Contents], NEW limits, limits.file \in Nat,
         limits.files \in Nat,
         limits.file >= 400, limits.files >= 400, NEW relevant \in Seq(Paths),
            NEW turns \in Seq(Seq(Paths)),
         \A asked \in Seq(Paths) : Window!First(limits.open, asked) \in Seq(Paths)
  PROVE  \E f : TurnByTurn(f, ws, limits, relevant, turns)
<1> DEFINE n == Len(turns)
           D == 1 .. n
           X == {open \in UNION {[T -> Nat] : T \in SUBSET Paths} : Shown(open)}
           x0 == Window!OpenFiles(ws, limits, relevant)
           Step(i, open) == Window!Merged(Window!OpenFiles(ws, limits, turns[i]), open)
           step == [p \in D \X X |-> Step(p[1], p[2])]
           Is(it) == it = [T \in SUBSET DOMAIN turns |->
                            IF T = {} THEN x0 ELSE Step(Window!Max(T), it[T \ {Window!Max(T)}])]
           fold == CHOOSE it : Is(it)
<1>1. n \in Nat /\ DOMAIN turns = D /\ \A i \in D : turns[i] \in Seq(Paths)
  BY LenProperties, ElementOfSeq
<1>2. \A asked \in Seq(Paths) : Window!OpenFiles(ws, limits, asked) \in X
  BY OneRequestFits, ZenonT(40) DEF Open
<1>3. ASSUME NEW i \in D, NEW open \in X PROVE Step(i, open) \in X
  <2> DEFINE now == Window!OpenFiles(ws, limits, turns[i])
             both == Window!Merged(now, open)
  <2>1. now \in X
    BY <1>1, <1>2
  <2> HIDE DEF now
  <2>2. Shown(both) /\ DOMAIN both = DOMAIN now \cup DOMAIN open
    BY <2>1, BytesOfBoth DEF Window!Merged
  <2> HIDE DEF both
  <2>3. DOMAIN both \in SUBSET Paths
    BY <2>1, <2>2
  <2>4. both \in X
    BY <2>2, <2>3 DEF Shown
  <2> QED BY <2>4 DEF both, now
<1>4. \A T \in SUBSET D : T # {} => Window!Max(T) \in T
  BY <1>1, LastIsMax
<1> HIDE DEF X, Step
<1>5. step \in [D \X X -> X] /\ \A i \in D, open \in X : step[<<i, open>>] = Step(i, open)
  BY <1>3
<1> HIDE DEF step, x0
<1>6. PICK it : IsIteration(it, D, X, x0, Largest(n), step)
  BY <1>1, <1>2, <1>5, FoldExists DEF x0
<1> HIDE DEF D, n
<1>7. Is(it)
  <2>1. it \in [SUBSET D -> X]
    BY <1>6 DEF IsIteration
  <2>2. ASSUME NEW T \in SUBSET D
        PROVE  it[T] = IF T = {} THEN x0 ELSE Step(Window!Max(T), it[T \ {Window!Max(T)}])
    <3>1. it[T] = IF T = {} THEN x0 ELSE step[<<Window!Max(T), it[T \ {Window!Max(T)}]>>]
      BY <1>6 DEF IsIteration, Largest, D
    <3>2. it[T \ {Window!Max(T)}] \in X
      BY <2>1
    <3> QED BY <1>4, <1>5, <3>1, <3>2
  <2> QED BY <1>1, <2>1, <2>2
<1>8. Is(fold)
  <2> HIDE DEF Is
  <2> QED BY <1>7, Zenon
<1>9. Window!ShownAfter(ws, limits, relevant, turns) = fold[DOMAIN turns]
  BY Zenon DEF Window!ShownAfter, Window!FoldLeft, Window!MapThenFoldSet, Step, x0
<1> HIDE DEF fold
<1>10. fold[{}] = x0 /\ \A T \in SUBSET D :
         T # {} => fold[T] = Step(Window!Max(T), fold[T \ {Window!Max(T)}])
  BY <1>1, <1>8
<1> HIDE DEF Is
<1>11. PICK f : StepByStep(f, fold, n, X, x0, step)
  <2>1. n \in Nat /\ step \in [(1 .. n) \X X -> X]
    BY <1>1, <1>5 DEF D
  <2>2. IsFold(fold, n, X, x0, step)
    <3>1. \A T \in SUBSET D : T # {} /\ fold[T \ {Window!Max(T)}] \in X =>
             fold[T] = step[<<Window!Max(T), fold[T \ {Window!Max(T)}]>>]
      BY <1>4, <1>5, <1>10
    <3> QED BY <1>10, <3>1 DEF D, IsFold
  <2>3. x0 \in X
    BY <1>2 DEF x0
  <2> QED BY <2>1, <2>2, <2>3, FoldTakesSteps
<1>12. ASSUME NEW k \in 1 .. n PROVE f[k] = Step(k, f[k - 1])
  <2>1. k - 1 \in 0 .. n
    BY <1>1
  <2> QED BY <1>5, <1>11, <2>1 DEF StepByStep, D
<1>13. f[0] = x0 /\ fold[1 .. n] = f[n]
  BY <1>11 DEF StepByStep
<1> QED BY <1>1, <1>9, <1>12, <1>13 DEF D, TurnByTurn, Step, x0, n

\* The first dozen of a list of paths is one.
LEMMA FirstOfAsked ==
  ASSUME NEW asked \in Seq(Paths)
  PROVE  Window!First(12, asked) \in Seq(Paths)
<1> DEFINE m == Window!Min({12, Len(asked)})
<1>1. Len(asked) \in Nat
  BY LenProperties
<1>2. m \in Int /\ m <= Len(asked)
  BY <1>1, SmallerOfTwo
<1> HIDE DEF m
<1>3. \A i \in 1 .. m : asked[i] \in Paths
  BY <1>1, <1>2, ElementOfSeq
<1>4. SubSeq(asked, 1, m) \in Seq(Paths)
  BY <1>2, <1>3, SubSeqProperties
<1> QED BY <1>4 DEF Window!First, m

\* n budgets for n requests.
LEMMA BudgetsAddUp ==
  ASSUME NEW n \in Nat, NEW budget \in Nat, NEW k \in 1 .. n, NEW a \in Nat, NEW b \in Nat,
         NEW both \in Nat,
         a <= budget, b <= (1 + (k - 1)) * budget, both <= a + b
  PROVE  both <= (1 + k) * budget
<1>1. (1 + k) * budget = budget + (1 + (k - 1)) * budget
  OBVIOUS
<1> DEFINE c == (1 + (k - 1)) * budget
<1>2. c \in Int
  OBVIOUS
<1> HIDE DEF c
<1>3. both <= budget + c
  BY <1>2 DEF c
<1> QED BY <1>1, <1>3 DEF c

\* However many turns there are, each request stays within its budget, and all of them within
\* theirs.
LEMMA FilesFit ==
  ASSUME NEW ws \in [Paths -> Window!Contents], NEW window \in Nat, NEW relevant \in Seq(Paths),
         NEW turns \in Seq(Seq(Paths))
  PROVE  Window!ShownFilesFit(ws, window, relevant, turns)
<1> DEFINE limits == Window!Limits(window)
           n == Len(turns)
<1>1. limits.file \in Nat /\ limits.files \in Nat /\ limits.file >= 400 /\ limits.files >= 400
      /\ limits.open = 12
  <2> DEFINE c == 3 * ((window * 65) \div 100)
  <2>1. c \in Nat /\ FollowFrom(limits, c)
    BY LimitsAre
  <2> HIDE DEF c
  <2>2. (c * 45) \div 100 \in Int /\ ((c * 45) \div 100) \div 3 \in Int
    BY <2>1
  <2> QED BY <2>1, <2>2 DEF FollowFrom, ClampTo
<1> HIDE DEF limits
<1>2. \A asked \in Seq(Paths) : Window!First(limits.open, asked) \in Seq(Paths)
  BY <1>1, FirstOfAsked
<1>3. \A asked \in Seq(Paths) :
        /\ Open(ws, limits, Window!OpenFiles(ws, limits, asked))
        /\ (\E path \in Window!Range(Window!First(limits.open, asked)) : Window!IsText(ws[path])) =>
             Window!OpenFiles(ws, limits, asked) # <<>>
  BY <1>1, <1>2, OneRequestFits
<1>4. n \in Nat /\ \A i \in 1 .. n : turns[i] \in Seq(Paths)
  BY LenProperties, ElementOfSeq
<1>5. \A asked \in Window!Range(<<relevant>> \o turns) : asked \in Seq(Paths)
  <2> DEFINE all == <<relevant>> \o turns
  <2>1. <<relevant>> \in Seq(Seq(Paths))
    OBVIOUS
  <2>2. all \in Seq(Seq(Paths))
    BY <2>1, ConcatProperties
  <2> HIDE DEF all
  <2>3. \A i \in DOMAIN all : all[i] \in Seq(Paths)
    BY <2>2
  <2> QED BY <2>3 DEF Window!Range, all
<1> HIDE DEF n
<1>12. PICK f : TurnByTurn(f, ws, limits, relevant, turns)
  BY <1>1, <1>2, ShownSteps
<1>6. /\ f[0] = Window!OpenFiles(ws, limits, relevant)
      /\ \A k \in 1 .. n : f[k] = Window!Merged(Window!OpenFiles(ws, limits, turns[k]), f[k - 1])
      /\ Window!ShownAfter(ws, limits, relevant, turns) = f[n]
  BY <1>12 DEF TurnByTurn, n
<1> DEFINE P == {k \in 0 .. n : /\ Shown(f[k]) /\ Window!Bytes(f[k]) \in Nat
                               /\ Window!Bytes(f[k]) <= (1 + k) * limits.files}
<1>7. 0 \in P
  <2>1. Open(ws, limits, f[0])
    BY <1>3, <1>6
  <2>2. (1 + 0) * limits.files = limits.files
    BY <1>1
  <2> QED BY <1>4, <2>1, <2>2 DEF Open
<1>8. ASSUME NEW k \in 1 .. n, k - 1 \in P PROVE k \in P
  <2> DEFINE now == Window!OpenFiles(ws, limits, turns[k])
             a == Window!Bytes(now)
             b == Window!Bytes(f[k - 1])
             both == Window!Bytes(f[k])
  <2>1. Shown(now) /\ a \in Nat /\ a <= limits.files
    BY <1>3, <1>4 DEF Open
  <2>2. Shown(f[k - 1]) /\ b \in Nat /\ b <= (1 + (k - 1)) * limits.files
    BY <1>8
  <2>3. f[k] = Window!Merged(now, f[k - 1])
    BY <1>6
  <2> HIDE DEF now
  <2>4. Shown(f[k]) /\ both \in Nat /\ both <= a + b
    BY <2>1, <2>2, <2>3, BytesOfBoth
  <2> HIDE DEF a, b, both
  <2>5. both <= (1 + k) * limits.files
    BY <1>1, <1>4, <2>1, <2>2, <2>4, BudgetsAddUp
  <2>6. k \in 0 .. n
    BY <1>4
  <2> QED BY <2>4, <2>5, <2>6 DEF both
<1>9. \A k \in 0 .. n : k \in P
  <2> HIDE DEF P
  <2> QED BY <1>4, <1>7, <1>8, Counting
<1>10. Window!Bytes(f[n]) <= (1 + n) * limits.files
  BY <1>4, <1>9
<1>11. ASSUME NEW asked \in Window!Range(<<relevant>> \o turns)
       PROVE  LET open == Window!OpenFiles(ws, limits, asked)
              IN  /\ Window!Bytes(open) <= limits.files
                  /\ \A path \in DOMAIN open :
                       /\ open[path] <= limits.file
                       /\ open[path] = ws[path].bytes \/ open[path] > 400 - ws[path].width
                  /\ (\E path \in Window!Range(Window!First(limits.open, asked)) :
                         Window!IsText(ws[path])) =>
                       open # <<>>
  BY <1>3, <1>5 DEF Open
<1> QED BY <1>6, <1>10, <1>11 DEF Window!ShownFilesFit, Window!MinUsefulFileBytes, limits, n

\* Each request for files keeps to its budget and several requests to one each, the planned
\* limits fit the window, and the diff is cut as if once, for every window, workspace, request
\* and diff (ContextLimits, open_files, merge_open_files, cap_diff).
THEOREM ContextAlwaysFits == Spec => []ContextFits
<1>1. PickedRight => ContextFits
  <2> SUFFICES ASSUME PickedRight PROVE ContextFits
    OBVIOUS
  <2>1. ASSUME probe.about = "files"
        PROVE  Window!ShownFilesFit(probe.input.ws, probe.input.window, probe.input.relevant,
                                    probe.input.turns)
    <3>1. probe.input \in Requests
      BY <2>1 DEF PickedRight
    <3>2. /\ probe.input.ws \in [Paths -> Window!Contents] /\ probe.input.window \in Nat
          /\ probe.input.relevant \in Seq(Paths) /\ probe.input.turns \in Seq(Seq(Paths))
      BY <3>1, RequestsAssumption
    <3> QED BY <3>2, FilesFit
  <2>2. ASSUME probe.about = "diff"
        PROVE  /\ Window!LimitsFit(probe.input.worker)
               /\ Window!DiffIsShown(probe.input.bytes, probe.input.worker, probe.input.reader)
    <3>1. probe.input \in Diffs
      BY <2>2 DEF PickedRight
    <3>2. /\ probe.input.bytes \in Nat /\ probe.input.worker \in Nat
          /\ probe.input.reader \in Nat
      BY <3>1, DiffsAssumption
    <3> QED BY <3>2, CeilingFits, DiffIsCutOnce
  <2> QED BY <2>1, <2>2 DEF ContextFits
<1> QED BY <1>1, InputsArePicked, PTL

-----------------------------------------------------------------------------
(* Web search: search_all *)

\* The smallest and the largest of a set are what they are everywhere.
LEMMA SameBounds == ASSUME NEW S PROVE Web!Max(S) = Window!Max(S) /\ Web!Min(S) = Window!Min(S)
BY DEF Web!Max, Window!Max, Web!Min, Window!Min

\* The links that are kept of some are taken up one after another.
KeptInSteps(f, S, links, worth) ==
  /\ f \in [0 .. Len(links) -> Seq(S)]
  /\ f[0] = <<>>
  /\ \A k \in 1 .. Len(links) :
       f[k] = IF links[k] \in worth THEN Append(f[k - 1], links[k]) ELSE f[k - 1]
  /\ Web!Select(links, worth) = f[Len(links)]

LEMMA SelectSteps ==
  ASSUME NEW S, NEW links \in Seq(S), NEW worth
  PROVE  \E f : KeptInSteps(f, S, links, worth)
<1> DEFINE n == Len(links)
           D == 1 .. n
           X == Seq(S)
           Step(i, kept) == IF links[i] \in worth THEN Append(kept, links[i]) ELSE kept
           step == [p \in D \X X |-> Step(p[1], p[2])]
           Is(it) == it = [T \in SUBSET DOMAIN links |->
                            IF T = {} THEN <<>> ELSE Step(Web!Max(T), it[T \ {Web!Max(T)}])]
           fold == CHOOSE it : Is(it)
<1>1. n \in Nat /\ DOMAIN links = D /\ \A i \in D : links[i] \in S
  BY LenProperties, ElementOfSeq
<1>2. <<>> \in X
  BY EmptySeq
<1>3. ASSUME NEW i \in D, NEW kept \in X PROVE Step(i, kept) \in X
  BY <1>1, AppendProperties
<1>4. \A T \in SUBSET D : T # {} => Web!Max(T) \in T
  BY <1>1, LastIsMax, SameBounds
<1> HIDE DEF X, Step
<1>5. step \in [D \X X -> X] /\ \A i \in D, kept \in X : step[<<i, kept>>] = Step(i, kept)
  BY <1>3
<1> HIDE DEF step
<1>6. PICK it : IsIteration(it, D, X, <<>>, Largest(n), step)
  BY <1>1, <1>2, <1>5, FoldExists
<1> HIDE DEF D
<1>7. Is(it)
  <2>1. it \in [SUBSET D -> X]
    BY <1>6 DEF IsIteration
  <2>2. ASSUME NEW T \in SUBSET D
        PROVE  it[T] = IF T = {} THEN <<>> ELSE Step(Web!Max(T), it[T \ {Web!Max(T)}])
    <3>1. it[T] = IF T = {} THEN <<>> ELSE step[<<Web!Max(T), it[T \ {Web!Max(T)}]>>]
      <4>1. Web!Max(T) = Window!Max(T)
        BY SameBounds
      <4> QED BY <1>6, <4>1 DEF IsIteration, Largest, D
    <3>2. it[T \ {Web!Max(T)}] \in X
      BY <2>1
    <3> QED BY <1>4, <1>5, <3>1, <3>2
  <2> QED BY <1>1, <2>1, <2>2
<1>8. Is(fold)
  <2> HIDE DEF Is
  <2> QED BY <1>7, Zenon
<1>9. Web!Select(links, worth) = fold[DOMAIN links]
  BY Zenon DEF Web!Select, Web!FoldLeft, Web!MapThenFoldSet, Step
<1> HIDE DEF fold
<1>10. fold[{}] = <<>> /\ \A T \in SUBSET D :
         T # {} => fold[T] = Step(Web!Max(T), fold[T \ {Web!Max(T)}])
  BY <1>1, <1>8
<1> HIDE DEF Is, n
<1>11. PICK f : StepByStep(f, fold, n, X, <<>>, step)
  <2>1. \A T \in SUBSET D : T # {} /\ fold[T \ {Window!Max(T)}] \in X =>
           fold[T] = step[<<Window!Max(T), fold[T \ {Window!Max(T)}]>>]
    <3>1. \A T \in SUBSET D : Web!Max(T) = Window!Max(T)
      BY SameBounds
    <3>2. \A T \in SUBSET D : T # {} /\ fold[T \ {Web!Max(T)}] \in X =>
             fold[T] = step[<<Web!Max(T), fold[T \ {Web!Max(T)}]>>]
      BY <1>4, <1>5, <1>10
    <3> QED BY <3>1, <3>2
  <2>2. n \in Nat /\ step \in [(1 .. n) \X X -> X]
    BY <1>1, <1>5 DEF D
  <2>3. IsFold(fold, n, X, <<>>, step)
    BY <1>10, <2>1 DEF D, IsFold
  <2> QED BY <1>2, <2>2, <2>3, FoldTakesSteps
<1>12. ASSUME NEW k \in 1 .. n PROVE f[k] = Step(k, f[k - 1])
  <2>1. k - 1 \in 0 .. n
    BY <1>1
  <2> QED BY <1>5, <1>11, <2>1 DEF StepByStep, D
<1>13. f[0] = <<>> /\ f \in [0 .. n -> X] /\ fold[1 .. n] = f[n]
  BY <1>11 DEF StepByStep
<1> QED BY <1>1, <1>9, <1>12, <1>13 DEF KeptInSteps, Step, X, D, n

\* So are the links that were not seen yet.
NewInSteps(f, S, links, seen) ==
  /\ f \in [0 .. Len(links) -> Seq(S)]
  /\ f[0] = <<>>
  /\ \A k \in 1 .. Len(links) :
       f[k] = IF Web!Url(links[k]) \in seen \cup Web!Urls(f[k - 1]) THEN f[k - 1]
              ELSE Append(f[k - 1], links[k])
  /\ Web!Unseen(links, seen) = f[Len(links)]

LEMMA UnseenSteps ==
  ASSUME NEW S, NEW links \in Seq(S), NEW seen
  PROVE  \E f : NewInSteps(f, S, links, seen)
<1> DEFINE n == Len(links)
           D == 1 .. n
           X == Seq(S)
           Step(i, kept) == IF Web!Url(links[i]) \in seen \cup Web!Urls(kept) THEN kept
                            ELSE Append(kept, links[i])
           step == [p \in D \X X |-> Step(p[1], p[2])]
           Is(it) == it = [T \in SUBSET DOMAIN links |->
                            IF T = {} THEN <<>> ELSE Step(Web!Max(T), it[T \ {Web!Max(T)}])]
           fold == CHOOSE it : Is(it)
<1>1. n \in Nat /\ DOMAIN links = D /\ \A i \in D : links[i] \in S
  BY LenProperties, ElementOfSeq
<1>2. <<>> \in X
  BY EmptySeq
<1>3. ASSUME NEW i \in D, NEW kept \in X PROVE Step(i, kept) \in X
  BY <1>1, AppendProperties
<1>4. \A T \in SUBSET D : T # {} => Web!Max(T) \in T
  BY <1>1, LastIsMax, SameBounds
<1> HIDE DEF X, Step
<1>5. step \in [D \X X -> X] /\ \A i \in D, kept \in X : step[<<i, kept>>] = Step(i, kept)
  BY <1>3
<1> HIDE DEF step
<1>6. PICK it : IsIteration(it, D, X, <<>>, Largest(n), step)
  BY <1>1, <1>2, <1>5, FoldExists
<1> HIDE DEF D
<1>7. Is(it)
  <2>1. it \in [SUBSET D -> X]
    BY <1>6 DEF IsIteration
  <2>2. ASSUME NEW T \in SUBSET D
        PROVE  it[T] = IF T = {} THEN <<>> ELSE Step(Web!Max(T), it[T \ {Web!Max(T)}])
    <3>1. it[T] = IF T = {} THEN <<>> ELSE step[<<Web!Max(T), it[T \ {Web!Max(T)}]>>]
      <4>1. Web!Max(T) = Window!Max(T)
        BY SameBounds
      <4> QED BY <1>6, <4>1 DEF IsIteration, Largest, D
    <3>2. it[T \ {Web!Max(T)}] \in X
      BY <2>1
    <3> QED BY <1>4, <1>5, <3>1, <3>2
  <2> QED BY <1>1, <2>1, <2>2
<1>8. Is(fold)
  <2> HIDE DEF Is
  <2> QED BY <1>7, Zenon
<1>9. Web!Unseen(links, seen) = fold[DOMAIN links]
  BY Zenon DEF Web!Unseen, Web!FoldLeft, Web!MapThenFoldSet, Step
<1> HIDE DEF fold
<1>10. fold[{}] = <<>> /\ \A T \in SUBSET D :
         T # {} => fold[T] = Step(Web!Max(T), fold[T \ {Web!Max(T)}])
  BY <1>1, <1>8
<1> HIDE DEF Is, n
<1>11. PICK f : StepByStep(f, fold, n, X, <<>>, step)
  <2>1. \A T \in SUBSET D : T # {} /\ fold[T \ {Window!Max(T)}] \in X =>
           fold[T] = step[<<Window!Max(T), fold[T \ {Window!Max(T)}]>>]
    <3>1. \A T \in SUBSET D : Web!Max(T) = Window!Max(T)
      BY SameBounds
    <3>2. \A T \in SUBSET D : T # {} /\ fold[T \ {Web!Max(T)}] \in X =>
             fold[T] = step[<<Web!Max(T), fold[T \ {Web!Max(T)}]>>]
      BY <1>4, <1>5, <1>10
    <3> QED BY <3>1, <3>2
  <2>2. n \in Nat /\ step \in [(1 .. n) \X X -> X]
    BY <1>1, <1>5 DEF D
  <2>3. IsFold(fold, n, X, <<>>, step)
    BY <1>10, <2>1 DEF D, IsFold
  <2> QED BY <1>2, <2>2, <2>3, FoldTakesSteps
<1>12. ASSUME NEW k \in 1 .. n PROVE f[k] = Step(k, f[k - 1])
  <2>1. k - 1 \in 0 .. n
    BY <1>1
  <2> QED BY <1>5, <1>11, <2>1 DEF StepByStep, D
<1>13. f[0] = <<>> /\ f \in [0 .. n -> X] /\ fold[1 .. n] = f[n]
  BY <1>11 DEF StepByStep
<1> QED BY <1>1, <1>9, <1>12, <1>13 DEF NewInSteps, Step, X, D, n
\* What is known between two queries of a search.
Found(S) == [seen : SUBSET {Web!Url(l) : l \in S}, text : Seq(S), panics : BOOLEAN]

\* And the queries of a search.
SearchedInSteps(f, S, engine, queries) ==
  /\ f \in [0 .. Len(queries) -> Found(S)]
  /\ f[0] = [seen |-> {}, text |-> <<>>, panics |-> FALSE]
  /\ \A k \in 1 .. Len(queries) :
       f[k] = Web!Add(engine, f[k - 1], Web!Search(engine, queries[k]))
  /\ Web!SearchAll(engine, queries) = f[Len(queries)]

LEMMA SearchAllSteps ==
  ASSUME NEW S, NEW engine, NEW A, NEW queries \in Seq(A),
         \A st \in Found(S), q \in DOMAIN queries :
           Web!Add(engine, st, Web!Search(engine, queries[q])) \in Found(S)
  PROVE  \E f : SearchedInSteps(f, S, engine, queries)
<1> DEFINE n == Len(queries)
           D == 1 .. n
           X == Found(S)
           results == [q \in DOMAIN queries |-> Web!Search(engine, queries[q])]
           Step(i, st) == Web!Add(engine, st, results[i])
           none == [seen |-> {}, text |-> <<>>, panics |-> FALSE]
           step == [p \in D \X X |-> Step(p[1], p[2])]
           Is(it) == it = [T \in SUBSET DOMAIN results |->
                            IF T = {} THEN none ELSE Step(Web!Max(T), it[T \ {Web!Max(T)}])]
           fold == CHOOSE it : Is(it)
<1>1. n \in Nat /\ DOMAIN results = D /\ DOMAIN queries = D
  BY LenProperties
<1>2. none \in X
  BY EmptySeq DEF Found
<1>3. ASSUME NEW i \in D, NEW st \in X PROVE Step(i, st) \in X
  BY <1>1
<1>4. \A T \in SUBSET D : T # {} => Web!Max(T) \in T
  BY <1>1, LastIsMax, SameBounds
<1> HIDE DEF X, Step, none
<1>5. step \in [D \X X -> X] /\ \A i \in D, st \in X : step[<<i, st>>] = Step(i, st)
  BY <1>3
<1> HIDE DEF step
<1>6. PICK it : IsIteration(it, D, X, none, Largest(n), step)
  BY <1>1, <1>2, <1>5, FoldExists
<1> HIDE DEF D
<1>7. Is(it)
  <2>1. it \in [SUBSET D -> X]
    BY <1>6 DEF IsIteration
  <2>2. ASSUME NEW T \in SUBSET D
        PROVE  it[T] = IF T = {} THEN none ELSE Step(Web!Max(T), it[T \ {Web!Max(T)}])
    <3>1. it[T] = IF T = {} THEN none ELSE step[<<Web!Max(T), it[T \ {Web!Max(T)}]>>]
      <4>1. Web!Max(T) = Window!Max(T)
        BY SameBounds
      <4> QED BY <1>6, <4>1 DEF IsIteration, Largest, D
    <3>2. it[T \ {Web!Max(T)}] \in X
      BY <2>1
    <3> QED BY <1>4, <1>5, <3>1, <3>2
  <2> QED BY <1>1, <2>1, <2>2
<1>8. Is(fold)
  <2> HIDE DEF Is
  <2> QED BY <1>7, Zenon
<1>9. Web!SearchAll(engine, queries) = fold[DOMAIN results]
  BY Zenon DEF Web!SearchAll, Web!FoldLeft, Web!MapThenFoldSet, Step, none, results
<1> HIDE DEF fold
<1>10. fold[{}] = none /\ \A T \in SUBSET D :
         T # {} => fold[T] = Step(Web!Max(T), fold[T \ {Web!Max(T)}])
  BY <1>1, <1>8
<1> HIDE DEF Is, n
<1>11. PICK f : StepByStep(f, fold, n, X, none, step)
  <2>1. \A T \in SUBSET D : T # {} /\ fold[T \ {Window!Max(T)}] \in X =>
           fold[T] = step[<<Window!Max(T), fold[T \ {Window!Max(T)}]>>]
    <3>1. \A T \in SUBSET D : Web!Max(T) = Window!Max(T)
      BY SameBounds
    <3>2. \A T \in SUBSET D : T # {} /\ fold[T \ {Web!Max(T)}] \in X =>
             fold[T] = step[<<Web!Max(T), fold[T \ {Web!Max(T)}]>>]
      BY <1>4, <1>5, <1>10
    <3> QED BY <3>1, <3>2
  <2>2. n \in Nat /\ step \in [(1 .. n) \X X -> X]
    BY <1>1, <1>5 DEF D
  <2>3. IsFold(fold, n, X, none, step)
    BY <1>10, <2>1 DEF D, IsFold
  <2> QED BY <1>2, <2>2, <2>3, FoldTakesSteps
<1>12. ASSUME NEW k \in 1 .. n PROVE f[k] = Step(k, f[k - 1])
  <2>1. k - 1 \in 0 .. n
    BY <1>1
  <2> QED BY <1>5, <1>11, <2>1 DEF StepByStep, D
<1>13. f[0] = none /\ f \in [0 .. n -> X] /\ fold[1 .. n] = f[n]
  BY <1>11 DEF StepByStep
<1> QED BY <1>1, <1>9, <1>12, <1>13 DEF SearchedInSteps, Step, X, D, n, none, results

\* No address is among some links twice.
Distinct(links) ==
  \A j, k \in DOMAIN links : j # k => Web!Url(links[j]) # Web!Url(links[k])

\* The addresses of links are those at their places.
LEMMA UrlsAre ==
  ASSUME NEW S, NEW links \in Seq(S)
  PROVE  /\ Web!Urls(links) = {Web!Url(links[i]) : i \in 1 .. Len(links)}
         /\ Web!Urls(links) \subseteq {Web!Url(l) : l \in S}
<1>1. DOMAIN links = 1 .. Len(links) /\ \A i \in 1 .. Len(links) : links[i] \in S
  BY LenProperties, ElementOfSeq
<1>2. Web!Range(links) = {links[i] : i \in 1 .. Len(links)}
  BY <1>1 DEF Web!Range
<1>3. Web!Urls(links) = {Web!Url(links[i]) : i \in 1 .. Len(links)}
  BY <1>2, Zenon DEF Web!Urls
<1> QED BY <1>1, <1>3

\* A new link brings its address.
LEMMA OneLinkMore ==
  ASSUME NEW S, NEW links \in Seq(S), NEW l \in S
  PROVE  /\ Append(links, l) \in Seq(S) /\ Len(Append(links, l)) = Len(links) + 1
         /\ Web!Urls(Append(links, l)) = Web!Urls(links) \cup {Web!Url(l)}
         /\ Distinct(links) /\ Web!Url(l) \notin Web!Urls(links) => Distinct(Append(links, l))
<1> DEFINE more == Append(links, l)
           n == Len(links)
<1>1. /\ more \in Seq(S) /\ Len(more) = n + 1 /\ n \in Nat
      /\ more[n + 1] = l /\ \A i \in 1 .. n : more[i] = links[i]
      /\ DOMAIN links = 1 .. n /\ DOMAIN more = 1 .. n + 1
  BY AppendProperties, LenProperties
<1>2. /\ Web!Urls(links) = {Web!Url(links[i]) : i \in 1 .. n}
      /\ Web!Urls(more) = {Web!Url(more[i]) : i \in 1 .. n + 1}
  BY <1>1, UrlsAre
<1> HIDE DEF more, n
<1>3. 1 .. n + 1 = (1 .. n) \cup {n + 1} /\ n + 1 \notin 1 .. n
  BY <1>1
<1>4. Web!Urls(more) = Web!Urls(links) \cup {Web!Url(l)}
  BY <1>1, <1>2, <1>3, Zenon
<1>5. ASSUME Distinct(links), Web!Url(l) \notin Web!Urls(links) PROVE Distinct(more)
  <2> SUFFICES ASSUME NEW j \in 1 .. n + 1, NEW k \in 1 .. n + 1, j # k
               PROVE  Web!Url(more[j]) # Web!Url(more[k])
    BY <1>1 DEF Distinct
  <2>1. \A i \in 1 .. n : Web!Url(more[i]) # Web!Url(l)
    BY <1>1, <1>2, <1>5
  <2>2. \A i, h \in 1 .. n : i # h => Web!Url(more[i]) # Web!Url(more[h])
    BY <1>1, <1>5, Zenon DEF Distinct
  <2> QED BY <1>1, <1>3, <2>1, <2>2, Zenon
<1> QED BY <1>1, <1>4, <1>5 DEF more, n

\* Links behind others bring theirs.
LEMMA MoreLinks ==
  ASSUME NEW S, NEW links \in Seq(S), NEW new \in Seq(S)
  PROVE  /\ links \o new \in Seq(S)
         /\ Web!Urls(links \o new) = Web!Urls(links) \cup Web!Urls(new)
         /\ Distinct(links) /\ Distinct(new) /\ Web!Urls(links) \cap Web!Urls(new) = {} =>
              Distinct(links \o new)
<1> DEFINE both == links \o new
           n == Len(links)
           m == Len(new)
<1>1. /\ both \in Seq(S) /\ Len(both) = n + m /\ n \in Nat /\ m \in Nat
      /\ \A i \in 1 .. n + m : both[i] = IF i <= n THEN links[i] ELSE new[i - n]
      /\ DOMAIN links = 1 .. n /\ DOMAIN new = 1 .. m /\ DOMAIN both = 1 .. n + m
  BY ConcatProperties, LenProperties
<1>2. /\ Web!Urls(links) = {Web!Url(links[i]) : i \in 1 .. n}
      /\ Web!Urls(new) = {Web!Url(new[i]) : i \in 1 .. m}
      /\ Web!Urls(both) = {Web!Url(both[i]) : i \in 1 .. n + m}
  <2>1. /\ Web!Urls(links) = {Web!Url(links[i]) : i \in 1 .. n}
        /\ Web!Urls(new) = {Web!Url(new[i]) : i \in 1 .. m}
    BY UrlsAre
  <2>2. Web!Urls(both) = {Web!Url(both[i]) : i \in 1 .. Len(both)}
    <3> HIDE DEF both
    <3> QED BY <1>1, UrlsAre
  <2> QED BY <1>1, <2>1, <2>2, Zenon
<1> HIDE DEF both, n, m
<1>3. /\ \A i \in 1 .. n : i \in 1 .. n + m /\ both[i] = links[i]
      /\ \A i \in 1 .. m : n + i \in 1 .. n + m /\ both[n + i] = new[i]
  <2>1. \A i \in 1 .. n : i \in 1 .. n + m /\ i <= n
    BY <1>1
  <2>2. \A i \in 1 .. m : n + i \in 1 .. n + m /\ ~ (n + i <= n) /\ n + i - n = i
    BY <1>1
  <2> QED BY <1>1, <2>1, <2>2
<1>4. \A i \in 1 .. n + m : i \in 1 .. n \/ \E h \in 1 .. m : i = n + h
  <2> TAKE i \in 1 .. n + m
  <2>1. CASE i <= n
    BY <1>1, <2>1
  <2>2. CASE ~ (i <= n)
    <3>1. i - n \in 1 .. m /\ i = n + (i - n)
      BY <1>1, <2>2
    <3> QED BY <3>1
  <2> QED BY <2>1, <2>2
<1>5. Web!Urls(both) = Web!Urls(links) \cup Web!Urls(new)
  <2>1. ASSUME NEW u \in Web!Urls(both) PROVE u \in Web!Urls(links) \cup Web!Urls(new)
    <3>1. PICK i \in 1 .. n + m : u = Web!Url(both[i])
      BY <1>2, <2>1
    <3> QED BY <1>2, <1>3, <1>4, <3>1, Zenon
  <2>2. ASSUME NEW u \in Web!Urls(links) \cup Web!Urls(new) PROVE u \in Web!Urls(both)
    BY <1>2, <1>3, <2>2, Zenon
  <2> QED BY <2>1, <2>2
<1>6. ASSUME Distinct(links), Distinct(new), Web!Urls(links) \cap Web!Urls(new) = {}
      PROVE  Distinct(both)
  <2> SUFFICES ASSUME NEW j \in 1 .. n + m, NEW k \in 1 .. n + m, j # k
               PROVE  Web!Url(both[j]) # Web!Url(both[k])
    BY <1>1 DEF Distinct
  <2>1. ASSUME NEW i \in 1 .. n, NEW h \in 1 .. m
        PROVE  Web!Url(both[i]) # Web!Url(both[n + h])
    BY <1>2, <1>3, <1>6
  <2>2. CASE j \in 1 .. n /\ k \in 1 .. n
    BY <1>1, <1>3, <1>6, <2>2, Zenon DEF Distinct
  <2>3. ASSUME NEW i \in 1 .. m, NEW h \in 1 .. m, j = n + i, k = n + h
        PROVE  Web!Url(both[j]) # Web!Url(both[k])
    <3>1. i # h
      BY <2>3
    <3>2. Web!Url(new[i]) # Web!Url(new[h])
      BY <1>1, <1>6, <3>1, Zenon DEF Distinct
    <3>3. both[j] = new[i] /\ both[k] = new[h]
      BY <1>3, <2>3
    <3> QED BY <3>2, <3>3
  <2> QED BY <1>4, <2>1, <2>2, <2>3, Zenon
<1> QED BY <1>1, <1>5, <1>6 DEF both

\* The first ones of some links, which are all of them if there are not more.
LEMMA FirstOnes ==
  ASSUME NEW S, NEW links \in Seq(S), NEW n \in Nat
  PROVE  /\ Web!UpTo(n, links) \in Seq(S)
         /\ Len(Web!UpTo(n, links)) <= n /\ Len(Web!UpTo(n, links)) <= Len(links)
         /\ \A k \in 1 .. Len(Web!UpTo(n, links)) : Web!UpTo(n, links)[k] = links[k]
         /\ Len(links) <= n => Web!UpTo(n, links) = links
<1> DEFINE m == Web!Min({n, Len(links)})
           first == Web!UpTo(n, links)
<1>1. Len(links) \in Nat
  BY LenProperties
<1>2. m = IF n <= Len(links) THEN n ELSE Len(links)
  BY <1>1, SmallerOfTwo, SameBounds
<1>3. first = SubSeq(links, 1, m)
  BY DEF Web!UpTo
<1> HIDE DEF m, first
<1>4. m \in Nat /\ m <= n /\ m <= Len(links)
  BY <1>1, <1>2
<1>5. \A i \in 1 .. m : links[i] \in S
  BY <1>1, <1>4, ElementOfSeq
<1>6. first \in Seq(S) /\ Len(first) = m /\ \A k \in 1 .. m : first[k] = links[k]
  BY <1>3, <1>4, <1>5, SubSeqProperties
<1>7. ASSUME Len(links) <= n PROVE first = links
  <2>1. m = Len(links)
    BY <1>1, <1>2, <1>7
  <2>2. first \in Seq(S) /\ Len(first) = Len(links) /\ \A k \in 1 .. Len(links) : first[k] = links[k]
    BY <1>6, <2>1
  <2> QED BY <2>2, SeqEqual
<1> QED BY <1>4, <1>6, <1>7 DEF first

\* Those that are kept are not more than there were.
LEMMA KeptAreSome ==
  ASSUME NEW S, NEW links \in Seq(S), NEW worth
  PROVE  Web!Select(links, worth) \in Seq(S) /\ Len(Web!Select(links, worth)) <= Len(links)
<1> DEFINE n == Len(links)
<1>1. n \in Nat /\ \A k \in 1 .. n : links[k] \in S
  BY LenProperties, ElementOfSeq
<1>2. PICK f : KeptInSteps(f, S, links, worth)
  BY SelectSteps
<1>3. /\ f \in [0 .. n -> Seq(S)] /\ f[0] = <<>> /\ Web!Select(links, worth) = f[n]
      /\ \A k \in 1 .. n :
           f[k] = IF links[k] \in worth THEN Append(f[k - 1], links[k]) ELSE f[k - 1]
  BY <1>2 DEF KeptInSteps
<1> HIDE DEF n
<1> DEFINE P == {k \in 0 .. n : Len(f[k]) <= k}
<1>4. 0 \in P
  BY <1>1, <1>3
<1>5. ASSUME NEW k \in 1 .. n, k - 1 \in P PROVE k \in P
  <2>1. k \in 0 .. n /\ k - 1 \in 0 .. n /\ Len(f[k - 1]) <= k - 1
    BY <1>1, <1>5
  <2>2. f[k] = f[k - 1] \/ f[k] = Append(f[k - 1], links[k])
    BY <1>3, <2>1
  <2>3. f[k - 1] \in Seq(S) /\ Len(f[k - 1]) \in Nat
    BY <1>3, <2>1, LenProperties
  <2>4. Len(Append(f[k - 1], links[k])) = Len(f[k - 1]) + 1
    BY <1>1, <2>3, AppendProperties
  <2>5. Len(f[k]) = Len(f[k - 1]) \/ Len(f[k]) = Len(f[k - 1]) + 1
    BY <2>2, <2>4
  <2>6. Len(f[k]) <= k
    BY <2>1, <2>3, <2>5
  <2> QED BY <2>1, <2>6
<1>6. \A k \in 0 .. n : k \in P
  <2> HIDE DEF P
  <2> QED BY <1>1, <1>4, <1>5, Counting
<1>7. n \in 0 .. n
  BY <1>1
<1> QED BY <1>3, <1>6, <1>7 DEF n

\* What is left of some links: those of the first n whose address was not seen, once each.
LeftOf(new, S, links, seen, n) ==
  /\ new \in Seq(S) /\ Len(new) <= n
  /\ Distinct(new)
  /\ Web!Urls(new) = {Web!Url(links[i]) : i \in 1 .. n} \ seen
  /\ \A k \in DOMAIN new : \E i \in 1 .. n : new[k] = links[i]

LEMMA OneMoreLeft ==
  ASSUME NEW S, NEW links \in Seq(S), NEW seen, NEW k \in 1 .. Len(links),
         NEW old, LeftOf(old, S, links, seen, k - 1)
  PROVE  LeftOf(IF Web!Url(links[k]) \in seen \cup Web!Urls(old) THEN old
                ELSE Append(old, links[k]), S, links, seen, k)
<1> DEFINE l == links[k]
           more == Append(old, l)
           u == Web!Url(l)
           Before == {Web!Url(links[i]) : i \in 1 .. k - 1}
           Now == {Web!Url(links[i]) : i \in 1 .. k}
<1>1. /\ k \in Nat /\ k > 0 /\ l \in S
      /\ old \in Seq(S) /\ Len(old) <= k - 1 /\ Len(old) \in Nat /\ Distinct(old)
      /\ Web!Urls(old) = Before \ seen
      /\ \A j \in DOMAIN old : \E i \in 1 .. k - 1 : old[j] = links[i]
  BY LenProperties, ElementOfSeq DEF LeftOf
<1>2. Now = Before \cup {u}
  <2>1. 1 .. k = (1 .. k - 1) \cup {k}
    BY <1>1
  <2> QED BY <2>1
<1>3. \A i \in 1 .. k - 1 : i \in 1 .. k
  BY <1>1
<1>4. CASE u \in seen \cup Web!Urls(old)
  <2>1. Web!Urls(old) = Now \ seen
    BY <1>1, <1>2, <1>4
  <2>2. Len(old) <= k
    BY <1>1
  <2>3. \A j \in DOMAIN old : \E i \in 1 .. k : old[j] = links[i]
    BY <1>1, <1>3
  <2>4. LeftOf(old, S, links, seen, k)
    BY <1>1, <2>1, <2>2, <2>3 DEF LeftOf
  <2> QED BY <1>4, <2>4
<1>5. CASE u \notin seen \cup Web!Urls(old)
  <2>1. /\ more \in Seq(S) /\ Len(more) = Len(old) + 1
        /\ Web!Urls(more) = Web!Urls(old) \cup {u} /\ Distinct(more)
    BY <1>1, <1>5, OneLinkMore
  <2>2. \A j \in DOMAIN more : \E i \in 1 .. k : more[j] = links[i]
    <3> SUFFICES ASSUME NEW j \in DOMAIN more PROVE \E i \in 1 .. k : more[j] = links[i]
      OBVIOUS
    <3>1. j \in 1 .. Len(old) + 1 /\ DOMAIN old = 1 .. Len(old)
      BY <1>1, <2>1, LenProperties
    <3>2. CASE j = Len(old) + 1
      <4>1. more[j] = l /\ k \in 1 .. k
        BY <1>1, <3>2, AppendProperties
      <4> QED BY <4>1
    <3>3. CASE j \in 1 .. Len(old)
      <4>1. more[j] = old[j]
        BY <1>1, <3>3, AppendProperties
      <4> HIDE DEF more, l
      <4> QED BY <1>1, <1>3, <3>1, <3>3, <4>1
    <3>4. j = Len(old) + 1 \/ j \in 1 .. Len(old)
      BY <1>1, <3>1
    <3> QED BY <3>2, <3>3, <3>4
  <2> HIDE DEF more, l, u
  <2>3. Web!Urls(more) = Now \ seen
    BY <1>1, <1>2, <1>5, <2>1
  <2>4. Len(more) <= k
    BY <1>1, <2>1
  <2> HIDE DEF Now
  <2>5. LeftOf(more, S, links, seen, k)
    BY <2>1, <2>2, <2>3, <2>4 DEF LeftOf, Now
  <2> QED BY <1>5, <2>5 DEF more, l, u
<1> QED BY <1>4, <1>5

LEMMA UnseenAreLeft ==
  ASSUME NEW S, NEW links \in Seq(S), NEW seen
  PROVE  LeftOf(Web!Unseen(links, seen), S, links, seen, Len(links))
<1> DEFINE n == Len(links)
<1>1. n \in Nat
  BY LenProperties
<1>2. PICK f : NewInSteps(f, S, links, seen)
  BY UnseenSteps
<1>3. /\ f[0] = <<>> /\ Web!Unseen(links, seen) = f[n]
      /\ \A k \in 1 .. n :
           f[k] = IF Web!Url(links[k]) \in seen \cup Web!Urls(f[k - 1]) THEN f[k - 1]
                  ELSE Append(f[k - 1], links[k])
  BY <1>2 DEF NewInSteps
<1> HIDE DEF n
<1> DEFINE P == {k \in 0 .. n : LeftOf(f[k], S, links, seen, k)}
<1>4. 0 \in P
  <2> DEFINE none == <<>>
  <2>1. none \in Seq(S) /\ Len(none) = 0 /\ 1 .. 0 = {} /\ 0 \in 0 .. n
    BY <1>1, EmptySeq
  <2>2. DOMAIN none = {}
    BY <2>1, LenProperties
  <2> HIDE DEF none
  <2>3. Web!Urls(none) = {}
    BY <2>2 DEF Web!Urls, Web!Range
  <2>4. LeftOf(none, S, links, seen, 0)
    BY <2>1, <2>2, <2>3 DEF LeftOf, Distinct
  <2> QED BY <1>3, <2>1, <2>4 DEF none
<1>5. ASSUME NEW k \in 1 .. n, k - 1 \in P PROVE k \in P
  <2>1. k \in 0 .. n /\ LeftOf(f[k - 1], S, links, seen, k - 1)
    BY <1>1, <1>5
  <2>2. LeftOf(f[k], S, links, seen, k)
    <3>1. k \in 1 .. Len(links)
      BY DEF n
    <3>2. LeftOf(IF Web!Url(links[k]) \in seen \cup Web!Urls(f[k - 1]) THEN f[k - 1]
                 ELSE Append(f[k - 1], links[k]), S, links, seen, k)
      BY <2>1, <3>1, OneMoreLeft
    <3> QED BY <1>3, <3>2
  <2> QED BY <2>1, <2>2
<1>6. \A k \in 0 .. n : k \in P
  <2> HIDE DEF P
  <2> QED BY <1>1, <1>4, <1>5, Counting
<1>7. n \in 0 .. n
  BY <1>1
<1> QED BY <1>3, <1>6, <1>7 DEF n

SiteLinks == Web!Links(Sites)

\* No link says where one comes from.
Untracked(links) == \A k \in DOMAIN links : ~ links[k].tracked

\* Cleaned links are as many, without tracking.
LEMMA CleanedAre ==
  ASSUME NEW links \in Seq(SiteLinks)
  PROVE  /\ Web!Cleaned(links) \in Seq(SiteLinks) /\ Len(Web!Cleaned(links)) = Len(links)
         /\ Untracked(Web!Cleaned(links))
<1> DEFINE clean == Web!Cleaned(links)
           n == Len(links)
<1>1. n \in Nat /\ DOMAIN links = 1 .. n /\ \A k \in 1 .. n : links[k] \in SiteLinks
  BY LenProperties, ElementOfSeq
<1> HIDE DEF n
<1>2. clean = [k \in 1 .. n |-> Web!Clean(links[k])]
  BY <1>1 DEF Web!Cleaned
<1>3. \A l \in SiteLinks : Web!Clean(l) \in SiteLinks /\ Web!Clean(l).tracked = FALSE
  BY DEF SiteLinks, Web!Links, Web!Clean
<1> HIDE DEF clean
<1>4. clean \in [1 .. n -> SiteLinks] /\ \A k \in 1 .. n : clean[k].tracked = FALSE
  BY <1>1, <1>2, <1>3
<1>5. clean \in Seq(SiteLinks) /\ Len(clean) = n /\ DOMAIN clean = 1 .. n
  BY <1>1, <1>4
<1> QED BY <1>4, <1>5 DEF clean, n, Untracked

\* What a style shows is not more than asked for.
LEMMA ShownAreFew ==
  ASSUME NEW links \in Seq(SiteLinks), NEW max \in Nat
  PROVE  Web!Shown(links, max) \in Seq(SiteLinks) /\ Len(Web!Shown(links, max)) <= max
<1> DEFINE worth == {l \in Web!Range(links) : l.titled /\ l.address = "absolute"}
           clean == Web!Cleaned(Web!Select(links, worth))
<1>1. clean \in Seq(SiteLinks)
  <2> HIDE DEF worth
  <2> QED BY KeptAreSome, CleanedAre
<1>2. Web!Shown(links, max) = Web!UpTo(max, clean)
  BY DEF Web!Shown
<1> HIDE DEF clean
<1> QED BY <1>1, <1>2, FirstOnes

\* Nor are the bare redirects.
LEMMA RedirectsAreFew ==
  ASSUME NEW links \in Seq(SiteLinks), NEW max \in Nat
  PROVE  Web!Redirects(links, max) \in Seq(SiteLinks) /\ Len(Web!Redirects(links, max)) <= max
<1> DEFINE worth == {l \in Web!Range(links) : l.address = "absolute"}
           kept == Web!Select(links, worth)
           each == Web!Unseen(kept, {})
<1>1. kept \in Seq(SiteLinks)
  <2> HIDE DEF worth
  <2> QED BY KeptAreSome
<1>2. each \in Seq(SiteLinks)
  <2> HIDE DEF kept
  <2> QED BY <1>1, UnseenAreLeft DEF LeftOf
<1>3. Web!Redirects(links, max) = Web!UpTo(max, each)
  BY DEF Web!Redirects
<1> HIDE DEF each
<1> QED BY <1>2, <1>3, FirstOnes

\* A search that found links, at most so many; the services clean all of theirs.
IsFound(result, max) ==
  /\ result.is = "results"
  /\ result.links \in Seq(SiteLinks) /\ Len(result.links) <= max

\* DuckDuckGo's page makes the parser panic only where it may not be cut.
LEMMA ParsedPage ==
  ASSUME NEW page \in Web!Pages(Sites), NEW max \in Nat
  PROVE  \/ Web!ParseDuckDuckGo(page, max) = Web!Panic /\ Web!MayNotBeCut(page)
         \/ IsFound(Web!ParseDuckDuckGo(page, max), max)
<1> DEFINE links == page.links
           shown == IF page.style = "redirects" THEN <<>> ELSE Web!Shown(links, max)
           bare == Web!Redirects(links, max)
           cut == Web!CutFails(page, max)
           result == Web!ParseDuckDuckGo(page, max)
<1>1. links \in Seq(SiteLinks)
  BY DEF Web!Pages, SiteLinks
<1>2. shown \in Seq(SiteLinks) /\ Len(shown) <= max
  BY <1>1, ShownAreFew, EmptySeq
<1>3. bare \in Seq(SiteLinks) /\ Len(bare) <= max
  BY <1>1, RedirectsAreFew
<1>4. result = IF cut THEN Web!Panic
               ELSE IF shown # <<>> THEN Web!Results(shown) ELSE Web!Results(bare)
  BY Zenon DEF Web!ParseDuckDuckGo
<1>5. ASSUME cut PROVE Web!MayNotBeCut(page)
  <2> DEFINE n == Len(links)
  <2>1. n \in Nat /\ DOMAIN links = 1 .. n
    BY <1>1, LenProperties
  <2>2. \/ page.style = "html" /\ n > 0 /\ links[n].cut = "wide"
        \/ page.style = "lite" /\ \E k \in 1 .. n : Web!NoCut(links[k].cut, k = n)
        \/ \E k \in 1 .. n : Web!NoCut(links[k].tail, k = n)
    BY <1>5, Zenon DEF Web!CutFails
  <2> HIDE DEF n
  <2>3. PICK k \in 1 .. n : \/ page.style = "html" /\ k = n /\ links[k].cut = "wide"
                            \/ page.style = "lite" /\ Web!NoCut(links[k].cut, k = n)
                            \/ Web!NoCut(links[k].tail, k = n)
    <3>1. n > 0 => n \in 1 .. n
      BY <2>1
    <3> QED BY <2>2, <3>1, Zenon
  <2> QED BY <2>1, <2>3, Zenon DEF Web!MayNotBeCut, n
<1> HIDE DEF shown, bare, cut, result
<1>6. CASE cut
  BY <1>4, <1>5, <1>6 DEF result
<1>7. CASE ~ cut
  <2>1. PICK ls \in Seq(SiteLinks) : result = Web!Results(ls) /\ Len(ls) <= max
    BY <1>2, <1>3, <1>4, <1>7
  <2>2. IsFound(result, max)
    BY <2>1 DEF IsFound, Web!Results
  <2> QED BY <2>2 DEF result
<1> QED BY <1>6, <1>7

LEMMA ParsedJson ==
  ASSUME NEW page \in Web!Pages(Sites), NEW max \in Nat
  PROVE  IsFound(Web!ParseJson(page, max), max) /\ Untracked(Web!ParseJson(page, max).links)
<1> DEFINE links == page.links
           first == Web!UpTo(max, links)
           worth == {l \in Web!Range(first) : l.address # "empty"}
           kept == Web!Select(first, worth)
           clean == Web!Cleaned(kept)
           result == Web!ParseJson(page, max)
<1>1. links \in Seq(SiteLinks)
  BY DEF Web!Pages, SiteLinks
<1>2. first \in Seq(SiteLinks) /\ Len(first) <= max /\ Len(first) \in Nat
  <2> HIDE DEF links
  <2> QED BY <1>1, FirstOnes, LenProperties
<1>3. kept \in Seq(SiteLinks) /\ Len(kept) <= Len(first) /\ Len(kept) \in Nat
  <2> HIDE DEF first, worth
  <2> QED BY <1>2, KeptAreSome, LenProperties
<1>4. clean \in Seq(SiteLinks) /\ Len(clean) = Len(kept) /\ Untracked(clean)
  <2> HIDE DEF kept
  <2> QED BY <1>3, CleanedAre
<1>5. result = Web!Results(clean)
  BY Zenon DEF Web!ParseJson
<1> HIDE DEF first, kept, clean, result
<1>6. Len(clean) <= max
  BY <1>2, <1>3, <1>4
<1>7. result.is = "results" /\ result.links = clean
  BY <1>5 DEF Web!Results
<1> QED BY <1>4, <1>6, <1>7 DEF IsFound, result

\* What a query yields: links, or nothing, or the end of the search.
Answers == Web!Pages(Sites) \cup {Web!Failed}

Outcome(result, answers, max) ==
  \/ result = Web!Failed
  \/ result = Web!Panic /\ \E k \in 1 .. 3 : answers[k] # Web!Failed /\ Web!MayNotBeCut(answers[k])
  \/ IsFound(result, max)

LEMMA SearchedDuckDuckGo ==
  ASSUME NEW answers \in [1 .. 3 -> Answers], NEW max \in Nat
  PROVE  Outcome(Web!SearchDuckDuckGo(answers, max), answers, max)
<1> DEFINE parsed == [k \in 1 .. 3 |-> IF answers[k] = Web!Failed THEN Web!Failed
                                       ELSE Web!ParseDuckDuckGo(answers[k], max)]
           taken == {k \in 1 .. 2 : parsed[k] \notin {Web!Failed, Web!Results(<<>>)}}
           result == Web!SearchDuckDuckGo(answers, max)
<1>1. ASSUME NEW k \in 1 .. 3
      PROVE  \/ parsed[k] = Web!Failed
             \/ parsed[k] = Web!Panic /\ answers[k] # Web!Failed /\ Web!MayNotBeCut(answers[k])
             \/ IsFound(parsed[k], max)
  <2>1. CASE answers[k] = Web!Failed
    BY <2>1
  <2>2. CASE answers[k] # Web!Failed
    <3>1. answers[k] \in Web!Pages(Sites)
      BY <2>2 DEF Answers
    <3>2. parsed[k] = Web!ParseDuckDuckGo(answers[k], max)
      BY <2>2
    <3> HIDE DEF parsed
    <3> QED BY <2>2, <3>1, <3>2, ParsedPage
  <2> QED BY <2>1, <2>2
<1>2. result = IF taken # {} THEN parsed[Web!Min(taken)] ELSE parsed[3]
  BY Zenon DEF Web!SearchDuckDuckGo
<1> HIDE DEF parsed
<1>3. ASSUME taken # {} PROVE Web!Min(taken) \in 1 .. 3
  <2>1. taken \in SUBSET Nat /\ taken \in SUBSET (1 .. 3)
    OBVIOUS
  <2> HIDE DEF taken
  <2>2. PICK m \in taken : \A x \in taken : m <= x
    BY <1>3, <2>1, SmallestExists
  <2>3. Web!Min(taken) \in taken
    BY <2>2, Zenon DEF Web!Min
  <2> QED BY <2>1, <2>3
<1> HIDE DEF taken
<1>4. PICK k \in 1 .. 3 : result = parsed[k]
  BY <1>2, <1>3
<1> HIDE DEF result
<1> QED BY <1>1, <1>4 DEF result, Outcome

\* The answers to the requests that an engine makes for a query.
AnswersTo(engine) ==
  IF engine.provider = "duckduckgo" THEN [1 .. 3 -> Answers] ELSE [1 .. 1 -> Answers]

\* What a query may come to, for an engine: DuckDuckGo alone panics and alone leaves tracking
\* parameters, and there is not more than was configured, where that is anything.
QueryOutcome(result, engine, answers) ==
  \/ result = Web!Failed
  \/ /\ result = Web!Panic /\ engine.provider = "duckduckgo"
     /\ \E k \in 1 .. 3 : answers[k] # Web!Failed /\ Web!MayNotBeCut(answers[k])
  \/ /\ result.is = "results"
     /\ result.links \in Seq(SiteLinks)
     /\ engine.max > 0 => Len(result.links) <= engine.max
     /\ engine.provider # "duckduckgo" => Untracked(result.links)

LEMMA QueriesYield ==
  ASSUME NEW engine \in Web!Engines, NEW answers \in AnswersTo(engine)
  PROVE  QueryOutcome(Web!Search(engine, answers), engine, answers)
<1> DEFINE most == Web!Max({1, engine.max})
           max == Web!Min({10, most})
           result == Web!Search(engine, answers)
<1>1. engine.max \in Nat
  BY DEF Web!Engines
<1>2. most = IF 1 <= engine.max THEN engine.max ELSE 1
  BY <1>1, LargerOfTwo, SameBounds
<1> HIDE DEF most
<1>3. max = IF 10 <= most THEN 10 ELSE most
  BY <1>1, <1>2, SmallerOfTwo, SameBounds
<1>4. /\ result = CASE engine.provider = "duckduckgo" -> Web!SearchDuckDuckGo(answers, max)
                    [] engine.provider = "json" /\ engine.keyed /\ answers[1] # Web!Failed ->
                         Web!ParseJson(answers[1], max)
                    [] OTHER -> Web!Failed
  BY Zenon DEF Web!Search, most
<1> HIDE DEF max, result
<1>5. engine.max > 0 => max <= engine.max
  BY <1>1, <1>2, <1>3
<1>6. max \in Nat
  BY <1>1, <1>2, <1>3
<1>7. CASE engine.provider = "duckduckgo"
  <2>1. result = Web!SearchDuckDuckGo(answers, max) /\ answers \in [1 .. 3 -> Answers]
    BY <1>4, <1>7 DEF AnswersTo
  <2>2. Outcome(result, answers, max)
    BY <1>6, <2>1, SearchedDuckDuckGo
  <2>3. CASE IsFound(result, max)
    <3>1. Len(result.links) \in Nat
      BY <2>3, LenProperties DEF IsFound
    <3>2. engine.max > 0 => Len(result.links) <= engine.max
      BY <1>1, <1>5, <1>6, <2>3, <3>1 DEF IsFound
    <3> QED BY <1>7, <2>3, <3>2 DEF IsFound, QueryOutcome, result
  <2> QED BY <1>7, <2>2, <2>3 DEF Outcome, QueryOutcome, result
<1>8. CASE engine.provider = "json" /\ engine.keyed /\ answers[1] # Web!Failed
  <2>1. result = Web!ParseJson(answers[1], max)
    BY <1>4, <1>8
  <2>2. answers[1] \in Web!Pages(Sites)
    BY <1>8 DEF AnswersTo, Answers
  <2>3. IsFound(result, max) /\ Untracked(result.links)
    BY <1>6, <2>1, <2>2, ParsedJson
  <2>4. Len(result.links) \in Nat
    BY <2>3, LenProperties DEF IsFound
  <2>5. engine.max > 0 => Len(result.links) <= engine.max
    BY <1>1, <1>5, <1>6, <2>3, <2>4 DEF IsFound
  <2> QED BY <2>3, <2>5 DEF IsFound, QueryOutcome, result
<1>9. CASE /\ engine.provider # "duckduckgo"
           /\ ~ (engine.provider = "json" /\ engine.keyed /\ answers[1] # Web!Failed)
  <2>1. result = Web!Failed
    BY <1>4, <1>9
  <2> QED BY <2>1 DEF QueryOutcome, result
<1> QED BY <1>7, <1>8, <1>9

\* Links without tracking stay without it behind others.
LEMMA UntrackedBoth ==
  ASSUME NEW links \in Seq(SiteLinks), NEW new \in Seq(SiteLinks), Untracked(links), Untracked(new)
  PROVE  Untracked(links \o new)
<1> DEFINE both == links \o new
           n == Len(links)
           m == Len(new)
<1>1. /\ both \in Seq(SiteLinks) /\ Len(both) = n + m /\ n \in Nat /\ m \in Nat
      /\ \A i \in 1 .. n + m : both[i] = IF i <= n THEN links[i] ELSE new[i - n]
      /\ DOMAIN links = 1 .. n /\ DOMAIN new = 1 .. m /\ DOMAIN both = 1 .. n + m
  BY ConcatProperties, LenProperties
<1> HIDE DEF both, n, m
<1>2. ASSUME NEW i \in 1 .. n + m PROVE ~ both[i].tracked
  <2>1. CASE i <= n
    <3>1. i \in 1 .. n /\ both[i] = links[i]
      BY <1>1, <2>1
    <3> QED BY <1>1, <3>1 DEF Untracked
  <2>2. CASE ~ (i <= n)
    <3>1. i - n \in 1 .. m /\ both[i] = new[i - n]
      BY <1>1, <2>2
    <3> QED BY <1>1, <3>1 DEF Untracked
  <2> QED BY <2>1, <2>2
<1> QED BY <1>1, <1>2 DEF Untracked, both

\* What a text says of what was seen.
Tells(st, engine) ==
  /\ Web!Urls(st.text) = st.seen /\ Distinct(st.text)
  /\ engine.provider # "duckduckgo" => Untracked(st.text)

\* A query that panics ends the search; of any other, what is new is added to the text, and
\* then all it found was seen.
Adds(more, st, engine, result) ==
  /\ more \in Found(SiteLinks)
  /\ more.panics <=> st.panics \/ result = Web!Panic
  /\ ~ more.panics /\ engine.max > 0 /\ Tells(st, engine) =>
       /\ Tells(more, engine)
       /\ st.seen \subseteq more.seen
       /\ result.is = "results" => Web!Urls(result.links) \subseteq more.seen

LEMMA OneQueryMore ==
  ASSUME NEW engine \in Web!Engines, NEW st \in Found(SiteLinks), NEW answers,
         NEW result, QueryOutcome(result, engine, answers)
  PROVE  Adds(Web!Add(engine, st, result), st, engine, result)
<1> DEFINE new == Web!Unseen(result.links, st.seen)
           part == Web!UpTo(engine.max, new)
           more == Web!Add(engine, st, result)
           Seen == {Web!Url(l) : l \in SiteLinks}
<1>1. /\ st.seen \in SUBSET Seen /\ st.text \in Seq(SiteLinks) /\ st.panics \in BOOLEAN
      /\ st = [seen |-> st.seen, text |-> st.text, panics |-> st.panics]
  BY DEF Found
<1>2. more = IF st.panics \/ result = Web!Panic THEN [st EXCEPT !.panics = TRUE]
             ELSE IF result = Web!Failed THEN st
             ELSE [st EXCEPT !.seen = st.seen \cup Web!Urls(new), !.text = st.text \o part]
  BY Zenon DEF Web!Add
<1> HIDE DEF more
<1>3. CASE st.panics \/ result = Web!Panic
  <2>1. more = [st EXCEPT !.panics = TRUE]
    BY <1>2, <1>3
  <2>2. more \in Found(SiteLinks) /\ more.panics
    BY <2>1 DEF Found
  <2> QED BY <1>3, <2>2 DEF Adds, more
<1>4. CASE ~ (st.panics \/ result = Web!Panic) /\ result = Web!Failed
  <2>1. more = st
    BY <1>2, <1>4
  <2>2. result.is # "results"
    BY <1>4 DEF Web!Failed
  <2> QED BY <1>4, <2>1, <2>2 DEF Adds, more
<1>5. CASE ~ (st.panics \/ result = Web!Panic) /\ result # Web!Failed
  <2>1. /\ result.is = "results" /\ result.links \in Seq(SiteLinks)
        /\ engine.max > 0 => Len(result.links) <= engine.max
        /\ engine.provider # "duckduckgo" => Untracked(result.links)
    BY <1>5 DEF QueryOutcome
  <2>2. LeftOf(new, SiteLinks, result.links, st.seen, Len(result.links))
    BY <2>1, UnseenAreLeft
  <2>3. engine.max \in Nat
    BY DEF Web!Engines
  <2> HIDE DEF new
  <2>4. /\ new \in Seq(SiteLinks) /\ Len(new) <= Len(result.links) /\ Distinct(new)
        /\ Web!Urls(new) = Web!Urls(result.links) \ st.seen
    BY <2>1, <2>2, UrlsAre DEF LeftOf
  <2>5. Len(new) <= engine.max => part = new
    BY <2>3, <2>4, FirstOnes
  <2>6. part \in Seq(SiteLinks)
    BY <2>3, <2>4, FirstOnes
  <2>7. st.text \o part \in Seq(SiteLinks)
    BY <1>1, <2>6, ConcatProperties
  <2> HIDE DEF part
  <2>8. more = [st EXCEPT !.seen = st.seen \cup Web!Urls(new), !.text = st.text \o part]
    BY <1>2, <1>5
  <2>9. /\ more.seen = st.seen \cup Web!Urls(new) /\ more.text = st.text \o part
        /\ more.panics = st.panics
    BY <1>1, <2>8
  <2>10. Web!Urls(new) \subseteq Seen
    BY <2>4, UrlsAre
  <2>11. more \in Found(SiteLinks)
    BY <1>1, <2>7, <2>8, <2>10 DEF Found
  <2>12. ASSUME engine.max > 0, Tells(st, engine)
         PROVE  /\ Tells(more, engine)
                /\ st.seen \subseteq more.seen /\ Web!Urls(result.links) \subseteq more.seen
    <3>1. Len(new) <= engine.max
      <4>1. Len(new) \in Nat /\ Len(result.links) \in Nat
        BY <2>1, <2>4, LenProperties
      <4> QED BY <2>1, <2>3, <2>4, <2>12, <4>1
    <3>2. more.text = st.text \o new
      BY <2>5, <2>9, <3>1
    <3>3. Web!Urls(st.text) = st.seen /\ Distinct(st.text)
      BY <2>12 DEF Tells
    <3>4. Web!Urls(more.text) = more.seen
      BY <1>1, <2>4, <2>9, <3>2, <3>3, MoreLinks
    <3>5. Distinct(more.text)
      <4>1. Web!Urls(st.text) \cap Web!Urls(new) = {}
        BY <2>4, <3>3
      <4> QED BY <1>1, <2>4, <3>2, <3>3, <4>1, MoreLinks
    <3>6. ASSUME engine.provider # "duckduckgo" PROVE Untracked(more.text)
      <4>1. Untracked(st.text) /\ Untracked(result.links)
        BY <2>1, <2>12, <3>6 DEF Tells
      <4>2. ASSUME NEW k \in DOMAIN new PROVE ~ new[k].tracked
        <5>1. PICK i \in 1 .. Len(result.links) : new[k] = result.links[i]
          BY <2>2 DEF LeftOf
        <5>2. i \in DOMAIN result.links
          BY <2>1, LenProperties
        <5> QED BY <4>1, <5>1, <5>2 DEF Untracked
      <4>3. Untracked(new)
        BY <4>2 DEF Untracked
      <4> QED BY <1>1, <2>4, <3>2, <4>1, <4>3, UntrackedBoth
    <3> QED BY <2>4, <2>9, <3>4, <3>5, <3>6 DEF Tells
  <2>13. more.panics <=> st.panics \/ result = Web!Panic
    BY <1>5, <2>9
  <2> QED BY <2>11, <2>12, <2>13 DEF Adds, more
<1> QED BY <1>3, <1>4, <1>5

\* A search so far: it stopped only for a page that may not be cut; or its text tells what
\* was seen, and what each query found is among that.
SoFar(st, engine, queries, k) ==
  /\ st \in Found(SiteLinks)
  /\ st.panics => /\ engine.provider = "duckduckgo"
                  /\ \E q \in 1 .. Len(queries), i \in 1 .. 3 :
                       queries[q][i] # Web!Failed /\ Web!MayNotBeCut(queries[q][i])
  /\ ~ st.panics /\ engine.max > 0 =>
       /\ Tells(st, engine)
       /\ \A q \in 1 .. k : Web!Search(engine, queries[q]).is = "results" =>
            Web!Urls(Web!Search(engine, queries[q]).links) \subseteq st.seen

\* After all of its queries too.
LEMMA SearchesTell ==
  ASSUME NEW engine \in Web!Engines, NEW queries \in Seq(AnswersTo(engine))
  PROVE  SoFar(Web!SearchAll(engine, queries), engine, queries, Len(queries))
<1> DEFINE n == Len(queries)
<1>1. /\ n \in Nat /\ DOMAIN queries = 1 .. n
      /\ \A q \in 1 .. n : queries[q] \in AnswersTo(engine)
  BY LenProperties, ElementOfSeq
<1>2. \A q \in 1 .. n : QueryOutcome(Web!Search(engine, queries[q]), engine, queries[q])
  BY <1>1, QueriesYield
<1>3. \A st \in Found(SiteLinks), q \in 1 .. n :
        Adds(Web!Add(engine, st, Web!Search(engine, queries[q])), st, engine,
             Web!Search(engine, queries[q]))
  BY <1>2, OneQueryMore
<1>4. PICK f : SearchedInSteps(f, SiteLinks, engine, queries)
  <2>1. \A st \in Found(SiteLinks), q \in DOMAIN queries :
          Web!Add(engine, st, Web!Search(engine, queries[q])) \in Found(SiteLinks)
    BY <1>1, <1>3 DEF Adds
  <2> QED BY <2>1, SearchAllSteps
<1>5. /\ f \in [0 .. n -> Found(SiteLinks)]
      /\ f[0] = [seen |-> {}, text |-> <<>>, panics |-> FALSE]
      /\ \A k \in 1 .. n : f[k] = Web!Add(engine, f[k - 1], Web!Search(engine, queries[k]))
      /\ Web!SearchAll(engine, queries) = f[n]
  BY <1>4 DEF SearchedInSteps
<1> HIDE DEF n
<1> DEFINE P == {k \in 0 .. n : SoFar(f[k], engine, queries, k)}
<1>6. 0 \in P
  <2> DEFINE none == <<>>
  <2>1. 0 \in 0 .. n /\ 1 .. 0 = {} /\ f[0] \in Found(SiteLinks)
    <3>1. 0 \in 0 .. n /\ 1 .. 0 = {}
      BY <1>1
    <3>2. f \in [0 .. n -> Found(SiteLinks)]
      BY <1>5
    <3> QED BY <3>1, <3>2
  <2>2. DOMAIN none = {}
    OBVIOUS
  <2>3. f[0].seen = {} /\ f[0].text = none /\ f[0].panics = FALSE
    BY <1>5
  <2> HIDE DEF none
  <2>4. Tells(f[0], engine)
    <3>1. Web!Urls(none) = {}
      BY <2>2 DEF Web!Urls, Web!Range
    <3>2. Distinct(none) /\ Untracked(none)
      BY <2>2 DEF Distinct, Untracked
    <3> QED BY <2>3, <3>1, <3>2 DEF Tells
  <2>5. SoFar(f[0], engine, queries, 0)
    BY <2>1, <2>3, <2>4 DEF SoFar
  <2> QED BY <2>1, <2>5
<1>7. ASSUME NEW k \in 1 .. n, k - 1 \in P PROVE k \in P
  <2> DEFINE old == f[k - 1]
             st == f[k]
             result == Web!Search(engine, queries[k])
  <2>1. k \in 0 .. n /\ SoFar(old, engine, queries, k - 1)
    BY <1>1, <1>7
  <2>2. Adds(st, old, engine, result)
    BY <1>3, <1>5, <2>1 DEF SoFar
  <2>3. QueryOutcome(result, engine, queries[k])
    BY <1>2
  <2>4. 1 .. k = (1 .. k - 1) \cup {k} /\ k \in 1 .. Len(queries)
    BY <1>1 DEF n
  <2> HIDE DEF old, st, result
  <2>5. ASSUME st.panics
        PROVE  /\ engine.provider = "duckduckgo"
               /\ \E q \in 1 .. Len(queries), i \in 1 .. 3 :
                    queries[q][i] # Web!Failed /\ Web!MayNotBeCut(queries[q][i])
    <3>1. CASE old.panics
      BY <2>1, <3>1 DEF SoFar
    <3>2. CASE result = Web!Panic
      <4>1. result # Web!Failed /\ result.is # "results"
        BY <3>2 DEF Web!Panic, Web!Failed
      <4> QED BY <2>3, <2>4, <4>1 DEF QueryOutcome
    <3> QED BY <2>2, <2>5, <3>1, <3>2 DEF Adds
  <2>6. ASSUME ~ st.panics, engine.max > 0
        PROVE  /\ Tells(st, engine)
               /\ \A q \in 1 .. k : Web!Search(engine, queries[q]).is = "results" =>
                    Web!Urls(Web!Search(engine, queries[q]).links) \subseteq st.seen
    <3>1. ~ old.panics
      BY <2>2, <2>6 DEF Adds
    <3>2. /\ Tells(old, engine)
          /\ \A q \in 1 .. k - 1 : Web!Search(engine, queries[q]).is = "results" =>
               Web!Urls(Web!Search(engine, queries[q]).links) \subseteq old.seen
      BY <2>1, <2>6, <3>1 DEF SoFar
    <3>3. /\ Tells(st, engine) /\ old.seen \subseteq st.seen
          /\ result.is = "results" => Web!Urls(result.links) \subseteq st.seen
      BY <2>2, <2>6, <3>2 DEF Adds
    <3> QED BY <2>4, <3>2, <3>3 DEF result
  <2>7. SoFar(st, engine, queries, k)
    BY <2>2, <2>5, <2>6 DEF SoFar, Adds
  <2> QED BY <2>1, <2>7 DEF st
<1>8. \A k \in 0 .. n : k \in P
  <2> HIDE DEF P
  <2> QED BY <1>1, <1>6, <1>7, Counting
<1>9. n \in 0 .. n
  BY <1>1
<1> QED BY <1>5, <1>8, <1>9 DEF n

\* Two links of the same page that are both in the text differ in what they say of where one
\* comes from.
LEMMA EachPageOnce ==
  ASSUME NEW engine \in Web!Engines, NEW queries \in Seq(AnswersTo(engine))
  PROVE  Web!EachPageIsListedOnce(engine, queries)
<1> DEFINE n == Len(queries)
           s == Web!SearchAll(engine, queries)
           found == {r \in {Web!Search(engine, queries[q]) : q \in DOMAIN queries} : r.is = "results"}
           Same(l, m) == l.page = m.page /\ l.address = m.address
<1>1. DOMAIN queries = 1 .. n
  BY LenProperties
<1>2. SoFar(s, engine, queries, n)
  BY SearchesTell
<1> HIDE DEF s, n
<1>3. ASSUME s.panics
      PROVE  engine.provider = "duckduckgo" /\ \E q \in DOMAIN queries, k \in 1 .. 3 :
               queries[q][k] # Web!Failed /\ Web!MayNotBeCut(queries[q][k])
  BY <1>1, <1>2, <1>3 DEF SoFar, n
<1>4. ASSUME ~ s.panics, engine.max > 0
      PROVE  /\ \A r \in found : Web!Urls(r.links) \subseteq Web!Urls(s.text)
             /\ \A j, k \in DOMAIN s.text :
                  j < k /\ Same(s.text[j], s.text[k]) =>
                    \E l \in {s.text[j], s.text[k]} : l.tracked /\ engine.provider = "duckduckgo"
  <2>1. /\ Tells(s, engine) /\ s.text \in Seq(SiteLinks)
        /\ \A q \in 1 .. n : Web!Search(engine, queries[q]).is = "results" =>
             Web!Urls(Web!Search(engine, queries[q]).links) \subseteq s.seen
    BY <1>2, <1>4 DEF SoFar, Found
  <2>2. \A r \in found : Web!Urls(r.links) \subseteq Web!Urls(s.text)
    BY <1>1, <2>1 DEF Tells
  <2>3. ASSUME NEW j \in DOMAIN s.text, NEW k \in DOMAIN s.text, j < k,
               Same(s.text[j], s.text[k])
        PROVE  \E l \in {s.text[j], s.text[k]} : l.tracked /\ engine.provider = "duckduckgo"
    <3>1. DOMAIN s.text = 1 .. Len(s.text) /\ s.text[j] \in SiteLinks /\ s.text[k] \in SiteLinks
      BY <2>1, LenProperties, ElementOfSeq
    <3>2. j # k
      BY <2>1, <2>3, <3>1, LenProperties
    <3>3. Web!Url(s.text[j]) # Web!Url(s.text[k])
      BY <2>1, <3>2 DEF Tells, Distinct
    <3>4. s.text[j].tracked # s.text[k].tracked
      BY <2>3, <3>3 DEF Web!Url
    <3>5. s.text[j].tracked \/ s.text[k].tracked
      BY <3>1, <3>4 DEF SiteLinks, Web!Links
    <3>6. engine.provider = "duckduckgo"
      BY <2>1, <3>5 DEF Tells, Untracked
    <3> QED BY <3>5, <3>6
  <2> QED BY <2>2, <2>3
<1> QED BY <1>3, <1>4, Zenon DEF Web!EachPageIsListedOnce, s

\* Theorem: whatever a search engine answers to the queries of a worker, each page that was found
\* is listed once, and only a cut inside of a wide character or behind the end of a page of
\* DuckDuckGo's takes the search down (search_all, parse_duckduckgo_html).
THEOREM PagesAreListedOnce == Spec => []EachPageIsListedOnce
<1>1. PickedRight => EachPageIsListedOnce
  <2> SUFFICES ASSUME PickedRight, probe.about = "search"
               PROVE  Web!EachPageIsListedOnce(probe.input.engine, probe.input.queries)
    BY DEF EachPageIsListedOnce
  <2>1. probe.input \in Searches
    BY DEF PickedRight
  <2>2. /\ probe.input.engine \in Web!Engines
        /\ probe.input.queries \in Seq(AnswersTo(probe.input.engine))
    BY <2>1, SearchesAssumption DEF AnswersTo, Answers
  <2> QED BY <2>2, EachPageOnce
<1> QED BY <1>1, InputsArePicked, PTL

-----------------------------------------------------------------------------
(* Edits: apply, and the calls of the checkout *)

\* Which of two bounds is meant does not matter.
LEMMA WorkersMax == ASSUME NEW S PROVE Worker!Max(S) = Window!Max(S)
BY DEF Worker!Max, Window!Max

\* The parts of a path are taken up one after another, but for those that stay where they are.
JoinedInSteps(f, path, S) ==
  /\ f \in [0 .. Len(path) -> Seq(S)]
  /\ f[0] = <<>>
  /\ \A k \in 1 .. Len(path) :
       f[k] = IF path[k] = "." THEN f[k - 1] ELSE Append(f[k - 1], path[k])
  /\ Worker!Joined(path) = f[Len(path)]

LEMMA JoinedSteps ==
  ASSUME NEW path, NEW A, path \in Seq(A), NEW S, \A k \in DOMAIN path : path[k] = "." \/ path[k] \in S
  PROVE  \E f : JoinedInSteps(f, path, S)
<1> DEFINE n == Len(path)
           D == 1 .. n
           X == Seq(S)
           Step(k, kept) == IF path[k] = "." THEN kept ELSE Append(kept, path[k])
           none == <<>>
           step == [p \in D \X X |-> Step(p[1], p[2])]
           Is(it) == it = [T \in SUBSET DOMAIN path |->
                            IF T = {} THEN none ELSE Step(Worker!Max(T), it[T \ {Worker!Max(T)}])]
           fold == CHOOSE it : Is(it)
<1>1. n \in Nat /\ DOMAIN path = D /\ DOMAIN path = D
  BY LenProperties, ElementOfSeq
<1>2. none \in X
  BY EmptySeq
<1>3. ASSUME NEW k \in D, NEW kept \in X PROVE Step(k, kept) \in X
  BY <1>1, AppendProperties
<1>4. \A T \in SUBSET D : T # {} => Worker!Max(T) \in T
  BY <1>1, LastIsMax, WorkersMax
<1> HIDE DEF X, Step, none
<1>5. step \in [D \X X -> X] /\ \A k \in D, kept \in X : step[<<k, kept>>] = Step(k, kept)
  BY <1>3
<1> HIDE DEF step
<1>6. PICK it : IsIteration(it, D, X, none, Largest(n), step)
  BY <1>1, <1>2, <1>5, FoldExists
<1> HIDE DEF D
<1>7. Is(it)
  <2>1. it \in [SUBSET D -> X]
    BY <1>6 DEF IsIteration
  <2>2. ASSUME NEW T \in SUBSET D
        PROVE  it[T] = IF T = {} THEN none ELSE Step(Worker!Max(T), it[T \ {Worker!Max(T)}])
    <3>1. it[T] = IF T = {} THEN none ELSE step[<<Worker!Max(T), it[T \ {Worker!Max(T)}]>>]
      <4>1. Worker!Max(T) = Window!Max(T)
        BY WorkersMax
      <4> QED BY <1>6, <4>1 DEF IsIteration, Largest, D
    <3>2. it[T \ {Worker!Max(T)}] \in X
      BY <2>1
    <3> QED BY <1>4, <1>5, <3>1, <3>2
  <2> QED BY <1>1, <2>1, <2>2
<1>8. Is(fold)
  <2> HIDE DEF Is
  <2> QED BY <1>7, Zenon
<1>9. Worker!Joined(path) = fold[DOMAIN path]
  BY Zenon DEF Worker!Joined, Worker!FoldLeft, Worker!MapThenFoldSet, Step, none
<1> HIDE DEF fold
<1>10. fold[{}] = none /\ \A T \in SUBSET D :
         T # {} => fold[T] = Step(Worker!Max(T), fold[T \ {Worker!Max(T)}])
  BY <1>1, <1>8
<1> HIDE DEF Is, n
<1>11. PICK f : StepByStep(f, fold, n, X, none, step)
  <2>1. \A T \in SUBSET D : T # {} /\ fold[T \ {Window!Max(T)}] \in X =>
           fold[T] = step[<<Window!Max(T), fold[T \ {Window!Max(T)}]>>]
    <3>1. \A T \in SUBSET D : Worker!Max(T) = Window!Max(T)
      BY WorkersMax
    <3>2. \A T \in SUBSET D : T # {} /\ fold[T \ {Worker!Max(T)}] \in X =>
             fold[T] = step[<<Worker!Max(T), fold[T \ {Worker!Max(T)}]>>]
      BY <1>4, <1>5, <1>10
    <3> QED BY <3>1, <3>2
  <2>2. n \in Nat /\ step \in [(1 .. n) \X X -> X]
    BY <1>1, <1>5 DEF D
  <2>3. IsFold(fold, n, X, none, step)
    BY <1>10, <2>1 DEF D, IsFold
  <2> QED BY <1>2, <2>2, <2>3, FoldTakesSteps
<1>12. ASSUME NEW k \in 1 .. n PROVE f[k] = Step(k, f[k - 1])
  <2>1. k - 1 \in 0 .. n
    BY <1>1
  <2> QED BY <1>5, <1>11, <2>1 DEF StepByStep, D
<1>13. f[0] = none /\ f \in [0 .. n -> X] /\ fold[1 .. n] = f[n]
  BY <1>11 DEF StepByStep
<1> QED BY <1>1, <1>9, <1>12, <1>13 DEF JoinedInSteps, Step, X, D, n, none

\* So are the places of a text where another is found.
FoundInSteps(f, find, text) ==
  /\ f \in [0 .. Len(text) -> Seq(1 .. Len(text))]
  /\ f[0] = <<>>
  /\ \A k \in 1 .. Len(text) :
       f[k] = IF Worker!IsAt(find, text, k)
                 /\ (f[k - 1] = <<>> \/ k >= Worker!Last(f[k - 1]) + Len(find))
              THEN Append(f[k - 1], k) ELSE f[k - 1]
  /\ Worker!Found(find, text) = f[Len(text)]

LEMMA FoundSteps ==
  ASSUME NEW find, NEW text, NEW A, text \in Seq(A)
  PROVE  \E f : FoundInSteps(f, find, text)
<1> DEFINE n == Len(text)
           D == 1 .. n
           places == [k \in DOMAIN text |-> k]
           X == Seq(D)
           Step(k, ks) == IF Worker!IsAt(find, text, places[k])
                            /\ (ks = <<>> \/ places[k] >= Worker!Last(ks) + Len(find))
                          THEN Append(ks, places[k]) ELSE ks
           none == <<>>
           step == [p \in D \X X |-> Step(p[1], p[2])]
           Is(it) == it = [T \in SUBSET DOMAIN places |->
                            IF T = {} THEN none ELSE Step(Worker!Max(T), it[T \ {Worker!Max(T)}])]
           fold == CHOOSE it : Is(it)
<1>1. n \in Nat /\ DOMAIN places = D /\ DOMAIN text = D /\ \A k \in D : places[k] = k
  BY LenProperties, ElementOfSeq
<1>2. none \in X
  BY EmptySeq
<1>3. ASSUME NEW k \in D, NEW ks \in X PROVE Step(k, ks) \in X
  BY <1>1, <1>3, AppendProperties
<1>4. \A T \in SUBSET D : T # {} => Worker!Max(T) \in T
  BY <1>1, LastIsMax, WorkersMax
<1> HIDE DEF X, Step, none
<1>5. step \in [D \X X -> X] /\ \A k \in D, ks \in X : step[<<k, ks>>] = Step(k, ks)
  BY <1>3
<1> HIDE DEF step
<1>6. PICK it : IsIteration(it, D, X, none, Largest(n), step)
  BY <1>1, <1>2, <1>5, FoldExists
<1> HIDE DEF D
<1>7. Is(it)
  <2>1. it \in [SUBSET D -> X]
    BY <1>6 DEF IsIteration
  <2>2. ASSUME NEW T \in SUBSET D
        PROVE  it[T] = IF T = {} THEN none ELSE Step(Worker!Max(T), it[T \ {Worker!Max(T)}])
    <3>1. it[T] = IF T = {} THEN none ELSE step[<<Worker!Max(T), it[T \ {Worker!Max(T)}]>>]
      <4>1. Worker!Max(T) = Window!Max(T)
        BY WorkersMax
      <4> QED BY <1>6, <4>1 DEF IsIteration, Largest, D
    <3>2. it[T \ {Worker!Max(T)}] \in X
      BY <2>1
    <3> QED BY <1>4, <1>5, <3>1, <3>2
  <2> QED BY <1>1, <2>1, <2>2
<1>8. Is(fold)
  <2> HIDE DEF Is
  <2> QED BY <1>7, Zenon
<1>9. Worker!Found(find, text) = fold[DOMAIN places]
  BY Zenon DEF Worker!Found, Worker!FoldLeft, Worker!MapThenFoldSet, Step, none, places
<1> HIDE DEF fold
<1>10. fold[{}] = none /\ \A T \in SUBSET D :
         T # {} => fold[T] = Step(Worker!Max(T), fold[T \ {Worker!Max(T)}])
  BY <1>1, <1>8
<1> HIDE DEF Is, n
<1>11. PICK f : StepByStep(f, fold, n, X, none, step)
  <2>1. \A T \in SUBSET D : T # {} /\ fold[T \ {Window!Max(T)}] \in X =>
           fold[T] = step[<<Window!Max(T), fold[T \ {Window!Max(T)}]>>]
    <3>1. \A T \in SUBSET D : Worker!Max(T) = Window!Max(T)
      BY WorkersMax
    <3>2. \A T \in SUBSET D : T # {} /\ fold[T \ {Worker!Max(T)}] \in X =>
             fold[T] = step[<<Worker!Max(T), fold[T \ {Worker!Max(T)}]>>]
      BY <1>4, <1>5, <1>10
    <3> QED BY <3>1, <3>2
  <2>2. n \in Nat /\ step \in [(1 .. n) \X X -> X]
    BY <1>1, <1>5 DEF D
  <2>3. IsFold(fold, n, X, none, step)
    BY <1>10, <2>1 DEF D, IsFold
  <2> QED BY <1>2, <2>2, <2>3, FoldTakesSteps
<1>12. ASSUME NEW k \in 1 .. n PROVE f[k] = Step(k, f[k - 1])
  <2>1. k - 1 \in 0 .. n
    BY <1>1
  <2> QED BY <1>5, <1>11, <2>1 DEF StepByStep, D
<1>13. f[0] = none /\ f \in [0 .. n -> X] /\ fold[1 .. n] = f[n]
  BY <1>11 DEF StepByStep
<1> QED BY <1>1, <1>9, <1>12, <1>13 DEF FoundInSteps, Step, X, D, n, none, places

\* And so are the matches of a text that is replaced.
ReplacedInSteps(f, S, text, at, w, with) ==
  /\ f \in [0 .. Len(at) -> [out : Seq(S), next : 1 .. Len(text) + w + 1]]
  /\ f[0] = [out |-> <<>>, next |-> 1]
  /\ \A j \in 1 .. Len(at) :
       f[j] = [out  |-> f[j - 1].out \o SubSeq(text, f[j - 1].next, at[j] - 1) \o with,
               next |-> at[j] + w]
  /\ Worker!Replaced(text, at, w, with) =
       f[Len(at)].out \o SubSeq(text, f[Len(at)].next, Len(text))

LEMMA ReplacedSteps ==
  ASSUME NEW S, NEW text \in Seq(S), NEW with \in Seq(S), NEW w \in Nat, NEW at \in Seq(DOMAIN text)
  PROVE  \E f : ReplacedInSteps(f, S, text, at, w, with)
<1> DEFINE n == Len(at)
           D == 1 .. n
           X == [out : Seq(S), next : 1 .. Len(text) + w + 1]
           Step(j, st) == [out  |-> st.out \o SubSeq(text, st.next, at[j] - 1) \o with,
                           next |-> at[j] + w]
           none == [out |-> <<>>, next |-> 1]
           step == [p \in D \X X |-> Step(p[1], p[2])]
           Is(it) == it = [T \in SUBSET DOMAIN at |->
                            IF T = {} THEN none ELSE Step(Worker!Max(T), it[T \ {Worker!Max(T)}])]
           fold == CHOOSE it : Is(it)
<1>1. n \in Nat /\ DOMAIN at = D /\ DOMAIN at = D /\ \A j \in D : at[j] \in 1 .. Len(text)
  BY LenProperties, ElementOfSeq
<1>2. none \in X
  BY EmptySeq
<1>3. ASSUME NEW j \in D, NEW st \in X PROVE Step(j, st) \in X
  <2>1. at[j] \in 1 .. Len(text) /\ Len(text) \in Nat /\ st.next \in 1 .. Len(text) + w + 1
    BY <1>1, LenProperties
  <2>2. SubSeq(text, st.next, at[j] - 1) \in Seq(S)
    <3>1. \A i \in st.next .. at[j] - 1 : text[i] \in S
      BY <2>1, ElementOfSeq
    <3> QED BY <2>1, <3>1, SubSeqProperties, SMTT(20)
  <2>3. st.out \o SubSeq(text, st.next, at[j] - 1) \o with \in Seq(S)
    BY <2>2, ConcatProperties
  <2> QED BY <2>1, <2>3, SMTT(20)
<1>4. \A T \in SUBSET D : T # {} => Worker!Max(T) \in T
  BY <1>1, LastIsMax, WorkersMax
<1> HIDE DEF X, Step, none
<1>5. step \in [D \X X -> X] /\ \A j \in D, st \in X : step[<<j, st>>] = Step(j, st)
  BY <1>3
<1> HIDE DEF step
<1>6. PICK it : IsIteration(it, D, X, none, Largest(n), step)
  BY <1>1, <1>2, <1>5, FoldExists
<1> HIDE DEF D
<1>7. Is(it)
  <2>1. it \in [SUBSET D -> X]
    BY <1>6 DEF IsIteration
  <2>2. ASSUME NEW T \in SUBSET D
        PROVE  it[T] = IF T = {} THEN none ELSE Step(Worker!Max(T), it[T \ {Worker!Max(T)}])
    <3>1. it[T] = IF T = {} THEN none ELSE step[<<Worker!Max(T), it[T \ {Worker!Max(T)}]>>]
      <4>1. Worker!Max(T) = Window!Max(T)
        BY WorkersMax
      <4> QED BY <1>6, <4>1 DEF IsIteration, Largest, D
    <3>2. it[T \ {Worker!Max(T)}] \in X
      BY <2>1
    <3> QED BY <1>4, <1>5, <3>1, <3>2
  <2> QED BY <1>1, <2>1, <2>2
<1>8. Is(fold)
  <2> HIDE DEF Is
  <2> QED BY <1>7, Zenon
<1>9. Worker!Replaced(text, at, w, with) =
         fold[DOMAIN at].out \o SubSeq(text, fold[DOMAIN at].next, Len(text))
  BY Zenon DEF Worker!Replaced, Worker!FoldLeft, Worker!MapThenFoldSet, Step, none
<1> HIDE DEF fold
<1>10. fold[{}] = none /\ \A T \in SUBSET D :
         T # {} => fold[T] = Step(Worker!Max(T), fold[T \ {Worker!Max(T)}])
  BY <1>1, <1>8
<1> HIDE DEF Is, n
<1>11. PICK f : StepByStep(f, fold, n, X, none, step)
  <2>1. \A T \in SUBSET D : T # {} /\ fold[T \ {Window!Max(T)}] \in X =>
           fold[T] = step[<<Window!Max(T), fold[T \ {Window!Max(T)}]>>]
    <3>1. \A T \in SUBSET D : Worker!Max(T) = Window!Max(T)
      BY WorkersMax
    <3>2. \A T \in SUBSET D : T # {} /\ fold[T \ {Worker!Max(T)}] \in X =>
             fold[T] = step[<<Worker!Max(T), fold[T \ {Worker!Max(T)}]>>]
      BY <1>4, <1>5, <1>10
    <3> QED BY <3>1, <3>2
  <2>2. n \in Nat /\ step \in [(1 .. n) \X X -> X]
    BY <1>1, <1>5 DEF D
  <2>3. IsFold(fold, n, X, none, step)
    BY <1>10, <2>1 DEF D, IsFold
  <2> QED BY <1>2, <2>2, <2>3, FoldTakesSteps
<1>12. ASSUME NEW k \in 1 .. n PROVE f[k] = Step(k, f[k - 1])
  <2>1. k - 1 \in 0 .. n
    BY <1>1
  <2> QED BY <1>5, <1>11, <2>1 DEF StepByStep, D
<1>13. f[0] = none /\ f \in [0 .. n -> X] /\ fold[1 .. n] = f[n]
  BY <1>11 DEF StepByStep
<1> QED BY <1>1, <1>9, <1>12, <1>13 DEF ReplacedInSteps, Step, X, D, n, none

\* The edits of a list are done one after another.
AppliedInSteps(f, W, ws, edits) ==
  /\ f \in [0 .. Len(edits) -> [ws : W, failures : SUBSET (1 .. Len(edits))]]
  /\ f[0] = [ws |-> ws, failures |-> {}]
  /\ \A k \in 1 .. Len(edits) :
       f[k] = [ws       |-> Worker!ApplyOne(f[k - 1].ws, edits[k]).ws,
               failures |-> f[k - 1].failures
                              \cup IF Worker!ApplyOne(f[k - 1].ws, edits[k]).ok THEN {} ELSE {k}]
  /\ Worker!Apply(ws, edits) = f[Len(edits)]

LEMMA ApplySteps ==
  ASSUME NEW A, NEW edits \in Seq(A), NEW W, NEW ws \in W,
         \A w \in W, k \in DOMAIN edits : Worker!ApplyOne(w, edits[k]).ws \in W
  PROVE  \E f : AppliedInSteps(f, W, ws, edits)
<1> DEFINE n == Len(edits)
           D == 1 .. n
           places == [k \in DOMAIN edits |-> k]
           X == [ws : W, failures : SUBSET D]
           Step(k, st) == [ws       |-> Worker!ApplyOne(st.ws, edits[places[k]]).ws,
                          failures |-> st.failures
                            \cup IF Worker!ApplyOne(st.ws, edits[places[k]]).ok THEN {}
                                 ELSE {places[k]}]
           none == [ws |-> ws, failures |-> {}]
           step == [p \in D \X X |-> Step(p[1], p[2])]
           Is(it) == it = [T \in SUBSET DOMAIN places |->
                            IF T = {} THEN none ELSE Step(Worker!Max(T), it[T \ {Worker!Max(T)}])]
           fold == CHOOSE it : Is(it)
<1>1. n \in Nat /\ DOMAIN places = D /\ DOMAIN edits = D /\ \A k \in D : places[k] = k
  BY LenProperties, ElementOfSeq
<1>2. none \in X
  BY EmptySeq
<1>3. ASSUME NEW k \in D, NEW st \in X PROVE Step(k, st) \in X
  BY <1>1
<1>4. \A T \in SUBSET D : T # {} => Worker!Max(T) \in T
  BY <1>1, LastIsMax, WorkersMax
<1> HIDE DEF X, Step, none
<1>5. step \in [D \X X -> X] /\ \A k \in D, st \in X : step[<<k, st>>] = Step(k, st)
  BY <1>3
<1> HIDE DEF step
<1>6. PICK it : IsIteration(it, D, X, none, Largest(n), step)
  BY <1>1, <1>2, <1>5, FoldExists
<1> HIDE DEF D
<1>7. Is(it)
  <2>1. it \in [SUBSET D -> X]
    BY <1>6 DEF IsIteration
  <2>2. ASSUME NEW T \in SUBSET D
        PROVE  it[T] = IF T = {} THEN none ELSE Step(Worker!Max(T), it[T \ {Worker!Max(T)}])
    <3>1. it[T] = IF T = {} THEN none ELSE step[<<Worker!Max(T), it[T \ {Worker!Max(T)}]>>]
      <4>1. Worker!Max(T) = Window!Max(T)
        BY WorkersMax
      <4> QED BY <1>6, <4>1 DEF IsIteration, Largest, D
    <3>2. it[T \ {Worker!Max(T)}] \in X
      BY <2>1
    <3> QED BY <1>4, <1>5, <3>1, <3>2
  <2> QED BY <1>1, <2>1, <2>2
<1>8. Is(fold)
  <2> HIDE DEF Is
  <2> QED BY <1>7, Zenon
<1>9. Worker!Apply(ws, edits) = fold[DOMAIN places]
  BY Zenon DEF Worker!Apply, Worker!FoldLeft, Worker!MapThenFoldSet, Step, none, places
<1> HIDE DEF fold
<1>10. fold[{}] = none /\ \A T \in SUBSET D :
         T # {} => fold[T] = Step(Worker!Max(T), fold[T \ {Worker!Max(T)}])
  BY <1>1, <1>8
<1> HIDE DEF Is, n
<1>11. PICK f : StepByStep(f, fold, n, X, none, step)
  <2>1. \A T \in SUBSET D : T # {} /\ fold[T \ {Window!Max(T)}] \in X =>
           fold[T] = step[<<Window!Max(T), fold[T \ {Window!Max(T)}]>>]
    <3>1. \A T \in SUBSET D : Worker!Max(T) = Window!Max(T)
      BY WorkersMax
    <3>2. \A T \in SUBSET D : T # {} /\ fold[T \ {Worker!Max(T)}] \in X =>
             fold[T] = step[<<Worker!Max(T), fold[T \ {Worker!Max(T)}]>>]
      BY <1>4, <1>5, <1>10
    <3> QED BY <3>1, <3>2
  <2>2. n \in Nat /\ step \in [(1 .. n) \X X -> X]
    BY <1>1, <1>5 DEF D
  <2>3. IsFold(fold, n, X, none, step)
    BY <1>10, <2>1 DEF D, IsFold
  <2> QED BY <1>2, <2>2, <2>3, FoldTakesSteps
<1>12. ASSUME NEW k \in 1 .. n PROVE f[k] = Step(k, f[k - 1])
  <2>1. k - 1 \in 0 .. n
    BY <1>1
  <2> QED BY <1>5, <1>11, <2>1 DEF StepByStep, D
<1>13. f[0] = none /\ f \in [0 .. n -> X] /\ fold[1 .. n] = f[n]
  BY <1>11 DEF StepByStep
<1> QED BY <1>1, <1>9, <1>12, <1>13 DEF AppliedInSteps, Step, X, D, n, none, places

\* And taken up one after another, but for some of them.
KeptOnesInSteps(f, S, edits, omitted) ==
  /\ f \in [0 .. Len(edits) -> Seq(S)]
  /\ f[0] = <<>>
  /\ \A k \in 1 .. Len(edits) :
       f[k] = IF k \in omitted THEN f[k - 1] ELSE Append(f[k - 1], edits[k])
  /\ Worker!Without(edits, omitted) = f[Len(edits)]

LEMMA WithoutSteps ==
  ASSUME NEW S, NEW edits \in Seq(S), NEW omitted
  PROVE  \E f : KeptOnesInSteps(f, S, edits, omitted)
<1> DEFINE n == Len(edits)
           D == 1 .. n
           places == [k \in DOMAIN edits |-> k]
           X == Seq(S)
           Step(k, kept) == IF places[k] \in omitted THEN kept
                            ELSE Append(kept, edits[places[k]])
           none == <<>>
           step == [p \in D \X X |-> Step(p[1], p[2])]
           Is(it) == it = [T \in SUBSET DOMAIN places |->
                            IF T = {} THEN none ELSE Step(Worker!Max(T), it[T \ {Worker!Max(T)}])]
           fold == CHOOSE it : Is(it)
<1>1. n \in Nat /\ DOMAIN places = D /\ DOMAIN edits = D /\ \A k \in D : places[k] = k /\ edits[k] \in S
  BY LenProperties, ElementOfSeq
<1>2. none \in X
  BY EmptySeq
<1>3. ASSUME NEW k \in D, NEW kept \in X PROVE Step(k, kept) \in X
  BY <1>1, AppendProperties
<1>4. \A T \in SUBSET D : T # {} => Worker!Max(T) \in T
  BY <1>1, LastIsMax, WorkersMax
<1> HIDE DEF X, Step, none
<1>5. step \in [D \X X -> X] /\ \A k \in D, kept \in X : step[<<k, kept>>] = Step(k, kept)
  BY <1>3
<1> HIDE DEF step
<1>6. PICK it : IsIteration(it, D, X, none, Largest(n), step)
  BY <1>1, <1>2, <1>5, FoldExists
<1> HIDE DEF D
<1>7. Is(it)
  <2>1. it \in [SUBSET D -> X]
    BY <1>6 DEF IsIteration
  <2>2. ASSUME NEW T \in SUBSET D
        PROVE  it[T] = IF T = {} THEN none ELSE Step(Worker!Max(T), it[T \ {Worker!Max(T)}])
    <3>1. it[T] = IF T = {} THEN none ELSE step[<<Worker!Max(T), it[T \ {Worker!Max(T)}]>>]
      <4>1. Worker!Max(T) = Window!Max(T)
        BY WorkersMax
      <4> QED BY <1>6, <4>1 DEF IsIteration, Largest, D
    <3>2. it[T \ {Worker!Max(T)}] \in X
      BY <2>1
    <3> QED BY <1>4, <1>5, <3>1, <3>2
  <2> QED BY <1>1, <2>1, <2>2
<1>8. Is(fold)
  <2> HIDE DEF Is
  <2> QED BY <1>7, Zenon
<1>9. Worker!Without(edits, omitted) = fold[DOMAIN places]
  BY Zenon DEF Worker!Without, Worker!FoldLeft, Worker!MapThenFoldSet, Step, none, places
<1> HIDE DEF fold
<1>10. fold[{}] = none /\ \A T \in SUBSET D :
         T # {} => fold[T] = Step(Worker!Max(T), fold[T \ {Worker!Max(T)}])
  BY <1>1, <1>8
<1> HIDE DEF Is, n
<1>11. PICK f : StepByStep(f, fold, n, X, none, step)
  <2>1. \A T \in SUBSET D : T # {} /\ fold[T \ {Window!Max(T)}] \in X =>
           fold[T] = step[<<Window!Max(T), fold[T \ {Window!Max(T)}]>>]
    <3>1. \A T \in SUBSET D : Worker!Max(T) = Window!Max(T)
      BY WorkersMax
    <3>2. \A T \in SUBSET D : T # {} /\ fold[T \ {Worker!Max(T)}] \in X =>
             fold[T] = step[<<Worker!Max(T), fold[T \ {Worker!Max(T)}]>>]
      BY <1>4, <1>5, <1>10
    <3> QED BY <3>1, <3>2
  <2>2. n \in Nat /\ step \in [(1 .. n) \X X -> X]
    BY <1>1, <1>5 DEF D
  <2>3. IsFold(fold, n, X, none, step)
    BY <1>10, <2>1 DEF D, IsFold
  <2> QED BY <1>2, <2>2, <2>3, FoldTakesSteps
<1>12. ASSUME NEW k \in 1 .. n PROVE f[k] = Step(k, f[k - 1])
  <2>1. k - 1 \in 0 .. n
    BY <1>1
  <2> QED BY <1>5, <1>11, <2>1 DEF StepByStep, D
<1>13. f[0] = none /\ f \in [0 .. n -> X] /\ fold[1 .. n] = f[n]
  BY <1>11 DEF StepByStep
<1> QED BY <1>1, <1>9, <1>12, <1>13 DEF KeptOnesInSteps, Step, X, D, n, none, places

\* A path that is joined stays inside.
LEMMA JoinedStaysInside ==
  ASSUME NEW path \in Seq(PathParts), ~ Worker!IsRefused(path)
  PROVE  /\ Worker!Joined(path) \in Seq(PathParts)
         /\ Worker!Range(Worker!Joined(path)) \cap {"..", "/", "."} = {}
<1> DEFINE S == (PathParts \cap Worker!Range(path)) \ {"."}
           file == Worker!Joined(path)
<1>1. \A k \in DOMAIN path : path[k] = "." \/ path[k] \in S
  BY ElementOfSeq, LenProperties DEF Worker!Range
<1>2. S \cap {"..", "/", "."} = {} /\ S \subseteq PathParts
  BY DEF Worker!IsRefused
<1> HIDE DEF S
<1>3. PICK f : JoinedInSteps(f, path, S)
  BY <1>1, JoinedSteps
<1>4. Len(path) \in 0 .. Len(path)
  BY LenProperties
<1>5. file \in Seq(S)
  BY <1>3, <1>4 DEF JoinedInSteps
<1> HIDE DEF file
<1>6. file \in Seq(PathParts)
  <2>1. Len(file) \in Nat /\ file \in [1 .. Len(file) -> S]
    BY <1>5, LenProperties
  <2>2. file \in [1 .. Len(file) -> PathParts]
    BY <1>2, <2>1
  <2> QED BY <2>1, <2>2, IsASeq
<1>7. Worker!Range(file) \subseteq S
  BY <1>5, ElementOfSeq, LenProperties DEF Worker!Range
<1> QED BY <1>2, <1>6, <1>7 DEF file

\* What is found are occurrences, the first one first. Each of the others is found as well, or
\* begins within one that is found before it.
LEMMA FoundAre ==
  ASSUME NEW S, NEW find \in Seq(S), find # <<>>, NEW text \in Seq(S),
         NEW at, at = Worker!Found(find, text),
         NEW all, all = Worker!Occurrences(find, text)
  PROVE  /\ at \in Seq(DOMAIN text) /\ Len(find) > 0
         /\ at # <<>> =>
              /\ Len(at) > 0
              /\ at[1] \in all /\ \A j \in all : at[1] <= j /\ j < at[Len(at)] + Len(find)
<1> DEFINE n == Len(text)
           w == Len(find)
           D == 1 .. n
           Seen(k) == {j \in 1 .. k : Worker!IsAt(find, text, j)}
           Holds(k, ks) == ks # <<>> => 
             /\ Len(ks) > 0 /\ ks[1] \in Seen(k)
             /\ \A j \in Seen(k) : ks[1] <= j /\ j < ks[Len(ks)] + w
           First(k, ks) == ks = <<>> => Seen(k) = {}
<1>1. n \in Nat /\ w \in Nat /\ w > 0 /\ DOMAIN text = D
  BY LenProperties, EmptySeq
<1>2. PICK f : FoundInSteps(f, find, text)
  BY FoundSteps
<1>3. /\ f \in [0 .. n -> Seq(D)] /\ f[0] = <<>> /\ at = f[n]
      /\ \A k \in D : f[k] = IF Worker!IsAt(find, text, k)
                                /\ (f[k - 1] = <<>> \/ k >= Worker!Last(f[k - 1]) + w)
                             THEN Append(f[k - 1], k) ELSE f[k - 1]
  BY <1>2 DEF FoundInSteps
<1>4. all = Seen(n)
  BY <1>1 DEF Worker!Occurrences
<1> HIDE DEF n, w
<1> DEFINE P == {k \in 0 .. n : Holds(k, f[k]) /\ First(k, f[k])}
<1>5. 0 \in P
  <2>1. Seen(0) = {} /\ 0 \in 0 .. n
    BY <1>1
  <2>2. Holds(0, f[0]) /\ First(0, f[0])
    BY <1>3, <2>1
  <2> HIDE DEF Holds, First
  <2> QED BY <2>1, <2>2
<1>6. ASSUME NEW k \in 1 .. n, k - 1 \in P PROVE k \in P
  <2> DEFINE ks == f[k - 1]
  <2>1. k - 1 \in 0 .. n /\ k \in D /\ k \in Nat /\ k > 0
    BY <1>1
  <2>2. ks \in Seq(D) /\ Holds(k - 1, ks) /\ First(k - 1, ks)
    BY <1>3, <1>6, <2>1
  <2>3. Seen(k) = Seen(k - 1) \cup IF Worker!IsAt(find, text, k) THEN {k} ELSE {}
    BY <2>1
  <2>4. Seen(k) \subseteq 1 .. k /\ Seen(k - 1) \subseteq 1 .. k - 1
    BY <2>1
  <2>5. Worker!Last(ks) = ks[Len(ks)]
    BY DEF Worker!Last
  <2>6. /\ Len(ks) \in Nat /\ (ks # <<>> => Len(ks) > 0)
        /\ Append(ks, k) # <<>> /\ Len(Append(ks, k)) = Len(ks) + 1
        /\ Append(ks, k)[Len(ks) + 1] = k
        /\ Len(ks) > 0 => Append(ks, k)[1] = ks[1]
    BY <2>1, <2>2, AppendProperties, LenProperties, EmptySeq
  <2>7. ks # <<>> => ks[1] \in D /\ ks[Len(ks)] \in D
    <3> HIDE DEF ks, D
    <3> QED BY <2>2, <2>6, ElementOfSeq
  <2>8. f[k] = IF Worker!IsAt(find, text, k) /\ (ks = <<>> \/ k >= ks[Len(ks)] + w)
               THEN Append(ks, k) ELSE ks
    BY <1>3, <2>1, <2>5
  <2> HIDE DEF ks, Seen
  <2>9. CASE ks = <<>>
    <3>1. CASE Worker!IsAt(find, text, k)
      <4>1. f[k] = Append(ks, k) /\ Seen(k) = {k} /\ Len(ks) = 0
        BY <2>2, <2>3, <2>8, <2>9, <3>1, EmptySeq
      <4>2. Holds(k, f[k]) /\ First(k, f[k])
        BY <1>1, <2>1, <2>6, <4>1
      <4> QED BY <2>1, <4>2
    <3>2. CASE ~ Worker!IsAt(find, text, k)
      <4>1. f[k] = ks /\ Seen(k) = {}
        BY <2>2, <2>3, <2>8, <2>9, <3>2
      <4>2. Holds(k, f[k]) /\ First(k, f[k])
        BY <2>9, <4>1
      <4> QED BY <2>1, <4>2
    <3> QED BY <3>1, <3>2
  <2>10. CASE ks # <<>>
    <3>1. /\ Len(ks) > 0 /\ ks[1] \in Seen(k - 1) /\ ks[1] \in Nat /\ ks[Len(ks)] \in Nat
          /\ \A j \in Seen(k - 1) : j \in Nat /\ j < k /\ ks[1] <= j /\ j < ks[Len(ks)] + w
      BY <1>1, <2>1, <2>2, <2>4, <2>7, <2>10
    <3>2. ks[1] < k
      BY <3>1
    <3>3. CASE Worker!IsAt(find, text, k) /\ k >= ks[Len(ks)] + w
      <4>1. f[k] = Append(ks, k) /\ Seen(k) = Seen(k - 1) \cup {k}
        BY <2>3, <2>8, <3>3
      <4>2. f[k][1] = ks[1] /\ f[k][Len(f[k])] = k /\ f[k] # <<>> /\ Len(f[k]) > 0
        BY <2>6, <3>1, <4>1
      <4>3. ASSUME NEW j \in Seen(k) PROVE ks[1] <= j /\ j < k + w
        <5>1. j = k \/ j \in Seen(k - 1)
          BY <4>1
        <5> QED BY <1>1, <2>1, <3>1, <3>2, <5>1
      <4>4. Holds(k, f[k]) /\ First(k, f[k])
        BY <3>1, <4>1, <4>2, <4>3
      <4> QED BY <2>1, <4>4
    <3>4. CASE ~ Worker!IsAt(find, text, k)
      <4>1. f[k] = ks /\ Seen(k) = Seen(k - 1)
        BY <2>3, <2>8, <3>4
      <4>2. Holds(k, f[k]) /\ First(k, f[k])
        BY <2>10, <3>1, <4>1
      <4> QED BY <2>1, <4>2
    <3>5. CASE Worker!IsAt(find, text, k) /\ ~ (k >= ks[Len(ks)] + w)
      <4>1. f[k] = ks /\ Seen(k) = Seen(k - 1) \cup {k}
        BY <2>3, <2>8, <2>10, <3>5
      <4>2. ASSUME NEW j \in Seen(k) PROVE ks[1] <= j /\ j < ks[Len(ks)] + w
        <5>1. j = k \/ j \in Seen(k - 1)
          BY <4>1
        <5> QED BY <1>1, <2>1, <3>1, <3>2, <3>5, <5>1
      <4>3. Holds(k, f[k]) /\ First(k, f[k])
        BY <2>10, <3>1, <4>1, <4>2
      <4> QED BY <2>1, <4>3
    <3> QED BY <3>3, <3>4, <3>5
  <2> QED BY <2>9, <2>10
<1>7. n \in P
  <2>1. n \in 0 .. n
    BY <1>1
  <2> HIDE DEF P
  <2> QED BY <1>1, <1>5, <1>6, <2>1, Counting
<1>8. at \in Seq(D)
  <2>1. n \in 0 .. n
    BY <1>1
  <2> QED BY <1>3, <2>1
<1> HIDE DEF Seen
<1> QED BY <1>1, <1>3, <1>4, <1>7, <1>8 DEF w

\* Putting a text for some others makes a text, and for one it is put where that one was.
LEMMA ReplacedIs ==
  ASSUME NEW S, NEW text \in Seq(S), NEW with \in Seq(S), NEW w \in Nat,
         NEW D, D = DOMAIN text, NEW at \in Seq(D)
  PROVE  /\ Worker!Replaced(text, at, w, with) \in Seq(S)
         /\ Len(at) = 1 => Worker!Replaced(text, at, w, with) = Worker!Splice(text, at[1], w, with)
<1> DEFINE n == Len(at)
           N == Len(text)
<1>1. n \in Nat /\ N \in Nat /\ DOMAIN text = 1 .. N /\ n \in 0 .. n
  BY LenProperties
<1>2. PICK f : ReplacedInSteps(f, S, text, at, w, with)
  BY ReplacedSteps
<1>3. /\ f \in [0 .. n -> [out : Seq(S), next : 1 .. N + w + 1]]
      /\ f[0] = [out |-> <<>>, next |-> 1]
      /\ \A j \in 1 .. n :
           f[j] = [out  |-> f[j - 1].out \o SubSeq(text, f[j - 1].next, at[j] - 1) \o with,
                   next |-> at[j] + w]
      /\ Worker!Replaced(text, at, w, with) = f[n].out \o SubSeq(text, f[n].next, N)
  BY <1>2 DEF ReplacedInSteps
<1>4. ASSUME NEW i \in Nat, i > 0, NEW j \in Int, j <= N PROVE SubSeq(text, i, j) \in Seq(S)
  <2>1. \A k \in i .. j : text[k] \in S
    BY <1>1, <1>4, ElementOfSeq
  <2> QED BY <2>1, SubSeqProperties
<1> HIDE DEF N
<1>5. Worker!Replaced(text, at, w, with) \in Seq(S)
  <2>1. f[n].out \in Seq(S) /\ f[n].next \in 1 .. N + w + 1
    BY <1>1, <1>3
  <2>2. SubSeq(text, f[n].next, N) \in Seq(S)
    BY <1>1, <1>4, <2>1
  <2> QED BY <1>3, <2>1, <2>2, ConcatProperties
<1>6. ASSUME n = 1 PROVE Worker!Replaced(text, at, w, with) = Worker!Splice(text, at[1], w, with)
  <2>1. at[1] \in 1 .. N
    <3>1. 1 \in 1 .. Len(at)
      BY <1>6
    <3> QED BY <1>1, <3>1, ElementOfSeq
  <2> HIDE DEF n
  <2>2. f[1] = [out  |-> f[0].out \o SubSeq(text, f[0].next, at[1] - 1) \o with,
                next |-> at[1] + w]
    <3>1. 1 \in 1 .. n /\ 1 - 1 = 0
      BY <1>6
    <3> QED BY <1>3, <3>1
  <2>3. f[0].out = <<>> /\ f[0].next = 1
    <3>1. f[0] = [out |-> <<>>, next |-> 1]
      BY <1>3
    <3> QED BY <3>1
  <2>4. f[1].out = <<>> \o SubSeq(text, 1, at[1] - 1) \o with /\ f[1].next = at[1] + w
    <3> DEFINE out == f[0].out \o SubSeq(text, f[0].next, at[1] - 1) \o with
    <3>1. f[1] = [out |-> out, next |-> at[1] + w]
      BY <2>2
    <3>2. out = <<>> \o SubSeq(text, 1, at[1] - 1) \o with
      BY <2>3
    <3> HIDE DEF out
    <3>3. f[1].out = out /\ f[1].next = at[1] + w
      BY <3>1
    <3> QED BY <3>2, <3>3
  <2>5. <<>> \o SubSeq(text, 1, at[1] - 1) = SubSeq(text, 1, at[1] - 1)
    <3>1. SubSeq(text, 1, at[1] - 1) \in Seq(S)
      BY <1>1, <1>4, <2>1
    <3> QED BY <3>1, ConcatEmptySeq
  <2>6. f[1].out = SubSeq(text, 1, at[1] - 1) \o with
    BY <2>4, <2>5
  <2>7. Worker!Replaced(text, at, w, with) = f[1].out \o SubSeq(text, f[1].next, N)
    BY <1>3, <1>6
  <2>8. Worker!Splice(text, at[1], w, with) =
          SubSeq(text, 1, at[1] - 1) \o with \o SubSeq(text, at[1] + w, N)
    BY DEF Worker!Splice, N
  <2> QED BY <2>4, <2>6, <2>7, <2>8
<1> QED BY <1>5, <1>6

\* The checkouts there may be, and the edits.
Trees ==
  {ws \in [files : UNION {[F -> Seq(Symbols) \cup {Binary}] : F \in SUBSET Seq(PathParts)},
           dirs  : SUBSET Seq(PathParts)] : Worker!IsCheckout(ws)}
AnyEdit == Worker!EditsOf(Seq(PathParts), Seq(Symbols))

LEMMA TreesAreTyped ==
  ASSUME NEW ws
  PROVE  /\ Worker!IsTree(ws, Seq(PathParts), Seq(Symbols)) /\ Worker!IsCheckout(ws) => ws \in Trees
         /\ ws \in Trees =>
              /\ ws = [files |-> ws.files, dirs |-> ws.dirs]
              /\ ws.files \in [DOMAIN ws.files -> Seq(Symbols) \cup {Binary}]
              /\ DOMAIN ws.files \subseteq Seq(PathParts) /\ ws.dirs \subseteq Seq(PathParts)
              /\ Worker!IsCheckout(ws)
<1>1. ASSUME Worker!IsTree(ws, Seq(PathParts), Seq(Symbols)), Worker!IsCheckout(ws) PROVE ws \in Trees
  <2> DEFINE F == DOMAIN ws.files
  <2>1. /\ ws \in [files : [F -> Seq(Symbols) \cup {Binary}], dirs : SUBSET Seq(PathParts)]
        /\ F \in SUBSET Seq(PathParts)
    BY <1>1 DEF Worker!IsTree
  <2> HIDE DEF F
  <2> QED BY <1>1, <2>1 DEF Trees
<1>2. ASSUME ws \in Trees
      PROVE  /\ ws = [files |-> ws.files, dirs |-> ws.dirs]
             /\ ws.files \in [DOMAIN ws.files -> Seq(Symbols) \cup {Binary}]
             /\ DOMAIN ws.files \subseteq Seq(PathParts) /\ ws.dirs \subseteq Seq(PathParts)
             /\ Worker!IsCheckout(ws)
  <2>1. PICK F \in SUBSET Seq(PathParts) : ws.files \in [F -> Seq(Symbols) \cup {Binary}]
    BY <1>2 DEF Trees
  <2>2. DOMAIN ws.files = F
    BY <2>1
  <2>3. ws = [files |-> ws.files, dirs |-> ws.dirs] /\ ws.dirs \subseteq Seq(PathParts)
        /\ Worker!IsCheckout(ws)
    BY <1>2 DEF Trees
  <2> QED BY <2>1, <2>2, <2>3
<1> QED BY <1>1, <1>2

\* What is above a file is shorter.
LEMMA AboveIsShorter ==
  ASSUME NEW file \in Seq(PathParts)
  PROVE  Worker!Above(file) \subseteq Seq(PathParts) /\ file \notin Worker!Above(file)
<1>1. Len(file) \in Nat
  BY LenProperties
<1>2. ASSUME NEW n \in 0 .. Len(file) - 1
      PROVE  SubSeq(file, 1, n) \in Seq(PathParts) /\ Len(SubSeq(file, 1, n)) = n
  <2>1. n \in Int /\ n >= 0 /\ n < Len(file)
    BY <1>1
  <2>2. \A i \in 1 .. n : file[i] \in PathParts
    BY <1>1, <2>1, ElementOfSeq
  <2> QED BY <2>1, <2>2, SubSeqProperties
<1>3. ASSUME NEW n \in 0 .. Len(file) - 1 PROVE SubSeq(file, 1, n) # file
  <2>1. n # Len(file)
    BY <1>1
  <2> QED BY <1>2, <2>1
<1> QED BY <1>2, <1>3 DEF Worker!Above

\* An edit that fails changes nothing, and one that does not leaves a checkout.
Went(done, ws) ==
  done.ok \in BOOLEAN /\ done.ws \in Trees /\ (~ done.ok => done.ws = ws)

LEMMA Written ==
  ASSUME NEW ws \in Trees, NEW path \in Seq(PathParts), NEW content \in Seq(Symbols)
  PROVE  /\ Went(Worker!WriteFile(ws, path, content), ws)
         /\ Worker!WriteFile(ws, path, content).ok =>
              Worker!WriteFile(ws, path, content).ws.files[Worker!Joined(path)] = content
<1> DEFINE done == Worker!WriteFile(ws, path, content)
           file == Worker!Joined(path)
           above == Worker!Above(file)
           files == [f \in DOMAIN ws.files \cup {file} |-> IF f = file THEN content ELSE ws.files[f]]
           new == [files |-> files, dirs |-> ws.dirs \cup above]
           refused == Worker!IsRefused(path) \/ file \in ws.dirs \/ above \cap DOMAIN ws.files # {}
<1>1. done = IF refused THEN [ok |-> FALSE, ws |-> ws] ELSE [ok |-> TRUE, ws |-> new]
  BY DEF Worker!WriteFile, Worker!Fails, Worker!Leaves
<1>2. ASSUME ~ refused PROVE new \in Trees /\ new.files[file] = content
  <2>1. file \in Seq(PathParts) /\ Worker!Range(file) \cap {"..", "/", "."} = {}
    BY <1>2, JoinedStaysInside
  <2> HIDE DEF file
  <2>2. above \subseteq Seq(PathParts) /\ file \notin above
    BY <2>1, AboveIsShorter
  <2>3. /\ file \notin ws.dirs /\ above \cap DOMAIN ws.files = {}
    BY <1>2
  <2> HIDE DEF above
  <2>4. /\ ws.files \in [DOMAIN ws.files -> Seq(Symbols) \cup {Binary}]
        /\ DOMAIN ws.files \subseteq Seq(PathParts) /\ ws.dirs \subseteq Seq(PathParts)
        /\ Worker!IsCheckout(ws)
    BY TreesAreTyped
  <2>5. /\ new.files = files /\ new.dirs = ws.dirs \cup above
        /\ files \in [DOMAIN ws.files \cup {file} -> Seq(Symbols) \cup {Binary}]
        /\ DOMAIN files = DOMAIN ws.files \cup {file} /\ files[file] = content
    BY <2>4
  <2>6. Worker!IsTree(new, Seq(PathParts), Seq(Symbols))
    BY <2>1, <2>2, <2>4, <2>5 DEF Worker!IsTree
  <2>7. Worker!IsCheckout(new)
    <3>1. ASSUME NEW f \in DOMAIN files
          PROVE  /\ Worker!Range(f) \cap {"..", "/", "."} = {}
                 /\ f \notin ws.dirs \cup above /\ Worker!Above(f) \subseteq ws.dirs \cup above
      <4>1. CASE f = file
        BY <2>1, <2>2, <2>3, <4>1 DEF above
      <4>2. CASE f \in DOMAIN ws.files
        BY <2>3, <2>4, <4>2 DEF Worker!IsCheckout
      <4> QED BY <2>5, <3>1, <4>1, <4>2
    <3>2. <<>> \in ws.dirs
      BY <2>4 DEF Worker!IsCheckout
    <3> HIDE DEF files, new
    <3> QED BY <2>5, <3>1, <3>2 DEF Worker!IsCheckout
  <2> HIDE DEF files, new
  <2> QED BY <2>5, <2>6, <2>7, TreesAreTyped
<1> HIDE DEF done, new, refused
<1>3. CASE refused
  <2>1. done = [ok |-> FALSE, ws |-> ws]
    BY <1>1, <1>3
  <2> QED BY <2>1 DEF Went, done
<1>4. CASE ~ refused
  <2>1. done = [ok |-> TRUE, ws |-> new]
    BY <1>1, <1>4
  <2> QED BY <1>2, <1>4, <2>1 DEF Went, done
<1> QED BY <1>3, <1>4

LEMMA Deleted ==
  ASSUME NEW ws \in Trees, NEW path \in Seq(PathParts)
  PROVE  Went(Worker!DeleteFile(ws, path), ws)
<1> DEFINE done == Worker!DeleteFile(ws, path)
           file == Worker!Joined(path)
           files == [f \in DOMAIN ws.files \ {file} |-> ws.files[f]]
           new == [files |-> files, dirs |-> ws.dirs]
           refused == \/ Worker!IsRefused(path) \/ file \in ws.dirs
                      \/ Worker!Above(file) \cap DOMAIN ws.files # {}
<1>0. /\ ws = [files |-> ws.files, dirs |-> ws.dirs]
      /\ ws.files \in [DOMAIN ws.files -> Seq(Symbols) \cup {Binary}]
      /\ DOMAIN ws.files \subseteq Seq(PathParts) /\ ws.dirs \subseteq Seq(PathParts)
      /\ Worker!IsCheckout(ws)
  BY TreesAreTyped
<1>1. done = IF refused THEN [ok |-> FALSE, ws |-> ws] ELSE [ok |-> TRUE, ws |-> new]
  <2>1. [ws EXCEPT !.files = files] = new
    <3> HIDE DEF files
    <3> QED BY <1>0
  <2>2. [ws EXCEPT !.files = [f \in DOMAIN @ \ {file} |-> @[f]]] = [ws EXCEPT !.files = files]
    OBVIOUS
  <2> QED BY <2>1, <2>2, Zenon DEF Worker!DeleteFile, Worker!Fails, Worker!Leaves
<1>2. new \in Trees
  <2> HIDE DEF file
  <2>1. /\ new.files = files /\ new.dirs = ws.dirs
        /\ files \in [DOMAIN files -> Seq(Symbols) \cup {Binary}]
        /\ DOMAIN files \subseteq DOMAIN ws.files
    BY <1>0
  <2> HIDE DEF files
  <2>2. Worker!IsTree(new, Seq(PathParts), Seq(Symbols))
    BY <1>0, <2>1 DEF Worker!IsTree
  <2> HIDE DEF new
  <2>3. Worker!IsCheckout(new)
    BY <1>0, <2>1 DEF Worker!IsCheckout
  <2> QED BY <2>2, <2>3, TreesAreTyped
<1> HIDE DEF done, new, refused
<1>3. CASE refused
  <2>1. done = [ok |-> FALSE, ws |-> ws]
    BY <1>1, <1>3
  <2> QED BY <2>1 DEF Went, done
<1>4. CASE ~ refused
  <2>1. done = [ok |-> TRUE, ws |-> new]
    BY <1>1, <1>4
  <2> QED BY <1>2, <1>4, <2>1 DEF Went, done
<1> QED BY <1>3, <1>4

LEMMA EditsAreTyped ==
  ASSUME NEW edit \in AnyEdit
  PROVE  /\ edit.op \in {"write", "delete", "replace"} /\ edit.path \in Seq(PathParts)
         /\ edit.op = "write" => edit.content \in Seq(Symbols)
         /\ edit.op = "replace" =>
              edit.find \in Seq(Symbols) /\ edit.with \in Seq(Symbols) /\ edit.all \in BOOLEAN
<1> DEFINE paths == Seq(PathParts)
           texts == Seq(Symbols)
<1> HIDE DEF paths, texts
<1>1. CASE edit \in [op : {"write"}, path : paths, content : texts]
  BY <1>1 DEF paths, texts
<1>2. CASE edit \in [op : {"delete"}, path : paths]
  BY <1>2 DEF paths
<1>3. CASE edit \in [op : {"replace"}, path : paths, find : texts, with : texts, all : BOOLEAN]
  BY <1>3 DEF paths, texts
<1> QED BY <1>1, <1>2, <1>3 DEF AnyEdit, Worker!EditsOf, paths, texts

LEMMA WorkersMin ==
  ASSUME NEW S, S \subseteq Nat, NEW m \in S, \A x \in S : m <= x
  PROVE  Worker!Min(S) = m
<1> DEFINE n == Worker!Min(S)
<1>1. n \in S /\ \A x \in S : n <= x
  BY Zenon DEF Worker!Min
<1> HIDE DEF n
<1>2. n \in Int /\ m \in Int /\ n <= m /\ m <= n
  BY <1>1
<1> QED BY <1>2 DEF n

\* A replacement for one place has that place, or the first of some that overlap, replaced.
IsReplacedOnce(edit, before, after) ==
  LET ks == Worker!Occurrences(edit.find, before)
      n == Len(edit.find)
  IN  /\ Worker!Cardinality(ks) = 1 \/ \E j, k \in ks : j < k /\ k < j + n
      /\ after = Worker!Splice(before, Worker!Min(ks), n, edit.with)

LEMMA OneIsReplaced ==
  ASSUME NEW edit, NEW text \in Seq(Symbols), edit.find \in Seq(Symbols), edit.find # <<>>,
         edit.with \in Seq(Symbols), NEW at, at = Worker!Found(edit.find, text), Len(at) = 1,
         at # <<>>
  PROVE  IsReplacedOnce(edit, text, Worker!Replaced(text, at, Len(edit.find), edit.with))
<1> DEFINE ks == Worker!Occurrences(edit.find, text)
           n == Len(edit.find)
<1>1. /\ at \in Seq(DOMAIN text) /\ n > 0
      /\ at[1] \in ks /\ \A j \in ks : at[1] <= j /\ j < at[1] + n
  BY FoundAre
<1>2. n \in Nat /\ ks \subseteq Nat
  BY LenProperties DEF Worker!Occurrences
<1> HIDE DEF ks, n
<1>3. Worker!Min(ks) = at[1]
  BY <1>1, <1>2, WorkersMin
<1>4. Worker!Cardinality(ks) = 1 \/ \E j, k \in ks : j < k /\ k < j + n
  <2>1. CASE ks = {at[1]}
    <3>1. Cardinality({at[1]}) = 1
      BY FS_Singleton
    <3>2. Worker!Cardinality(ks) = Cardinality(ks)
      BY Zenon DEF Worker!Cardinality, Cardinality
    <3> QED BY <2>1, <3>1, <3>2
  <2>2. CASE ks # {at[1]}
    <3>1. PICK k \in ks : k # at[1]
      BY <1>1, <2>2
    <3>2. at[1] < k /\ k < at[1] + n
      BY <1>1, <1>2, <3>1
    <3> QED BY <1>1, <3>1, <3>2
  <2> QED BY <2>1, <2>2
<1>5. Worker!Replaced(text, at, n, edit.with) = Worker!Splice(text, at[1], n, edit.with)
  <2> DEFINE D == DOMAIN text
             with == edit.with
  <2>1. with \in Seq(Symbols) /\ at \in Seq(D) /\ D = DOMAIN text
    BY <1>1
  <2> HIDE DEF D, with
  <2>2. Worker!Replaced(text, at, n, with) = Worker!Splice(text, at[1], n, with)
    BY <1>2, <2>1, ReplacedIs
  <2> QED BY <2>2 DEF with
<1> QED BY <1>3, <1>4, <1>5 DEF IsReplacedOnce, ks, n

LEMMA ReplacedThere ==
  ASSUME NEW ws \in Trees, NEW edit \in AnyEdit, edit.op = "replace"
  PROVE  /\ Went(Worker!Replace(ws, edit), ws)
         /\ Worker!Replace(ws, edit).ok /\ ~ edit.all =>
              IsReplacedOnce(edit, ws.files[Worker!Joined(edit.path)],
                             Worker!Replace(ws, edit).ws.files[Worker!Joined(edit.path)])
<1> DEFINE file == Worker!Joined(edit.path)
           text == ws.files[file]
           at == Worker!Found(edit.find, text)
           n == Len(edit.find)
           new == Worker!Replaced(text, at, n, edit.with)
           write == Worker!WriteFile(ws, edit.path, new)
           refused == \/ ~ Worker!CanRead(ws, edit.path) \/ edit.find = <<>>
                      \/ at = <<>> \/ (Len(at) > 1 /\ ~ edit.all)
           done == Worker!Replace(ws, edit)
<1>1. done = IF refused THEN [ok |-> FALSE, ws |-> ws] ELSE write
  BY Zenon DEF Worker!Replace, Worker!Fails
<1>2. edit.path \in Seq(PathParts) /\ edit.find \in Seq(Symbols) /\ edit.with \in Seq(Symbols)
  BY EditsAreTyped
<1>3. ASSUME ~ refused
      PROVE  /\ text \in Seq(Symbols) /\ at \in Seq(DOMAIN text) /\ n \in Nat
             /\ edit.find # <<>> /\ at # <<>> /\ (Len(at) = 1 \/ edit.all)
  <2>1. file \in DOMAIN ws.files /\ text # Binary
    BY <1>3 DEF Worker!CanRead
  <2>2. ws.files \in [DOMAIN ws.files -> Seq(Symbols) \cup {Binary}]
    BY TreesAreTyped
  <2> HIDE DEF file
  <2>3. text \in Seq(Symbols)
    BY <2>1, <2>2
  <2>4. edit.find # <<>> /\ at # <<>> /\ ~ (Len(at) > 1 /\ ~ edit.all)
    BY <1>3
  <2>5. at \in Seq(DOMAIN text) /\ Len(at) > 0
    <3> HIDE DEF text
    <3> QED BY <1>2, <2>3, <2>4, FoundAre
  <2>6. n \in Nat /\ Len(at) \in Nat
    BY <1>2, <2>5, LenProperties
  <2> HIDE DEF at, n, text
  <2>7. Len(at) = 1 \/ Len(at) > 1
    <3> DEFINE m == Len(at)
    <3>1. m \in Nat /\ m > 0
      BY <2>5, <2>6
    <3> HIDE DEF m
    <3>2. m = 1 \/ m > 1
      BY <3>1
    <3> QED BY <3>2 DEF m
  <2>8. Len(at) = 1 \/ edit.all
    BY <2>4, <2>7, Zenon
  <2> QED BY <2>3, <2>4, <2>5, <2>6, <2>8, Zenon
<1>4. ASSUME ~ refused PROVE Went(write, ws) /\ (write.ok => write.ws.files[file] = new)
  <2>1. new \in Seq(Symbols)
    <3> DEFINE D == DOMAIN text
               with == edit.with
    <3>1. /\ text \in Seq(Symbols) /\ with \in Seq(Symbols) /\ n \in Nat
          /\ at \in Seq(D) /\ D = DOMAIN text
      BY <1>2, <1>3, <1>4
    <3> HIDE DEF text, at, n, D, with
    <3>2. Worker!Replaced(text, at, n, with) \in Seq(Symbols)
      BY <3>1, ReplacedIs
    <3> QED BY <3>2 DEF with
  <2> HIDE DEF new
  <2> QED BY <1>2, <2>1, Written
<1>5. ASSUME ~ refused, ~ edit.all PROVE IsReplacedOnce(edit, text, new)
  <2> HIDE DEF text
  <2> QED BY <1>2, <1>3, <1>5, OneIsReplaced
<1> HIDE DEF refused, new, write, text, done
<1>6. CASE refused
  <2>1. done = [ok |-> FALSE, ws |-> ws]
    BY <1>1, <1>6
  <2>2. Went(done, ws) /\ ~ done.ok
    BY <2>1 DEF Went
  <2> QED BY <2>2 DEF done
<1>7. CASE ~ refused
  <2>1. done = write
    BY <1>1, <1>7
  <2>2. Went(done, ws) /\ (done.ok => done.ws.files[file] = new)
    BY <1>4, <1>7, <2>1
  <2>3. done.ok /\ ~ edit.all => IsReplacedOnce(edit, text, done.ws.files[file])
    BY <1>5, <1>7, <2>2
  <2> QED BY <2>2, <2>3 DEF done, text
<1> QED BY <1>6, <1>7

\* Each edit keeps the checkout one, and a replacement that goes well is what it says.
LEMMA OneIsApplied ==
  ASSUME NEW ws \in Trees, NEW edit \in AnyEdit
  PROVE  /\ Went(Worker!ApplyOne(ws, edit), ws)
         /\ Worker!ApplyOne(ws, edit).ok /\ edit.op = "replace" =>
              edit.all \/ IsReplacedOnce(edit, ws.files[Worker!Joined(edit.path)],
                             Worker!ApplyOne(ws, edit).ws.files[Worker!Joined(edit.path)])
<1>1. /\ edit.op \in {"write", "delete", "replace"} /\ edit.path \in Seq(PathParts)
      /\ edit.op = "write" => edit.content \in Seq(Symbols)
  BY EditsAreTyped
<1>2. CASE edit.op = "write"
  <2>1. Worker!ApplyOne(ws, edit) = Worker!WriteFile(ws, edit.path, edit.content)
    BY <1>2 DEF Worker!ApplyOne
  <2> QED BY <1>1, <1>2, <2>1, Written
<1>3. CASE edit.op = "delete"
  <2>1. Worker!ApplyOne(ws, edit) = Worker!DeleteFile(ws, edit.path)
    BY <1>3 DEF Worker!ApplyOne
  <2> QED BY <1>1, <1>3, <2>1, Deleted
<1>4. CASE edit.op = "replace"
  <2>1. Worker!ApplyOne(ws, edit) = Worker!Replace(ws, edit)
    BY <1>4 DEF Worker!ApplyOne
  <2> QED BY <1>4, <2>1, ReplacedThere
<1> QED BY <1>1, <1>2, <1>3, <1>4

\* A list is applied in steps, and part of it in as many of them.
LEMMA StepsOfApply ==
  ASSUME NEW ws \in Trees, NEW edits \in Seq(AnyEdit)
  PROVE  \E f : AppliedInSteps(f, Trees, ws, edits)
<1>1. \A w \in Trees, k \in DOMAIN edits : Worker!ApplyOne(w, edits[k]).ws \in Trees
  <2> TAKE w \in Trees, k \in DOMAIN edits
  <2>1. edits[k] \in AnyEdit
    BY ElementOfSeq, LenProperties
  <2>2. Went(Worker!ApplyOne(w, edits[k]), w)
    BY <2>1, OneIsApplied
  <2> QED BY <2>2 DEF Went
<1> QED BY <1>1, ApplySteps

LEMMA OneStepOfApply ==
  ASSUME NEW f, NEW W, NEW ws, NEW edits, AppliedInSteps(f, W, ws, edits)
  PROVE  \A k \in 1 .. Len(edits) :
           /\ f[k].ws = Worker!ApplyOne(f[k - 1].ws, edits[k]).ws
           /\ f[k].failures = f[k - 1].failures
                 \cup IF Worker!ApplyOne(f[k - 1].ws, edits[k]).ok THEN {} ELSE {k}
<1> TAKE k \in 1 .. Len(edits)
<1> DEFINE new == Worker!ApplyOne(f[k - 1].ws, edits[k]).ws
           failures == f[k - 1].failures
                         \cup IF Worker!ApplyOne(f[k - 1].ws, edits[k]).ok THEN {} ELSE {k}
<1>1. f[k] = [ws |-> new, failures |-> failures]
  BY DEF AppliedInSteps
<1> HIDE DEF new, failures
<1>2. f[k].ws = new /\ f[k].failures = failures
  BY <1>1
<1> QED BY <1>2 DEF new, failures

LEMMA PartIsApplied ==
  ASSUME NEW ws \in Trees, NEW edits \in Seq(AnyEdit), NEW f, AppliedInSteps(f, Trees, ws, edits),
         NEW part \in Seq(AnyEdit), Len(part) <= Len(edits),
         \A k \in 1 .. Len(part) : part[k] = edits[k]
  PROVE  Worker!Apply(ws, part) = f[Len(part)]
<1> DEFINE n == Len(part)
           all == Len(edits)
           State(st, edit, k) ==
             [ws       |-> Worker!ApplyOne(st.ws, edit).ws,
              failures |-> st.failures \cup IF Worker!ApplyOne(st.ws, edit).ok THEN {} ELSE {k}]
<1>1. n \in Nat /\ all \in Nat /\ n <= all
  BY LenProperties
<1>2. PICK g : AppliedInSteps(g, Trees, ws, part)
  BY StepsOfApply
<1>3. /\ f[0] = [ws |-> ws, failures |-> {}]
      /\ \A k \in 1 .. all : f[k] = State(f[k - 1], edits[k], k)
  BY DEF AppliedInSteps
<1>4. /\ g[0] = [ws |-> ws, failures |-> {}]
      /\ \A k \in 1 .. n : g[k] = State(g[k - 1], part[k], k)
      /\ Worker!Apply(ws, part) = g[n]
  BY <1>2 DEF AppliedInSteps
<1>5. \A k \in 1 .. n : part[k] = edits[k]
  OBVIOUS
<1> HIDE DEF n, all, State
<1> DEFINE P == {k \in 0 .. n : g[k] = f[k]}
<1>6. 0 \in P
  BY <1>1, <1>3, <1>4
<1>7. ASSUME NEW k \in 1 .. n, k - 1 \in P PROVE k \in P
  <2>1. k \in 1 .. all /\ k \in 0 .. n
    BY <1>1
  <2>2. g[k - 1] = f[k - 1]
    BY <1>7
  <2>3. g[k] = State(g[k - 1], part[k], k) /\ f[k] = State(f[k - 1], edits[k], k)
    BY <1>3, <1>4, <2>1
  <2>4. g[k] = f[k]
    BY <1>5, <2>2, <2>3
  <2> QED BY <2>1, <2>4
<1>8. n \in P
  <2>1. n \in 0 .. n
    BY <1>1
  <2> HIDE DEF P
  <2> QED BY <1>1, <1>6, <1>7, <2>1, Counting
<1>9. g[n] = f[n]
  BY <1>8
<1> QED BY <1>4, <1>9 DEF n

LEMMA OneMoreIsApplied ==
  ASSUME NEW ws \in Trees, NEW edits \in Seq(AnyEdit), NEW edit \in AnyEdit,
         NEW w, Worker!Apply(ws, edits) = [ws |-> w, failures |-> {}],
         Worker!ApplyOne(w, edit).ok
  PROVE  Worker!Apply(ws, Append(edits, edit)) =
           [ws |-> Worker!ApplyOne(w, edit).ws, failures |-> {}]
<1> DEFINE n == Len(edits)
           more == Append(edits, edit)
<1>1. /\ n \in Nat /\ more \in Seq(AnyEdit) /\ Len(more) = n + 1 /\ more[n + 1] = edit
      /\ \A k \in 1 .. n : more[k] = edits[k]
  BY LenProperties, AppendProperties
<1> HIDE DEF more
<1>2. PICK f : AppliedInSteps(f, Trees, ws, more)
  BY <1>1, StepsOfApply
<1>3. f[n] = [ws |-> w, failures |-> {}]
  <2>1. Len(edits) <= Len(more) /\ \A k \in 1 .. Len(edits) : edits[k] = more[k]
    BY <1>1
  <2> HIDE DEF n
  <2>2. Worker!Apply(ws, edits) = f[Len(edits)]
    BY <1>1, <1>2, <2>1, PartIsApplied
  <2> QED BY <2>2 DEF n
<1>4. /\ Worker!Apply(ws, more) = f[n + 1]
      /\ \A k \in 1 .. n + 1 :
           f[k] = [ws       |-> Worker!ApplyOne(f[k - 1].ws, more[k]).ws,
                   failures |-> f[k - 1].failures
                                  \cup IF Worker!ApplyOne(f[k - 1].ws, more[k]).ok THEN {} ELSE {k}]
  BY <1>1, <1>2 DEF AppliedInSteps
<1> HIDE DEF n
<1>5. n + 1 \in 1 .. n + 1 /\ n + 1 - 1 = n
  BY <1>1
<1>6. f[n + 1] = [ws       |-> Worker!ApplyOne(f[n].ws, edit).ws,
                  failures |-> f[n].failures
                                 \cup IF Worker!ApplyOne(f[n].ws, edit).ok THEN {} ELSE {n + 1}]
  BY <1>1, <1>4, <1>5
<1>7. f[n].ws = w /\ f[n].failures = {}
  BY <1>3
<1>8. f[n + 1] = [ws |-> Worker!ApplyOne(w, edit).ws, failures |-> {}]
  BY <1>6, <1>7
<1> QED BY <1>4, <1>8 DEF more

\* What fails is reported, and nothing else is.
LEMMA FailuresAre ==
  ASSUME NEW ws \in Trees, NEW edits \in Seq(AnyEdit), NEW f, AppliedInSteps(f, Trees, ws, edits),
         NEW k \in 1 .. Len(edits)
  PROVE  k \in f[Len(edits)].failures <=> ~ Worker!ApplyOne(f[k - 1].ws, edits[k]).ok
<1> DEFINE n == Len(edits)
           Ok(j) == Worker!ApplyOne(f[j - 1].ws, edits[j]).ok
           P == {j \in 0 .. n : f[j].failures = {i \in 1 .. j : ~ Ok(i)}}
<1>1. n \in Nat
  BY LenProperties
<1>2. /\ f[0] = [ws |-> ws, failures |-> {}]
      /\ \A j \in 1 .. n : f[j].failures = f[j - 1].failures \cup IF Ok(j) THEN {} ELSE {j}
  <2>1. \A j \in 1 .. n : f[j].failures = f[j - 1].failures \cup IF Ok(j) THEN {} ELSE {j}
    BY OneStepOfApply
  <2>2. f[0] = [ws |-> ws, failures |-> {}]
    BY DEF AppliedInSteps
  <2> QED BY <2>1, <2>2
<1> HIDE DEF n, Ok
<1>3. 0 \in P
  <2>1. 0 \in 0 .. n /\ {i \in 1 .. 0 : ~ Ok(i)} = {}
    BY <1>1
  <2>2. f[0].failures = {}
    BY <1>2
  <2> QED BY <2>1, <2>2
<1>4. ASSUME NEW j \in 1 .. n, j - 1 \in P PROVE j \in P
  <2>1. f[j - 1].failures = {i \in 1 .. j - 1 : ~ Ok(i)}
    BY <1>4
  <2>2. f[j].failures = f[j - 1].failures \cup IF Ok(j) THEN {} ELSE {j}
    BY <1>2
  <2>3. {i \in 1 .. j : ~ Ok(i)} = {i \in 1 .. j - 1 : ~ Ok(i)} \cup IF Ok(j) THEN {} ELSE {j}
    <3>1. 1 .. j = (1 .. j - 1) \cup {j}
      BY <1>1
    <3>2. CASE Ok(j)
      BY <3>1, <3>2
    <3>3. CASE ~ Ok(j)
      BY <3>1, <3>3
    <3> QED BY <3>2, <3>3
  <2>4. j \in 0 .. n
    BY <1>1
  <2> QED BY <2>1, <2>2, <2>3, <2>4
<1>5. n \in P
  <2>1. n \in 0 .. n
    BY <1>1
  <2> HIDE DEF P
  <2> QED BY <1>1, <1>3, <1>4, <2>1, Counting
<1>6. f[n].failures = {i \in 1 .. n : ~ Ok(i)}
  BY <1>5
<1>7. k \in 1 .. n
  BY DEF n
<1> QED BY <1>6, <1>7 DEF n, Ok

\* The edits that are not reported do alone what they did among the others.
LEMMA OthersAreApplied ==
  ASSUME NEW ws \in Trees, NEW edits \in Seq(AnyEdit), NEW f, AppliedInSteps(f, Trees, ws, edits)
  PROVE  Worker!Apply(ws, Worker!Without(edits, f[Len(edits)].failures)) =
           [ws |-> f[Len(edits)].ws, failures |-> {}]
<1> DEFINE n == Len(edits)
           failed == f[n].failures
           Ok(k) == Worker!ApplyOne(f[k - 1].ws, edits[k]).ok
<1>1. n \in Nat /\ \A k \in 1 .. n : edits[k] \in AnyEdit
  BY LenProperties, ElementOfSeq
<1>2. \A k \in 1 .. n : k \in failed <=> ~ Ok(k)
  <2> TAKE k \in 1 .. n
  <2>1. k \in 1 .. Len(edits)
    OBVIOUS
  <2>2. k \in f[Len(edits)].failures <=> ~ Worker!ApplyOne(f[k - 1].ws, edits[k]).ok
    BY <2>1, FailuresAre, Zenon
  <2> QED BY <2>2
<1>3. /\ f \in [0 .. n -> [ws : Trees, failures : SUBSET (1 .. n)]]
      /\ f[0] = [ws |-> ws, failures |-> {}]
      /\ \A k \in 1 .. n : f[k].ws = Worker!ApplyOne(f[k - 1].ws, edits[k]).ws
  <2>1. \A k \in 1 .. n : f[k].ws = Worker!ApplyOne(f[k - 1].ws, edits[k]).ws
    BY OneStepOfApply
  <2> HIDE DEF failed, Ok
  <2> QED BY <2>1 DEF AppliedInSteps
<1> HIDE DEF failed
<1>4. PICK kept : KeptOnesInSteps(kept, AnyEdit, edits, failed)
  BY WithoutSteps
<1>5. /\ kept \in [0 .. n -> Seq(AnyEdit)] /\ kept[0] = <<>>
      /\ \A k \in 1 .. n :
           kept[k] = IF k \in failed THEN kept[k - 1] ELSE Append(kept[k - 1], edits[k])
      /\ Worker!Without(edits, failed) = kept[n]
  BY <1>4 DEF KeptOnesInSteps
<1> HIDE DEF n
<1> DEFINE P == {k \in 0 .. n : Worker!Apply(ws, kept[k]) = [ws |-> f[k].ws, failures |-> {}]}
<1>6. 0 \in P
  <2>1. PICK g : AppliedInSteps(g, Trees, ws, <<>>)
    <3>1. <<>> \in Seq(AnyEdit)
      BY EmptySeq
    <3> QED BY <3>1, StepsOfApply
  <2>2. Worker!Apply(ws, <<>>) = [ws |-> ws, failures |-> {}]
    <3>1. Len(<<>>) = 0
      BY EmptySeq
    <3> QED BY <2>1, <3>1 DEF AppliedInSteps
  <2>3. f[0].ws = ws /\ 0 \in 0 .. n
    BY <1>1, <1>3
  <2> QED BY <1>5, <2>2, <2>3
<1>7. ASSUME NEW k \in 1 .. n, k - 1 \in P PROVE k \in P
  <2>1. k \in 0 .. n /\ k - 1 \in 0 .. n
    BY <1>1
  <2>2. Worker!Apply(ws, kept[k - 1]) = [ws |-> f[k - 1].ws, failures |-> {}]
    BY <1>7
  <2>3. /\ f[k - 1].ws \in Trees /\ kept[k - 1] \in Seq(AnyEdit) /\ edits[k] \in AnyEdit
        /\ f[k].ws = Worker!ApplyOne(f[k - 1].ws, edits[k]).ws
    BY <1>1, <1>3, <1>5, <2>1
  <2>4. CASE k \in failed
    <3>1. ~ Ok(k) /\ kept[k] = kept[k - 1]
      BY <1>2, <1>5, <2>4
    <3>2. Went(Worker!ApplyOne(f[k - 1].ws, edits[k]), f[k - 1].ws)
      BY <2>3, OneIsApplied
    <3>3. f[k].ws = f[k - 1].ws
      BY <2>3, <3>1, <3>2 DEF Went
    <3> QED BY <2>1, <2>2, <3>1, <3>3
  <2>5. CASE k \notin failed
    <3>1. Ok(k) /\ kept[k] = Append(kept[k - 1], edits[k])
      BY <1>2, <1>5, <2>5
    <3>2. Worker!Apply(ws, Append(kept[k - 1], edits[k])) =
            [ws |-> Worker!ApplyOne(f[k - 1].ws, edits[k]).ws, failures |-> {}]
      <4> DEFINE w == f[k - 1].ws
                 some == kept[k - 1]
                 edit == edits[k]
      <4>1. /\ some \in Seq(AnyEdit) /\ edit \in AnyEdit /\ Worker!ApplyOne(w, edit).ok
            /\ Worker!Apply(ws, some) = [ws |-> w, failures |-> {}]
        BY <2>2, <2>3, <3>1
      <4> HIDE DEF w, some, edit
      <4>2. Worker!Apply(ws, Append(some, edit)) =
              [ws |-> Worker!ApplyOne(w, edit).ws, failures |-> {}]
        BY <4>1, OneMoreIsApplied
      <4> QED BY <4>2 DEF w, some, edit
    <3> QED BY <2>1, <2>3, <3>1, <3>2
  <2> QED BY <2>4, <2>5
<1>8. n \in P
  <2>1. n \in 0 .. n
    BY <1>1
  <2> HIDE DEF P
  <2> QED BY <1>1, <1>6, <1>7, <2>1, Counting
<1> QED BY <1>5, <1>8 DEF failed, n

\* Whatever is asked of a checkout, the edits do as the feedback says.
LEMMA EditsDo ==
  ASSUME NEW ws \in Trees, NEW edits \in Seq(AnyEdit)
  PROVE  Worker!EditsDoAsTheySay(ws, edits)
<1> DEFINE n == Len(edits)
           outcome == Worker!Apply(ws, edits)
<1>1. PICK f : AppliedInSteps(f, Trees, ws, edits)
  BY StepsOfApply
<1>2. n \in Nat /\ DOMAIN edits = 1 .. n
  BY LenProperties
<1>3. /\ f \in [0 .. n -> [ws : Trees, failures : SUBSET (1 .. n)]]
      /\ outcome = f[n]
      /\ \A k \in 1 .. n : f[k].ws = Worker!ApplyOne(f[k - 1].ws, edits[k]).ws
  <2>1. \A k \in 1 .. n : f[k].ws = Worker!ApplyOne(f[k - 1].ws, edits[k]).ws
    BY <1>1, OneStepOfApply
  <2> QED BY <1>1, <2>1 DEF AppliedInSteps
<1> HIDE DEF outcome
<1>4. Worker!Apply(ws, Worker!Without(edits, outcome.failures)) =
        [ws |-> outcome.ws, failures |-> {}]
  BY <1>1, <1>3, OthersAreApplied
<1>5. Worker!IsCheckout(outcome.ws)
  <2>1. n \in 0 .. n
    BY <1>2
  <2>2. outcome.ws \in Trees
    BY <1>3, <2>1
  <2> QED BY <2>2, TreesAreTyped
<1>6. ASSUME NEW k \in DOMAIN edits \ outcome.failures, edits[k].op = "replace", ~ edits[k].all
      PROVE  IsReplacedOnce(edits[k],
               Worker!Apply(ws, SubSeq(edits, 1, k - 1)).ws.files[Worker!Joined(edits[k].path)],
               Worker!Apply(ws, SubSeq(edits, 1, k)).ws.files[Worker!Joined(edits[k].path)])
  <2>1. ASSUME NEW i \in 0 .. n PROVE Worker!Apply(ws, SubSeq(edits, 1, i)) = f[i]
    <3> DEFINE part == SubSeq(edits, 1, i)
    <3>1. \A j \in 1 .. i : edits[j] \in AnyEdit
      BY <1>2, ElementOfSeq
    <3>2. part \in Seq(AnyEdit) /\ Len(part) = i /\ \A j \in 1 .. i : part[j] = edits[j]
      <4>1. i \in Nat /\ 1 \in Int
        BY <1>2
      <4>2. /\ part \in Seq(AnyEdit)
            /\ Len(part) = IF 1 <= i THEN i - 1 + 1 ELSE 0
            /\ \A j \in 1 .. i - 1 + 1 : part[j] = edits[1 + j - 1]
        BY <3>1, <4>1, SubSeqProperties
      <4> HIDE DEF part
      <4>3. Len(part) = i
        BY <4>1, <4>2
      <4>4. \A j \in 1 .. i : part[j] = edits[j]
        BY <4>1, <4>2
      <4> QED BY <4>2, <4>3, <4>4
    <3> HIDE DEF part
    <3>3. Worker!Apply(ws, part) = f[Len(part)]
      BY <1>1, <1>2, <3>2, PartIsApplied
    <3> QED BY <3>2, <3>3 DEF part
  <2>2. k \in 1 .. n /\ k \in 0 .. n /\ k - 1 \in 0 .. n
    BY <1>2
  <2>3. edits[k] \in AnyEdit /\ f[k - 1].ws \in Trees
    BY <1>2, <1>3, <2>2, ElementOfSeq
  <2>4. Worker!ApplyOne(f[k - 1].ws, edits[k]).ok
    BY <1>1, <1>3, <1>6, <2>2, FailuresAre
  <2>5. IsReplacedOnce(edits[k], f[k - 1].ws.files[Worker!Joined(edits[k].path)],
                       f[k].ws.files[Worker!Joined(edits[k].path)])
    BY <1>3, <1>6, <2>2, <2>3, <2>4, OneIsApplied
  <2> QED BY <2>1, <2>2, <2>5
<1> QED BY <1>4, <1>5, <1>6, Zenon DEF Worker!EditsDoAsTheySay, IsReplacedOnce, outcome

\* The other edits were applied, as the feedback says, and a checkout without symbolic links
\* remains one, whatever a worker asks for (apply, write_file, delete_file, safe_join).
THEOREM EditsAlwaysDoAsTheySay == Spec => []EditsDoAsTheySay
<1>1. PickedRight => EditsDoAsTheySay
  <2> SUFFICES ASSUME PickedRight, probe.about = "edits"
               PROVE  Worker!EditsDoAsTheySay(probe.input.ws, probe.input.edits)
    BY DEF EditsDoAsTheySay
  <2>1. /\ Worker!IsTree(probe.input.ws, Seq(PathParts), Seq(Symbols))
        /\ Worker!IsCheckout(probe.input.ws) /\ probe.input.edits \in Seq(AnyEdit)
    BY EditListsAssumption DEF PickedRight, AnyEdit
  <2>2. probe.input.ws \in Trees
    BY <2>1, TreesAreTyped
  <2> QED BY <2>1, <2>2, EditsDo
<1> QED BY <1>1, InputsArePicked, PTL

-----------------------------------------------------------------------------
(* The scope: match_from *)

\* The first of the numbers from k on.
LEMMA FirstIsMin ==
  ASSUME NEW n \in Nat
  PROVE  /\ \A T \in SUBSET (1 .. n) : T # {} => Globs!Min(T) \in T
         /\ \A k \in 1 .. n : Globs!Min(k .. n) = k
<1>1. ASSUME NEW T \in SUBSET (1 .. n), NEW m \in T, \A x \in T : m <= x PROVE Globs!Min(T) = m
  <2> DEFINE min == Globs!Min(T)
  <2>1. min \in T /\ \A x \in T : min <= x
    BY <1>1, Zenon DEF Globs!Min
  <2> HIDE DEF min
  <2>2. min \in Int /\ m \in Int /\ min <= m /\ m <= min
    BY <1>1, <2>1
  <2> QED BY <2>2 DEF min
<1>2. ASSUME NEW T \in SUBSET (1 .. n), T # {} PROVE Globs!Min(T) \in T
  <2>1. T \in SUBSET Nat
    OBVIOUS
  <2>2. PICK m \in T : \A x \in T : m <= x
    BY <1>2, <2>1, SmallestExists
  <2> QED BY <1>1, <2>2
<1>3. ASSUME NEW k \in 1 .. n PROVE Globs!Min(k .. n) = k
  <2> DEFINE T == k .. n
  <2>1. T \in SUBSET (1 .. n) /\ k \in T /\ \A x \in T : k <= x
    OBVIOUS
  <2> HIDE DEF T
  <2>2. Globs!Min(T) = k
    BY <1>1, <2>1
  <2> QED BY <2>2 DEF T
<1> QED BY <1>2, <1>3

\* The segments of what is left of a text, from its end to its beginning.
SegmentedInSteps(f, s, C) ==
  /\ f \in [1 .. Len(s) + 1 -> Seq(Seq(C)) \ {<<>>}]
  /\ f[Len(s) + 1] = <<<<>>>>
  /\ \A k \in 1 .. Len(s) :
       f[k] = IF s[k] = "/" THEN <<<<>>>> \o f[k + 1]
              ELSE <<<<s[k]>> \o Head(f[k + 1])>> \o Tail(f[k + 1])
  /\ Globs!Segments(s) = f[1]

LEMMA SegmentsSteps ==
  ASSUME NEW C, NEW s \in Seq(C)
  PROVE  \E f : SegmentedInSteps(f, s, C)
<1> DEFINE n == Len(s)
           D == 1 .. n
           X == Seq(Seq(C)) \ {<<>>}
           Step(k, rest) == IF s[k] = "/" THEN <<<<>>>> \o rest
                            ELSE <<<<s[k]>> \o Head(rest)>> \o Tail(rest)
           one == <<<<>>>>
           step == [p \in D \X X |-> Step(p[1], p[2])]
           picked == [T \in SUBSET D |-> Globs!Min(T)]
           Is(it) == it = [T \in SUBSET DOMAIN s |->
                            IF T = {} THEN one ELSE Step(Globs!Min(T), it[T \ {Globs!Min(T)}])]
           fold == CHOOSE it : Is(it)
<1>1. n \in Nat /\ DOMAIN s = D /\ \A k \in D : s[k] \in C
  BY LenProperties, ElementOfSeq
<1>2. one \in X
  <2>1. <<>> \in Seq(C)
    OBVIOUS
  <2> QED BY <2>1
<1>3. ASSUME NEW k \in D, NEW rest \in X PROVE Step(k, rest) \in X
  <2>1. /\ rest \in Seq(Seq(C)) /\ rest # <<>>
        /\ Head(rest) \in Seq(C) /\ Tail(rest) \in Seq(Seq(C)) /\ s[k] \in C
    BY <1>1, HeadTailProperties
  <2>2. <<<<>>>> \o rest \in X
    <3>1. <<<<>>>> \in Seq(Seq(C)) /\ Len(<<<<>>>>) = 1
      OBVIOUS
    <3> QED BY <2>1, <3>1, ConcatProperties, EmptySeq
  <2>3. <<<<s[k]>> \o Head(rest)>> \o Tail(rest) \in X
    <3> DEFINE h == <<s[k]>> \o Head(rest)
               t == Tail(rest)
    <3>1. h \in Seq(C)
      BY <2>1
    <3>2. t \in Seq(Seq(C))
      BY <2>1
    <3> HIDE DEF h, t
    <3>3. <<h>> \in Seq(Seq(C)) /\ Len(<<h>>) = 1
      BY <3>1
    <3>4. <<h>> \o t \in Seq(Seq(C)) /\ Len(<<h>> \o t) = 1 + Len(t) /\ Len(t) \in Nat
      BY <3>2, <3>3, ConcatProperties, LenProperties
    <3> QED BY <3>4, EmptySeq DEF h, t
  <2> QED BY <2>2, <2>3
<1>4. \A T \in SUBSET D : T # {} => Globs!Min(T) \in T
  BY <1>1, FirstIsMin
<1> HIDE DEF X, Step, one
<1>5. step \in [D \X X -> X] /\ \A k \in D, rest \in X : step[<<k, rest>>] = Step(k, rest)
  BY <1>3
<1> HIDE DEF step
<1>6. PICK it : IsIteration(it, D, X, one, picked, step)
  <2>1. \A T \in SUBSET D : T # {} => picked[T] \in T
    BY <1>4
  <2>2. IsFiniteSet(D)
    BY <1>1, FS_Interval
  <2> HIDE DEF D, picked
  <2> QED BY <1>2, <1>5, <2>1, <2>2, IterationExists
<1> HIDE DEF D
<1>7. Is(it)
  <2>1. it \in [SUBSET D -> X]
    BY <1>6 DEF IsIteration
  <2>2. ASSUME NEW T \in SUBSET D
        PROVE  it[T] = IF T = {} THEN one ELSE Step(Globs!Min(T), it[T \ {Globs!Min(T)}])
    <3>1. it[T] = IF T = {} THEN one ELSE step[<<Globs!Min(T), it[T \ {Globs!Min(T)}]>>]
      BY <1>6 DEF IsIteration
    <3>2. it[T \ {Globs!Min(T)}] \in X
      BY <2>1
    <3> QED BY <1>4, <1>5, <3>1, <3>2
  <2> QED BY <1>1, <2>1, <2>2
<1>8. Is(fold)
  <2> HIDE DEF Is
  <2> QED BY <1>7, Zenon
<1>9. Globs!Segments(s) = fold[DOMAIN s]
  BY Zenon DEF Globs!Segments, Globs!FoldRight, Globs!MapThenFoldSet, Step, one
<1> HIDE DEF fold
<1>10. fold[{}] = one /\ \A T \in SUBSET D :
         T # {} => fold[T] = Step(Globs!Min(T), fold[T \ {Globs!Min(T)}])
  BY <1>1, <1>8
<1> HIDE DEF Is, n
<1> DEFINE f == [k \in 1 .. n + 1 |-> fold[k .. n]]
<1>11. f[n + 1] = one
  <2>1. n + 1 .. n = {} /\ n + 1 \in 1 .. n + 1
    BY <1>1
  <2> QED BY <1>10, <2>1
<1>12. ASSUME NEW k \in 1 .. n PROVE f[k] = Step(k, f[k + 1])
  <2> DEFINE T == k .. n
             U == k + 1 .. n
  <2>1. T \in SUBSET D /\ T # {} /\ T \ {k} = U
    <3>1. k \in Nat /\ k >= 1 /\ k <= n
      BY <1>1
    <3>2. T \subseteq D
      BY <1>1, <3>1 DEF D
    <3>3. k \in T /\ T \ {k} = U
      BY <1>1, <3>1
    <3> QED BY <3>2, <3>3
  <2>2. Globs!Min(T) = k
    BY <1>1, FirstIsMin
  <2>3. f[k] = fold[T] /\ f[k + 1] = fold[U]
    BY <1>1
  <2> HIDE DEF T, U, f
  <2> QED BY <1>10, <2>1, <2>2, <2>3
<1>13. \A k \in 1 .. n + 1 : f[k] \in X
  <2> HIDE DEF f
  <2> DEFINE P == {k \in 0 .. n : f[n + 1 - k] \in X}
  <2>1. 0 \in P
    BY <1>1, <1>2, <1>11
  <2>2. ASSUME NEW k \in 1 .. n, k - 1 \in P PROVE k \in P
    <3>1. n + 1 - k \in 1 .. n /\ n + 1 - (k - 1) = (n + 1 - k) + 1
      BY <1>1
    <3>2. f[n + 1 - k] = Step(n + 1 - k, f[(n + 1 - k) + 1]) /\ f[(n + 1 - k) + 1] \in X
      BY <1>12, <2>2, <3>1
    <3>3. n + 1 - k \in D
      BY <3>1 DEF D
    <3> QED BY <1>3, <3>2, <3>3
  <2>3. \A k \in 0 .. n : k \in P
    <3> HIDE DEF P
    <3> QED BY <1>1, <2>1, <2>2, Counting
  <2> TAKE k \in 1 .. n + 1
  <2>4. n + 1 - k \in 0 .. n /\ n + 1 - (n + 1 - k) = k
    BY <1>1
  <2>5. n + 1 - k \in P
    BY <2>3, <2>4
  <2> QED BY <2>4, <2>5
<1>14. f \in [1 .. n + 1 -> X]
  BY <1>13
<1>15. Globs!Segments(s) = f[1]
  BY <1>1, <1>9 DEF D
<1> HIDE DEF f
<1> QED BY <1>11, <1>12, <1>14, <1>15 DEF SegmentedInSteps, Step, one, X, n

\* Where in a text a pattern matches from its end to its beginning.
MatchedInSteps(f, pat, txt) ==
  /\ f \in [1 .. Len(pat) + 1 -> SUBSET (1 .. Len(txt) + 1)]
  /\ f[Len(pat) + 1] = {Len(txt) + 1}
  /\ \A pi \in 1 .. Len(pat) :
       /\ Globs!IsDouble(pat, pi) =>
            f[pi] = Globs!Skipping(txt, f[pi + 2])
                    \cup (IF Globs!MayBeNone(pat, pi) THEN f[pi + 3] ELSE {})
       /\ Globs!IsStar(pat, pi) /\ ~ Globs!IsDouble(pat, pi) =>
            f[pi] = Globs!SkippingInside(txt, f[pi + 1])
       /\ ~ Globs!IsStar(pat, pi) => f[pi] = Globs!Taking(pat[pi], txt, f[pi + 1])
  /\ Globs!MatchFrom(pat, txt) <=> 1 \in f[1]

LEMMA MatchFromSteps ==
  ASSUME NEW C, NEW pat \in Seq(C), NEW txt \in Seq(C)
  PROVE  \E f : MatchedInSteps(f, pat, txt)
<1> DEFINE n == Len(pat)
           D == 1 .. n + 1
           E == 1 .. Len(txt) + 1
           X == SUBSET E
           Row(g, pi) ==
             CASE pi > Len(pat) -> {Len(txt) + 1}
               [] Globs!IsDouble(pat, pi) ->
                    Globs!Skipping(txt, g[pi + 2])
                    \cup (IF Globs!MayBeNone(pat, pi) THEN g[pi + 3] ELSE {})
               [] Globs!IsStar(pat, pi) /\ ~ Globs!IsDouble(pat, pi) ->
                    Globs!SkippingInside(txt, g[pi + 1])
               [] OTHER ->
                    Globs!Taking(pat[pi], txt, g[pi + 1])
           Is(g) == g = [pi \in 1 .. Len(pat) + 1 |-> Row(g, pi)]
           from == CHOOSE g : Is(g)
           UpFrom(g, k) == g \in [D -> X] /\ \A pi \in k .. n + 1 : g[pi] = Row(g, pi)
           P == {k \in 0 .. n : \E g : UpFrom(g, n + 1 - k)}
<1>1. n \in Nat /\ Len(txt) \in Nat
  BY LenProperties
<1>2. ASSUME NEW g
      PROVE  /\ Row(g, n + 1) = {Len(txt) + 1}
             /\ \A pi \in 1 .. n :
                  /\ Globs!IsDouble(pat, pi) =>
                       Row(g, pi) = Globs!Skipping(txt, g[pi + 2])
                                    \cup (IF Globs!MayBeNone(pat, pi) THEN g[pi + 3] ELSE {})
                  /\ Globs!IsStar(pat, pi) /\ ~ Globs!IsDouble(pat, pi) =>
                       Row(g, pi) = Globs!SkippingInside(txt, g[pi + 1])
                  /\ ~ Globs!IsStar(pat, pi) => Row(g, pi) = Globs!Taking(pat[pi], txt, g[pi + 1])
  <2>1. n + 1 > Len(pat) /\ ~ (n + 1 <= Len(pat))
    BY <1>1
  <2>2. ~ Globs!IsStar(pat, n + 1) /\ ~ Globs!IsDouble(pat, n + 1)
    BY <2>1 DEF Globs!IsStar, Globs!IsDouble
  <2>3. Row(g, n + 1) = {Len(txt) + 1}
    BY <2>1, <2>2
  <2>4. ASSUME NEW pi \in 1 .. n
        PROVE  /\ ~ (pi > Len(pat)) /\ pi <= Len(pat)
               /\ Globs!IsDouble(pat, pi) => Globs!IsStar(pat, pi)
    BY <1>1 DEF Globs!IsDouble
  <2> QED BY <2>3, <2>4
<1>3. ASSUME NEW pi \in 1 .. n
      PROVE  /\ Globs!IsDouble(pat, pi) => pi + 2 \in pi + 1 .. n + 1
             /\ Globs!MayBeNone(pat, pi) => pi + 3 \in pi + 1 .. n + 1
             /\ pi + 1 \in pi + 1 .. n + 1
  BY <1>1 DEF Globs!IsDouble, Globs!IsStar, Globs!MayBeNone
<1>4. \A S : Globs!Skipping(txt, S) \in X /\ Globs!SkippingInside(txt, S) \in X
             /\ \A c : Globs!Taking(c, txt, S) \in X
  BY <1>1 DEF Globs!Skipping, Globs!SkippingInside, Globs!Taking
<1>5. {Len(txt) + 1} \in X
  BY <1>1
<1> HIDE DEF Row, X, n
\* A row stays within the places, and is made of the rows behind it.
<1>6. ASSUME NEW g \in [D -> X], NEW pi \in D PROVE Row(g, pi) \in X
  <2>1. CASE pi = n + 1
    BY <1>2, <1>5, <2>1
  <2>2. CASE pi # n + 1
    <3>1. pi \in 1 .. n
      BY <1>1, <2>2
    <3>2. CASE Globs!IsDouble(pat, pi)
      <4>1. Globs!MayBeNone(pat, pi) => g[pi + 3] \in X
        BY <1>1, <1>3, <3>1
      <4>2. Row(g, pi) = Globs!Skipping(txt, g[pi + 2])
                         \cup (IF Globs!MayBeNone(pat, pi) THEN g[pi + 3] ELSE {})
        BY <1>2, <3>1, <3>2
      <4>3. Globs!Skipping(txt, g[pi + 2]) \in X
        BY <1>4
      <4> QED BY <4>1, <4>2, <4>3 DEF X
    <3>3. CASE ~ Globs!IsDouble(pat, pi) /\ Globs!IsStar(pat, pi)
      <4>1. Row(g, pi) = Globs!SkippingInside(txt, g[pi + 1])
        BY <1>2, <3>1, <3>3
      <4> QED BY <1>4, <4>1
    <3>4. CASE ~ Globs!IsStar(pat, pi)
      <4>1. Row(g, pi) = Globs!Taking(pat[pi], txt, g[pi + 1])
        BY <1>2, <3>1, <3>4
      <4> QED BY <1>4, <4>1
    <3> QED BY <3>2, <3>3, <3>4
  <2> QED BY <2>1, <2>2
<1>7. ASSUME NEW g, NEW h, NEW pi \in D, \A j \in pi + 1 .. n + 1 : g[j] = h[j]
      PROVE  Row(g, pi) = Row(h, pi)
  <2>1. CASE pi = n + 1
    BY <1>2, <2>1
  <2>2. CASE pi # n + 1
    <3>1. pi \in 1 .. n
      BY <1>1, <2>2
    <3>2. CASE Globs!IsDouble(pat, pi)
      <4>1. Globs!MayBeNone(pat, pi) => g[pi + 3] = h[pi + 3]
        BY <1>3, <1>7, <3>1
      <4>2. g[pi + 2] = h[pi + 2]
        BY <1>3, <1>7, <3>1, <3>2
      <4> QED BY <1>2, <3>1, <3>2, <4>1, <4>2
    <3>3. CASE ~ Globs!IsDouble(pat, pi)
      <4>1. g[pi + 1] = h[pi + 1]
        BY <1>3, <1>7, <3>1
      <4> QED BY <1>2, <3>1, <3>3, <4>1
    <3> QED BY <3>2, <3>3
  <2> QED BY <2>1, <2>2
<1>8. 0 \in P
  <2> DEFINE g == [pi \in D |-> {Len(txt) + 1}]
  <2>1. g \in [D -> X]
    BY <1>5
  <2>2. \A pi \in n + 1 .. n + 1 : pi = n + 1 /\ g[pi] = {Len(txt) + 1}
    BY <1>1
  <2> HIDE DEF g
  <2>3. UpFrom(g, n + 1)
    BY <1>2, <2>1, <2>2
  <2>4. n + 1 - 0 = n + 1 /\ 0 \in 0 .. n
    BY <1>1
  <2> HIDE DEF UpFrom
  <2> QED BY <2>3, <2>4
<1>9. ASSUME NEW k \in 1 .. n, k - 1 \in P PROVE k \in P
  <2> DEFINE p == n + 1 - k
  <2>1. p \in D /\ n + 1 - (k - 1) = p + 1 /\ p \in Nat /\ p <= n
    BY <1>1
  <2>2. PICK g : UpFrom(g, p + 1)
    BY <1>9, <2>1
  <2> HIDE DEF p
  <2> DEFINE h == [g EXCEPT ![p] = Row(g, p)]
  <2>3. h \in [D -> X]
    BY <1>6, <2>1, <2>2
  <2>4. ASSUME NEW pi \in p .. n + 1 PROVE h[pi] = Row(h, pi)
    <3>1. pi \in D
      BY <1>1, <2>1
    <3>2. \A j \in pi + 1 .. n + 1 : g[j] = h[j]
      <4> TAKE j \in pi + 1 .. n + 1
      <4>1. j \in D /\ j # p
        BY <1>1, <2>1
      <4> QED BY <2>2, <4>1
    <3>3. h[pi] = Row(g, pi)
      <4>1. CASE pi = p
        BY <2>1, <2>2, <4>1
      <4>2. CASE pi # p
        <5>1. pi \in p + 1 .. n + 1
          BY <1>1, <2>1, <4>2
        <5> QED BY <2>2, <3>1, <4>2, <5>1
      <4> QED BY <4>1, <4>2
    <3> HIDE DEF h
    <3> QED BY <1>7, <3>1, <3>2, <3>3
  <2> HIDE DEF h
  <2>5. UpFrom(h, p)
    BY <2>3, <2>4
  <2> HIDE DEF UpFrom
  <2>6. k \in 0 .. n
    BY <1>1
  <2> QED BY <2>5, <2>6 DEF p
<1>10. PICK g : UpFrom(g, 1)
  <2>1. \A k \in 0 .. n : k \in P
    <3> HIDE DEF P
    <3> QED BY <1>1, <1>8, <1>9, Counting
  <2>2. n \in P
    <3> HIDE DEF P
    <3> QED BY <1>1, <2>1
  <2>3. n + 1 - n = 1
    BY <1>1
  <2> HIDE DEF UpFrom
  <2> QED BY <2>2, <2>3
<1>11. Is(g)
  BY <1>10 DEF n
<1>12. Is(from)
  <2> HIDE DEF Is
  <2> QED BY <1>11, Zenon
<1>13. Globs!MatchFrom(pat, txt) <=> 1 \in from[1]
  BY DEF Globs!MatchFrom, Row
<1> HIDE DEF from
<1>14. \A pi \in D : from[pi] = Row(from, pi)
  BY <1>12 DEF n
<1>15. from \in [D -> X]
  <2>1. \A pi \in D : Row(from, pi) = Row(g, pi) => from[pi] \in X
    BY <1>6, <1>10, <1>14
  <2>2. from = [pi \in D |-> from[pi]]
    BY <1>12 DEF n
  <2> DEFINE Q == {k \in 0 .. n : \A pi \in n + 1 - k .. n + 1 : from[pi] = g[pi]}
  <2>3. 0 \in Q
    <3>1. \A pi \in n + 1 - 0 .. n + 1 : pi = n + 1 /\ pi \in D /\ pi \in 1 .. n + 1
      BY <1>1
    <3>2. from[n + 1] = {Len(txt) + 1} /\ g[n + 1] = {Len(txt) + 1}
      <4>1. n + 1 \in 1 .. n + 1
        BY <1>1
      <4> QED BY <1>2, <1>10, <1>14, <4>1
    <3>3. 0 \in 0 .. n
      BY <1>1
    <3> QED BY <3>1, <3>2, <3>3
  <2>4. ASSUME NEW k \in 1 .. n, k - 1 \in Q PROVE k \in Q
    <3> DEFINE p == n + 1 - k
    <3>1. p \in D /\ n + 1 - (k - 1) = p + 1 /\ p \in Nat /\ p <= n
      BY <1>1
    <3>2. \A pi \in p + 1 .. n + 1 : from[pi] = g[pi]
      BY <2>4, <3>1
    <3>3. from[p] = g[p]
      BY <1>7, <1>10, <1>14, <3>1, <3>2
    <3>4. \A pi \in p .. n + 1 : pi = p \/ pi \in p + 1 .. n + 1
      BY <1>1, <3>1
    <3> QED BY <1>1, <3>2, <3>3, <3>4
  <2>5. \A k \in 0 .. n : k \in Q
    <3> HIDE DEF Q
    <3> QED BY <1>1, <2>3, <2>4, Counting
  <2>6. \A pi \in D : from[pi] = g[pi]
    <3>1. n \in Q
      <4> HIDE DEF Q
      <4> QED BY <1>1, <2>5
    <3>2. n + 1 - n = 1
      BY <1>1
    <3> QED BY <3>1, <3>2
  <2> QED BY <1>10, <2>2, <2>6
<1>16. /\ from[n + 1] = {Len(txt) + 1}
       /\ \A pi \in 1 .. n :
            /\ Globs!IsDouble(pat, pi) =>
                 from[pi] = Globs!Skipping(txt, from[pi + 2])
                            \cup (IF Globs!MayBeNone(pat, pi) THEN from[pi + 3] ELSE {})
            /\ Globs!IsStar(pat, pi) /\ ~ Globs!IsDouble(pat, pi) =>
                 from[pi] = Globs!SkippingInside(txt, from[pi + 1])
            /\ ~ Globs!IsStar(pat, pi) => from[pi] = Globs!Taking(pat[pi], txt, from[pi + 1])
  <2>1. n + 1 \in D /\ \A pi \in 1 .. n : pi \in D
    BY <1>1
  <2> QED BY <1>2, <1>14, <2>1
<1> QED BY <1>13, <1>15, <1>16 DEF MatchedInSteps, X, n

\* An item in front of others, and what is left without the first.
LEMMA Prepended ==
  ASSUME NEW S, NEW x \in S, NEW rest \in Seq(S)
  PROVE  /\ <<x>> \o rest \in Seq(S)
         /\ Len(rest) \in Nat /\ Len(<<x>> \o rest) = Len(rest) + 1
         /\ (<<x>> \o rest)[1] = x
         /\ \A k \in 1 .. Len(rest) : (<<x>> \o rest)[k + 1] = rest[k]
         /\ Head(<<x>> \o rest) = x /\ Tail(<<x>> \o rest) = rest /\ <<x>> \o rest # <<>>
<1>1. <<x>> \in Seq(S) /\ Len(<<x>>) = 1 /\ <<x>>[1] = x
  OBVIOUS
<1>2. Len(rest) \in Nat
  BY LenProperties
<1> DEFINE s == <<x>> \o rest
<1>3. /\ s \in Seq(S) /\ Len(s) = Len(rest) + 1 /\ s[1] = x
      /\ \A k \in 1 .. Len(rest) : s[k + 1] = rest[k]
  BY <1>1, <1>2, ConcatProperties
<1> HIDE DEF s
<1>4. s # <<>>
  BY <1>2, <1>3, EmptySeq
<1>5. Head(s) = x /\ Tail(s) \in Seq(S) /\ Len(Tail(s)) = Len(rest)
      /\ \A k \in 1 .. Len(rest) : Tail(s)[k] = s[k + 1]
  BY <1>2, <1>3, <1>4, HeadTailProperties
<1>6. Tail(s) = rest
  <2>1. \A k \in 1 .. Len(rest) : Tail(s)[k] = rest[k]
    BY <1>3, <1>5
  <2> DEFINE t == Tail(s)
  <2>2. t \in Seq(S) /\ Len(t) = Len(rest) /\ \A k \in 1 .. Len(t) : t[k] = rest[k]
    BY <1>5, <2>1
  <2> HIDE DEF t
  <2>3. t = rest
    BY <2>2, SeqEqual
  <2> QED BY <2>3 DEF t
<1> QED BY <1>2, <1>3, <1>4, <1>5, <1>6 DEF s

\* The same of a sequence that is an item in front of others.
LEMMA FirstAndRest ==
  ASSUME NEW S, NEW x \in S, NEW rest \in Seq(S), NEW s, s = <<x>> \o rest
  PROVE  s # <<>> /\ s[1] = x /\ Head(s) = x /\ Tail(s) = rest
  BY Prepended

LEMMA WithoutFirst ==
  ASSUME NEW S, NEW s \in Seq(S), s # <<>>
  PROVE  /\ Tail(s) \in Seq(S) /\ s[1] \in S /\ Head(s) = s[1]
         /\ Len(s) \in Nat /\ Len(s) >= 1 /\ Len(Tail(s)) = Len(s) - 1
         /\ \A k \in 1 .. Len(s) - 1 : Tail(s)[k] = s[k + 1]
<1>1. Len(s) \in Nat /\ Len(s) # 0
  BY EmptySeq, LenProperties
<1>2. s[1] \in S
  BY <1>1, ElementOfSeq
<1> QED BY <1>1, <1>2, HeadTailProperties

\* Layouts in which no item begins before the one in front of it.
GrowingLayouts(n, m) ==
  {at \in Globs!Layouts(n, m) : \A k \in 1 .. n : at[k] <= at[k + 1]}

\* In such a one, none begins before any in front of it.
LEMMA LayoutsGrow ==
  ASSUME NEW n \in Nat, NEW m \in Nat, NEW at \in GrowingLayouts(n, m)
  PROVE  /\ at \in [1 .. n + 1 -> 1 .. m + 1] /\ at[1] = 1 /\ at[n + 1] = m + 1
         /\ n > 0 => \A k \in 2 .. n + 1 : at[2] <= at[k]
<1>1. /\ at \in [1 .. n + 1 -> 1 .. m + 1] /\ at[1] = 1 /\ at[n + 1] = m + 1
      /\ \A k \in 1 .. n : at[k] <= at[k + 1]
  BY DEF GrowingLayouts, Globs!Layouts
<1>2. ASSUME n > 0 PROVE \A k \in 2 .. n + 1 : at[2] <= at[k]
  <2> DEFINE P == {k \in 0 .. n - 1 : at[2] <= at[k + 2]}
  <2>1. 0 \in P
    <3>1. 2 \in 1 .. n + 1 /\ 0 \in 0 .. n - 1 /\ at[0 + 2] = at[2]
      BY <1>2
    <3>2. at[2] \in Int
      BY <1>1, <3>1
    <3> QED BY <3>1, <3>2
  <2>2. ASSUME NEW k \in 1 .. n - 1, k - 1 \in P PROVE k \in P
    <3>1. k + 1 \in 1 .. n /\ (k - 1) + 2 = k + 1 /\ (k + 1) + 1 = k + 2
          /\ k + 2 \in 1 .. n + 1 /\ k + 1 \in 1 .. n + 1 /\ 2 \in 1 .. n + 1
      BY <1>2
    <3>2. at[2] <= at[k + 1] /\ at[k + 1] <= at[k + 2]
      BY <1>1, <2>2, <3>1
    <3>3. at[2] \in Int /\ at[k + 1] \in Int /\ at[k + 2] \in Int
      BY <1>1, <3>1
    <3> QED BY <3>2, <3>3
  <2>3. \A k \in 0 .. n - 1 : k \in P
    <3>1. n - 1 \in Nat
      BY <1>2
    <3> HIDE DEF P
    <3> QED BY <2>1, <2>2, <3>1, Counting
  <2> TAKE k \in 2 .. n + 1
  <2>4. k - 2 \in 0 .. n - 1 /\ (k - 2) + 2 = k
    OBVIOUS
  <2>5. k - 2 \in P
    BY <2>3, <2>4
  <2> QED BY <2>4, <2>5
<1> QED BY <1>1, <1>2

\* Without the first item, which took the first d places; and with it again.
LEMMA LayoutOfRest ==
  ASSUME NEW n \in Nat, NEW m \in Nat, NEW at \in GrowingLayouts(n + 1, m),
         NEW d \in Nat, at[2] = 1 + d
  PROVE  [k \in 1 .. n + 1 |-> at[k + 1] - d] \in Globs!Layouts(n, m - d)
<1> DEFINE new == [k \in 1 .. n + 1 |-> at[k + 1] - d]
<1>1. /\ at \in [1 .. n + 2 -> 1 .. m + 1] /\ at[n + 2] = m + 1
      /\ \A k \in 2 .. n + 2 : at[2] <= at[k]
  <2>1. n + 1 \in Nat /\ n + 1 > 0 /\ (n + 1) + 1 = n + 2
    OBVIOUS
  <2> QED BY <2>1, LayoutsGrow
<1>2. ASSUME NEW k \in 1 .. n + 1 PROVE new[k] \in 1 .. (m - d) + 1
  <2>1. k + 1 \in 2 .. n + 2 /\ k + 1 \in 1 .. n + 2
    OBVIOUS
  <2>2. at[k + 1] \in 1 .. m + 1 /\ 1 + d <= at[k + 1]
    BY <1>1, <2>1
  <2> QED BY <2>2
<1>3. new[1] = 1
  BY <1>1
<1>4. new[n + 1] = (m - d) + 1
  <2>1. n + 1 \in 1 .. n + 1 /\ (n + 1) + 1 = n + 2
    OBVIOUS
  <2> QED BY <1>1, <2>1
<1>5. new \in [1 .. n + 1 -> 1 .. (m - d) + 1]
  BY <1>2
<1> HIDE DEF new
<1>6. new \in Globs!Layouts(n, m - d)
  BY <1>3, <1>4, <1>5 DEF Globs!Layouts
<1> QED BY <1>6 DEF new

LEMMA LayoutOfMore ==
  ASSUME NEW n \in Nat, NEW m \in Nat, NEW d \in 0 .. m, NEW at \in Globs!Layouts(n, m - d)
  PROVE  [k \in 1 .. n + 2 |-> IF k = 1 THEN 1 ELSE at[k - 1] + d] \in Globs!Layouts(n + 1, m)
<1> DEFINE new == [k \in 1 .. n + 2 |-> IF k = 1 THEN 1 ELSE at[k - 1] + d]
<1>1. at \in [1 .. n + 1 -> 1 .. (m - d) + 1] /\ at[1] = 1 /\ at[n + 1] = (m - d) + 1
  BY DEF Globs!Layouts
<1>2. ASSUME NEW k \in 1 .. n + 2 PROVE new[k] \in 1 .. m + 1
  <2>1. CASE k = 1
    BY <2>1
  <2>2. CASE k # 1
    <3>1. k - 1 \in 1 .. n + 1
      BY <2>2
    <3>2. at[k - 1] \in 1 .. (m - d) + 1
      BY <1>1, <3>1
    <3> QED BY <2>2, <3>2
  <2> QED BY <2>1, <2>2
<1>3. new[1] = 1
  OBVIOUS
<1>4. new[(n + 1) + 1] = m + 1
  <2>1. (n + 1) + 1 \in 1 .. n + 2 /\ (n + 1) + 1 # 1 /\ (n + 1) + 1 - 1 = n + 1
    OBVIOUS
  <2> QED BY <1>1, <2>1
<1>5. new \in [1 .. (n + 1) + 1 -> 1 .. m + 1]
  <2>1. (n + 1) + 1 = n + 2
    OBVIOUS
  <2> QED BY <1>2, <2>1
<1> HIDE DEF new
<1>6. new \in Globs!Layouts(n + 1, m)
  BY <1>3, <1>4, <1>5 DEF Globs!Layouts
<1> QED BY <1>6 DEF new

\* With one place less for the first item, and with one more.
LEMMA LayoutOfLess ==
  ASSUME NEW n \in Nat, n > 0, NEW m \in Nat, NEW at \in GrowingLayouts(n, m), at[2] >= 2
  PROVE  [k \in 1 .. n + 1 |-> IF k = 1 THEN 1 ELSE at[k] - 1] \in Globs!Layouts(n, m - 1)
<1> DEFINE new == [k \in 1 .. n + 1 |-> IF k = 1 THEN 1 ELSE at[k] - 1]
<1>1. /\ at \in [1 .. n + 1 -> 1 .. m + 1] /\ at[n + 1] = m + 1
      /\ \A k \in 2 .. n + 1 : at[2] <= at[k]
  BY LayoutsGrow
<1>2. ASSUME NEW k \in 1 .. n + 1 PROVE new[k] \in 1 .. (m - 1) + 1
  <2>1. at[n + 1] \in Int /\ at[2] \in Int /\ at[2] <= at[n + 1] /\ at[n + 1] = m + 1
    BY <1>1
  <2>2. CASE k = 1
    BY <2>1, <2>2
  <2>3. CASE k # 1
    <3>1. k \in 2 .. n + 1
      BY <2>3
    <3>2. at[k] \in 1 .. m + 1 /\ at[2] <= at[k]
      BY <1>1, <3>1
    <3> QED BY <2>1, <2>3, <3>2
  <2> QED BY <2>2, <2>3
<1>3. new[1] = 1
  OBVIOUS
<1>4. new[n + 1] = (m - 1) + 1
  <2>1. n + 1 \in 1 .. n + 1 /\ n + 1 # 1
    OBVIOUS
  <2> QED BY <1>1, <2>1
<1>5. new \in [1 .. n + 1 -> 1 .. (m - 1) + 1]
  BY <1>2
<1> HIDE DEF new
<1>6. new \in Globs!Layouts(n, m - 1)
  BY <1>3, <1>4, <1>5 DEF Globs!Layouts
<1> QED BY <1>6 DEF new

LEMMA LayoutWithOneMore ==
  ASSUME NEW n \in Nat, n > 0, NEW m \in Nat, m > 0, NEW at \in Globs!Layouts(n, m - 1)
  PROVE  [k \in 1 .. n + 1 |-> IF k = 1 THEN 1 ELSE at[k] + 1] \in Globs!Layouts(n, m)
<1> DEFINE new == [k \in 1 .. n + 1 |-> IF k = 1 THEN 1 ELSE at[k] + 1]
<1>1. at \in [1 .. n + 1 -> 1 .. (m - 1) + 1] /\ at[1] = 1 /\ at[n + 1] = (m - 1) + 1
  BY DEF Globs!Layouts
<1>2. ASSUME NEW k \in 1 .. n + 1 PROVE new[k] \in 1 .. m + 1
  BY <1>1
<1>3. new[1] = 1
  OBVIOUS
<1>4. new[n + 1] = m + 1
  <2>1. n + 1 \in 1 .. n + 1 /\ n + 1 # 1
    OBVIOUS
  <2> QED BY <1>1, <2>1
<1>5. new \in [1 .. n + 1 -> 1 .. m + 1]
  BY <1>2
<1> HIDE DEF new
<1>6. new \in Globs!Layouts(n, m)
  BY <1>3, <1>4, <1>5 DEF Globs!Layouts
<1> QED BY <1>6 DEF new

\* How a segment of a pattern lies over a segment of a path.
LaidOver(at, p, t) ==
  /\ at \in Globs!Layouts(Len(p), Len(t))
  /\ \A k \in 1 .. Len(p) :
       /\ p[k] = "*" => at[k + 1] >= at[k]
       /\ p[k] # "*" => at[k + 1] = at[k] + 1 /\ p[k] \in {"?", t[at[k]]}

LEMMA SegmentsAreLaid ==
  ASSUME NEW C, NEW p \in Seq(C), NEW t
  PROVE  Globs!SegmentMatches(p, t) <=> \E at : LaidOver(at, p, t)
<1>1. DOMAIN p = 1 .. Len(p)
  BY LenProperties
<1> QED BY <1>1 DEF Globs!SegmentMatches, LaidOver

LEMMA LaidOverGrows ==
  ASSUME NEW p, NEW t, NEW at, LaidOver(at, p, t),
         NEW n \in Nat, Len(p) = n, NEW m \in Nat, Len(t) = m
  PROVE  /\ at \in GrowingLayouts(n, m)
         /\ \A k \in 1 .. n + 1 : at[k] \in 1 .. m + 1
         /\ \A k \in 1 .. n : p[k] # "*" => at[k] \in 1 .. m
<1>1. at \in [1 .. n + 1 -> 1 .. m + 1] /\ at \in Globs!Layouts(n, m)
  BY DEF LaidOver, Globs!Layouts
<1>2. ASSUME NEW k \in 1 .. n
      PROVE  /\ at[k] <= at[k + 1]
             /\ p[k] # "*" => at[k] \in 1 .. m
  <2>1. at[k] \in 1 .. m + 1 /\ at[k + 1] \in 1 .. m + 1
    BY <1>1
  <2>2. \/ p[k] = "*" /\ at[k + 1] >= at[k]
        \/ p[k] # "*" /\ at[k + 1] = at[k] + 1
    BY DEF LaidOver
  <2> QED BY <2>1, <2>2
<1> QED BY <1>1, <1>2 DEF GrowingLayouts

LEMMA EmptySegment ==
  ASSUME NEW C, NEW t \in Seq(C)
  PROVE  Globs!SegmentMatches(<<>>, t) <=> t = <<>>
<1>1. Len(t) \in Nat /\ (Len(t) = 0 <=> t = <<>>) /\ Len(<<>>) = 0 /\ <<>> \in Seq(C)
  BY EmptySeq, LenProperties
<1>2. ASSUME t = <<>> PROVE Globs!SegmentMatches(<<>>, t)
  <2> DEFINE at == [k \in 1 .. 0 + 1 |-> 1]
  <2>1. at \in Globs!Layouts(0, 0)
    BY DEF Globs!Layouts
  <2>2. \A k \in 1 .. Len(<<>>) : FALSE
    BY <1>1
  <2> HIDE DEF at
  <2>3. LaidOver(at, <<>>, t)
    BY <1>1, <1>2, <2>1, <2>2 DEF LaidOver
  <2> QED BY <1>1, <2>3, SegmentsAreLaid
<1>3. ASSUME Globs!SegmentMatches(<<>>, t) PROVE t = <<>>
  <2>1. PICK at : LaidOver(at, <<>>, t)
    BY <1>1, <1>3, SegmentsAreLaid
  <2>2. at[1] = 1 /\ at[0 + 1] = Len(t) + 1
    BY <1>1, <2>1 DEF LaidOver, Globs!Layouts
  <2> QED BY <1>1, <2>2
<1> QED BY <1>2, <1>3

\* A character stands for one: itself, or any for a question mark.
LEMMA CharacterFirst ==
  ASSUME NEW C, NEW c \in C, c # "*", NEW rest \in Seq(C), NEW t \in Seq(C)
  PROVE  Globs!SegmentMatches(<<c>> \o rest, t) <=>
           t # <<>> /\ c \in {"?", t[1]} /\ Globs!SegmentMatches(rest, Tail(t))
<1> DEFINE p == <<c>> \o rest
           n == Len(rest)
           m == Len(t)
           u == Tail(t)
<1>1. /\ p \in Seq(C) /\ n \in Nat /\ Len(p) = n + 1 /\ p[1] = c
      /\ \A k \in 1 .. n : p[k + 1] = rest[k]
  BY Prepended
<1>2. m \in Nat /\ (m = 0 <=> t = <<>>)
  BY EmptySeq, LenProperties
<1>3. t # <<>> => u \in Seq(C) /\ Len(u) = m - 1 /\ \A k \in 1 .. m - 1 : u[k] = t[k + 1]
  BY WithoutFirst
<1> HIDE DEF p, n, m, u
<1>4. ASSUME NEW at, LaidOver(at, p, t)
      PROVE  t # <<>> /\ c \in {"?", t[1]} /\ Globs!SegmentMatches(rest, u)
  <2>1. /\ at \in GrowingLayouts(n + 1, m)
        /\ \A k \in 1 .. n + 2 : at[k] \in 1 .. m + 1
        /\ \A k \in 1 .. n + 1 : p[k] # "*" => at[k] \in 1 .. m
    <3>1. (n + 1) + 1 = n + 2 /\ n + 1 \in Nat /\ Len(p) = n + 1 /\ Len(t) = m
      BY <1>1 DEF m
    <3>2. /\ at \in GrowingLayouts(n + 1, m)
          /\ \A k \in 1 .. (n + 1) + 1 : at[k] \in 1 .. m + 1
          /\ \A k \in 1 .. n + 1 : p[k] # "*" => at[k] \in 1 .. m
      BY <1>2, <1>4, <3>1, LaidOverGrows
    <3> QED BY <3>1, <3>2
  <2>2. at[1] = 1 /\ at[1 + 1] = at[1] + 1 /\ c \in {"?", t[at[1]]}
    <3>1. 1 \in 1 .. Len(p) /\ p[1] # "*"
      BY <1>1
    <3>2. at[1] = 1
      BY <1>4 DEF LaidOver, Globs!Layouts
    <3> QED BY <1>1, <1>4, <3>1, <3>2 DEF LaidOver
  <2>3. m >= 1 /\ at[2] = 1 + 1
    <3>1. 2 \in 1 .. n + 2 /\ 1 + 1 = 2
      BY <1>1
    <3>2. at[2] \in 1 .. m + 1 /\ at[2] = 2
      BY <2>1, <2>2, <3>1
    <3> QED BY <1>2, <3>2
  <2> DEFINE new == [k \in 1 .. n + 1 |-> at[k + 1] - 1]
  <2>4. new \in Globs!Layouts(n, m - 1)
    BY <1>1, <1>2, <2>1, <2>3, LayoutOfRest
  <2>5. ASSUME NEW k \in 1 .. n
        PROVE  /\ rest[k] = "*" => new[k + 1] >= new[k]
               /\ rest[k] # "*" => new[k + 1] = new[k] + 1 /\ rest[k] \in {"?", u[new[k]]}
    <3>1. /\ k + 1 \in 1 .. Len(p) /\ p[k + 1] = rest[k]
          /\ k + 1 \in 1 .. n + 1 /\ (k + 1) + 1 \in 1 .. n + 2 /\ k + 1 \in 1 .. n + 2
          /\ k \in 1 .. n + 1
      BY <1>1
    <3>2. /\ new[k] = at[k + 1] - 1 /\ new[k + 1] = at[(k + 1) + 1] - 1
          /\ at[k + 1] \in 1 .. m + 1 /\ at[(k + 1) + 1] \in 1 .. m + 1
      BY <2>1, <3>1
    <3> HIDE DEF new
    <3>3. CASE rest[k] = "*"
      <4>1. at[(k + 1) + 1] >= at[k + 1]
        BY <1>4, <3>1, <3>3 DEF LaidOver
      <4> QED BY <3>2, <3>3, <4>1
    <3>4. CASE rest[k] # "*"
      <4>1. at[(k + 1) + 1] = at[k + 1] + 1 /\ rest[k] \in {"?", t[at[k + 1]]}
        BY <1>4, <3>1, <3>4 DEF LaidOver
      <4>2. new[k + 1] = new[k] + 1 /\ new[k] + 1 = at[k + 1] /\ new[k] \in Int
        BY <3>2, <4>1
      <4>3. new[k] \in 1 .. m - 1
        <5>1. new[k] \in 1 .. (m - 1) + 1 /\ new[k + 1] \in 1 .. (m - 1) + 1
          BY <2>4, <3>1 DEF Globs!Layouts
        <5> QED BY <1>2, <4>2, <5>1
      <4>4. u[new[k]] = t[at[k + 1]]
        BY <1>2, <1>3, <2>3, <4>2, <4>3
      <4> QED BY <3>4, <4>1, <4>2, <4>4
    <3> QED BY <3>3, <3>4
  <2> HIDE DEF new
  <2>6. t # <<>> /\ Len(u) = m - 1
    BY <1>2, <1>3, <2>3
  <2>7. LaidOver(new, rest, u)
    BY <2>4, <2>5, <2>6 DEF LaidOver, n
  <2> QED BY <2>2, <2>6, <2>7, SegmentsAreLaid
<1>5. ASSUME t # <<>>, c \in {"?", t[1]}, Globs!SegmentMatches(rest, u)
      PROVE  \E at : LaidOver(at, p, t)
  <2>1. PICK at : LaidOver(at, rest, u)
    BY <1>5, SegmentsAreLaid
  <2>2. m - 1 \in Nat /\ Len(u) = m - 1 /\ 1 \in 0 .. m
    BY <1>2, <1>3, <1>5
  <2>3. /\ at \in Globs!Layouts(n, m - 1)
        /\ \A k \in 1 .. n + 1 : at[k] \in 1 .. m
        /\ \A k \in 1 .. n : rest[k] # "*" => at[k] \in 1 .. m - 1
    <3>1. n = Len(rest)
      BY DEF n
    <3>2. (m - 1) + 1 = m
      BY <1>2
    <3>3. /\ at \in GrowingLayouts(n, m - 1)
          /\ \A k \in 1 .. n + 1 : at[k] \in 1 .. (m - 1) + 1
          /\ \A k \in 1 .. n : rest[k] # "*" => at[k] \in 1 .. m - 1
      BY <1>1, <2>1, <2>2, <3>1, LaidOverGrows
    <3> QED BY <3>2, <3>3 DEF GrowingLayouts
  <2> DEFINE new == [k \in 1 .. n + 2 |-> IF k = 1 THEN 1 ELSE at[k - 1] + 1]
  <2>4. new \in Globs!Layouts(n + 1, m)
    BY <1>1, <1>2, <2>2, <2>3, LayoutOfMore
  <2>5. ASSUME NEW k \in 1 .. n + 1
        PROVE  /\ p[k] = "*" => new[k + 1] >= new[k]
               /\ p[k] # "*" => new[k + 1] = new[k] + 1 /\ p[k] \in {"?", t[new[k]]}
    <3>1. CASE k = 1
      <4>1. at[1] = 1
        BY <2>3 DEF Globs!Layouts
      <4>2. 1 \in 1 .. n + 2 /\ 2 \in 1 .. n + 2 /\ 2 - 1 = 1 /\ 1 + 1 = 2
        BY <1>1
      <4>3. new[1] = 1 /\ new[1 + 1] = 1 + 1
        BY <4>1, <4>2
      <4> HIDE DEF new
      <4> QED BY <1>1, <1>5, <3>1, <4>3
    <3>2. CASE k # 1
      <4> DEFINE j == k - 1
      <4>1. /\ j \in 1 .. n /\ j + 1 = k /\ j + 1 \in 1 .. n + 1 /\ j \in 1 .. n + 1
            /\ k \in 1 .. n + 2 /\ k + 1 \in 1 .. n + 2 /\ k + 1 # 1 /\ (k + 1) - 1 = j + 1
        BY <1>1, <3>2
      <4>2. new[k] = at[j] + 1 /\ new[k + 1] = at[j + 1] + 1
        BY <3>2, <4>1
      <4>3. p[k] = rest[j] /\ at[j] \in 1 .. m /\ at[j + 1] \in 1 .. m
        BY <1>1, <2>3, <4>1
      <4> HIDE DEF new, j
      <4>4. CASE p[k] = "*"
        <5>1. at[j + 1] >= at[j]
          BY <2>1, <4>1, <4>3, <4>4 DEF LaidOver, n
        <5> QED BY <4>2, <4>3, <4>4, <5>1
      <4>5. CASE p[k] # "*"
        <5>1. at[j + 1] = at[j] + 1 /\ rest[j] \in {"?", u[at[j]]}
          BY <2>1, <4>1, <4>3, <4>5 DEF LaidOver, n
        <5>2. u[at[j]] = t[at[j] + 1]
          BY <1>3, <1>5, <2>3, <4>1, <4>3, <4>5
        <5> QED BY <4>2, <4>3, <4>5, <5>1, <5>2
      <4> QED BY <4>4, <4>5
    <3> QED BY <3>1, <3>2
  <2> HIDE DEF new
  <2>6. LaidOver(new, p, t)
    BY <1>1, <2>4, <2>5 DEF LaidOver, m
  <2> QED BY <2>6
<1>6. Globs!SegmentMatches(p, t) <=> t # <<>> /\ c \in {"?", t[1]} /\ Globs!SegmentMatches(rest, u)
  <2>1. Globs!SegmentMatches(p, t) <=> \E at : LaidOver(at, p, t)
    BY <1>1, SegmentsAreLaid
  <2> QED BY <1>4, <1>5, <2>1
<1> QED BY <1>6 DEF p, u

\* A star stands for nothing, or for one character and what a star stands for.
LEMMA StarFirst ==
  ASSUME NEW C, "*" \in C, NEW rest \in Seq(C), NEW t \in Seq(C)
  PROVE  Globs!SegmentMatches(<<"*">> \o rest, t) <=>
           \/ Globs!SegmentMatches(rest, t)
           \/ t # <<>> /\ Globs!SegmentMatches(<<"*">> \o rest, Tail(t))
<1> DEFINE p == <<"*">> \o rest
           n == Len(rest)
           m == Len(t)
           u == Tail(t)
<1>1. /\ p \in Seq(C) /\ n \in Nat /\ Len(p) = n + 1 /\ p[1] = "*"
      /\ \A k \in 1 .. n : p[k + 1] = rest[k]
  BY Prepended
<1>2. m \in Nat /\ (m = 0 <=> t = <<>>)
  BY EmptySeq, LenProperties
<1>3. t # <<>> => u \in Seq(C) /\ Len(u) = m - 1 /\ \A k \in 1 .. m - 1 : u[k] = t[k + 1]
  BY WithoutFirst
<1> HIDE DEF p, n, m, u
<1>4. ASSUME NEW at, LaidOver(at, p, t)
      PROVE  Globs!SegmentMatches(rest, t) \/ (t # <<>> /\ Globs!SegmentMatches(p, u))
  <2>1. /\ at \in GrowingLayouts(n + 1, m)
        /\ \A k \in 1 .. n + 2 : at[k] \in 1 .. m + 1
        /\ \A k \in 1 .. n + 1 : p[k] # "*" => at[k] \in 1 .. m
    <3>1. (n + 1) + 1 = n + 2 /\ n + 1 \in Nat /\ Len(p) = n + 1 /\ Len(t) = m
      BY <1>1 DEF m
    <3>2. /\ at \in GrowingLayouts(n + 1, m)
          /\ \A k \in 1 .. (n + 1) + 1 : at[k] \in 1 .. m + 1
          /\ \A k \in 1 .. n + 1 : p[k] # "*" => at[k] \in 1 .. m
      BY <1>2, <1>4, <3>1, LaidOverGrows
    <3> QED BY <3>1, <3>2
  <2>2. at[2] \in 1 .. m + 1
    <3>1. 2 \in 1 .. n + 2
      BY <1>1
    <3> QED BY <2>1, <3>1
  <2>3. CASE at[2] = 1
    <3> DEFINE new == [k \in 1 .. n + 1 |-> at[k + 1] - 0]
    <3>1. new \in Globs!Layouts(n, m)
      <4>1. at[2] = 1 + 0 /\ m - 0 = m /\ 0 \in Nat
        BY <1>2, <2>3
      <4>2. [k \in 1 .. n + 1 |-> at[k + 1] - 0] \in Globs!Layouts(n, m - 0)
        BY <1>1, <1>2, <2>1, <4>1, LayoutOfRest
      <4> QED BY <4>1, <4>2
    <3>2. ASSUME NEW k \in 1 .. n
          PROVE  /\ rest[k] = "*" => new[k + 1] >= new[k]
                 /\ rest[k] # "*" => new[k + 1] = new[k] + 1 /\ rest[k] \in {"?", t[new[k]]}
      <4>1. /\ k + 1 \in 1 .. Len(p) /\ p[k + 1] = rest[k]
            /\ k + 1 \in 1 .. n + 1 /\ (k + 1) + 1 \in 1 .. n + 2 /\ k + 1 \in 1 .. n + 2
            /\ k \in 1 .. n + 1
        BY <1>1
      <4>2. /\ new[k] = at[k + 1] /\ new[k + 1] = at[(k + 1) + 1]
        BY <2>1, <4>1
      <4> HIDE DEF new
      <4>3. /\ rest[k] = "*" => at[(k + 1) + 1] >= at[k + 1]
            /\ rest[k] # "*" => at[(k + 1) + 1] = at[k + 1] + 1 /\ rest[k] \in {"?", t[at[k + 1]]}
        BY <1>4, <4>1 DEF LaidOver
      <4> QED BY <4>2, <4>3
    <3> HIDE DEF new
    <3>3. LaidOver(new, rest, t)
      BY <3>1, <3>2 DEF LaidOver, n, m
    <3> QED BY <3>3, SegmentsAreLaid
  <2>4. CASE at[2] # 1
    <3>1. at[2] >= 2 /\ m >= 1 /\ n + 1 > 0 /\ n + 1 \in Nat
      BY <1>1, <1>2, <2>2, <2>4
    <3> DEFINE new == [k \in 1 .. n + 2 |-> IF k = 1 THEN 1 ELSE at[k] - 1]
    <3>2. new \in Globs!Layouts(n + 1, m - 1)
      <4>1. (n + 1) + 1 = n + 2
        BY <1>1
      <4>2. [k \in 1 .. (n + 1) + 1 |-> IF k = 1 THEN 1 ELSE at[k] - 1] \in Globs!Layouts(n + 1, m - 1)
        BY <1>2, <2>1, <3>1, LayoutOfLess
      <4> QED BY <4>1, <4>2
    <3>3. t # <<>> /\ Len(u) = m - 1
      BY <1>2, <1>3, <3>1
    <3>4. ASSUME NEW k \in 1 .. n + 1
          PROVE  /\ p[k] = "*" => new[k + 1] >= new[k]
                 /\ p[k] # "*" => new[k + 1] = new[k] + 1 /\ p[k] \in {"?", u[new[k]]}
      <4>1. k \in 1 .. n + 2 /\ k + 1 \in 1 .. n + 2 /\ k + 1 # 1
        BY <1>1
      <4>2. new[k] \in 1 .. (m - 1) + 1 /\ new[k + 1] \in 1 .. (m - 1) + 1
        <5>1. (n + 1) + 1 = n + 2
          BY <1>1
        <5>2. new \in [1 .. n + 2 -> 1 .. (m - 1) + 1]
          BY <3>2, <5>1 DEF Globs!Layouts
        <5> HIDE DEF new
        <5> QED BY <4>1, <5>2
      <4>3. CASE k = 1
        <5>1. new[k] = 1
          BY <4>1, <4>3
        <5> HIDE DEF new
        <5> QED BY <1>1, <4>2, <4>3, <5>1
      <4>4. CASE k # 1
        <5>1. new[k] = at[k] - 1 /\ new[k + 1] = at[k + 1] - 1
          BY <4>1, <4>4
        <5> HIDE DEF new
        <5>2. at[k] \in 1 .. m + 1 /\ at[k + 1] \in 1 .. m + 1
          BY <2>1, <4>1
        <5>3. CASE p[k] = "*"
          <6>1. at[k + 1] >= at[k]
            BY <1>1, <1>4, <5>3 DEF LaidOver
          <6> QED BY <5>1, <5>2, <5>3, <6>1
        <5>4. CASE p[k] # "*"
          <6>1. at[k + 1] = at[k] + 1 /\ p[k] \in {"?", t[at[k]]}
            BY <1>1, <1>4, <5>4 DEF LaidOver
          <6>2. new[k + 1] = new[k] + 1 /\ new[k] + 1 = at[k] /\ new[k] \in 1 .. m - 1
            BY <1>2, <4>2, <5>1, <5>2, <6>1, SMTT(20)
          <6>3. u[new[k]] = t[at[k]]
            BY <1>3, <3>3, <6>2
          <6> QED BY <5>4, <6>1, <6>2, <6>3
        <5> QED BY <5>3, <5>4
      <4> QED BY <4>3, <4>4
    <3> HIDE DEF new
    <3>5. LaidOver(new, p, u)
      BY <1>1, <3>2, <3>3, <3>4 DEF LaidOver
    <3> QED BY <1>1, <3>3, <3>5, SegmentsAreLaid
  <2> QED BY <2>3, <2>4
<1>5. ASSUME NEW at, LaidOver(at, rest, t) PROVE \E new : LaidOver(new, p, t)
  <2>1. /\ at \in Globs!Layouts(n, m)
        /\ \A k \in 1 .. n + 1 : at[k] \in 1 .. m + 1
    <3>1. Len(rest) = n /\ Len(t) = m
      BY DEF n, m
    <3>2. /\ at \in GrowingLayouts(n, m)
          /\ \A k \in 1 .. n + 1 : at[k] \in 1 .. m + 1
      BY <1>1, <1>2, <1>5, <3>1, LaidOverGrows
    <3> QED BY <3>2 DEF GrowingLayouts
  <2> DEFINE new == [k \in 1 .. n + 2 |-> IF k = 1 THEN 1 ELSE at[k - 1] + 0]
  <2>2. new \in Globs!Layouts(n + 1, m)
    <3>1. 0 \in 0 .. m /\ m - 0 = m
      BY <1>2
    <3>2. at \in Globs!Layouts(n, m - 0)
      BY <2>1, <3>1
    <3> QED BY <1>1, <1>2, <3>1, <3>2, LayoutOfMore
  <2>3. ASSUME NEW k \in 1 .. n + 1
        PROVE  /\ p[k] = "*" => new[k + 1] >= new[k]
               /\ p[k] # "*" => new[k + 1] = new[k] + 1 /\ p[k] \in {"?", t[new[k]]}
    <3>1. CASE k = 1
      <4>1. 1 \in 1 .. n + 2 /\ 2 \in 1 .. n + 2 /\ 2 # 1 /\ 2 - 1 = 1 /\ 1 + 1 = 2 /\ at[1] = 1
        BY <1>1, <2>1 DEF Globs!Layouts
      <4>2. new[1] = 1 /\ new[2] = 1
        BY <4>1
      <4> HIDE DEF new
      <4> QED BY <1>1, <3>1, <4>1, <4>2
    <3>2. CASE k # 1
      <4> DEFINE j == k - 1
      <4>1. /\ j \in 1 .. n /\ j + 1 = k /\ j + 1 \in 1 .. n + 1 /\ j \in 1 .. n + 1
            /\ k \in 1 .. n + 2 /\ k + 1 \in 1 .. n + 2 /\ k + 1 # 1 /\ (k + 1) - 1 = j + 1
        BY <1>1, <3>2
      <4>2. at[j] \in 1 .. m + 1 /\ at[j + 1] \in 1 .. m + 1 /\ p[k] = rest[j]
        BY <1>1, <2>1, <4>1
      <4>3. new[k] = at[j] /\ new[k + 1] = at[j + 1]
        BY <3>2, <4>1, <4>2
      <4> HIDE DEF new, j
      <4>4. /\ rest[j] = "*" => at[j + 1] >= at[j]
            /\ rest[j] # "*" => at[j + 1] = at[j] + 1 /\ rest[j] \in {"?", t[at[j]]}
        BY <1>5, <4>1 DEF LaidOver, n
      <4> QED BY <4>2, <4>3, <4>4
    <3> QED BY <3>1, <3>2
  <2> HIDE DEF new
  <2>4. LaidOver(new, p, t)
    BY <1>1, <2>2, <2>3 DEF LaidOver, m
  <2> QED BY <2>4
<1>6. ASSUME t # <<>>, NEW at, LaidOver(at, p, u) PROVE \E new : LaidOver(new, p, t)
  <2>1. m - 1 \in Nat /\ m > 0 /\ Len(u) = m - 1 /\ (n + 1) + 1 = n + 2
        /\ n + 1 \in Nat /\ n + 1 > 0
    BY <1>1, <1>2, <1>3, <1>6
  <2>2. /\ at \in Globs!Layouts(n + 1, m - 1)
        /\ \A k \in 1 .. n + 2 : at[k] \in 1 .. m
        /\ \A k \in 1 .. n + 1 : p[k] # "*" => at[k] \in 1 .. m - 1
    <3>1. (m - 1) + 1 = m
      BY <1>2
    <3>2. /\ at \in GrowingLayouts(n + 1, m - 1)
          /\ \A k \in 1 .. (n + 1) + 1 : at[k] \in 1 .. (m - 1) + 1
          /\ \A k \in 1 .. n + 1 : p[k] # "*" => at[k] \in 1 .. m - 1
      BY <1>1, <1>6, <2>1, LaidOverGrows
    <3> QED BY <2>1, <3>1, <3>2 DEF GrowingLayouts
  <2> DEFINE new == [k \in 1 .. n + 2 |-> IF k = 1 THEN 1 ELSE at[k] + 1]
  <2>3. new \in Globs!Layouts(n + 1, m)
    <3>1. [k \in 1 .. (n + 1) + 1 |-> IF k = 1 THEN 1 ELSE at[k] + 1] \in Globs!Layouts(n + 1, m)
      BY <1>2, <2>1, <2>2, LayoutWithOneMore
    <3> QED BY <2>1, <3>1
  <2>4. ASSUME NEW k \in 1 .. n + 1
        PROVE  /\ p[k] = "*" => new[k + 1] >= new[k]
               /\ p[k] # "*" => new[k + 1] = new[k] + 1 /\ p[k] \in {"?", t[new[k]]}
    <3>1. k \in 1 .. n + 2 /\ k + 1 \in 1 .. n + 2 /\ k + 1 # 1
      BY <1>1
    <3>2. at[k] \in 1 .. m /\ at[k + 1] \in 1 .. m
      BY <2>2, <3>1
    <3>3. new[k + 1] = at[k + 1] + 1 /\ new[k] = IF k = 1 THEN 1 ELSE at[k] + 1
      BY <3>1
    <3> HIDE DEF new
    <3>4. CASE k = 1
      BY <1>1, <3>2, <3>3, <3>4
    <3>5. CASE k # 1
      <4>1. CASE p[k] = "*"
        <5>1. at[k + 1] >= at[k]
          BY <1>1, <1>6, <4>1 DEF LaidOver
        <5> QED BY <3>2, <3>3, <3>5, <4>1, <5>1
      <4>2. CASE p[k] # "*"
        <5>1. at[k + 1] = at[k] + 1 /\ p[k] \in {"?", u[at[k]]}
          BY <1>1, <1>6, <4>2 DEF LaidOver
        <5>2. u[at[k]] = t[at[k] + 1]
          BY <1>3, <1>6, <2>2, <4>2
        <5> QED BY <3>2, <3>3, <3>5, <4>2, <5>1, <5>2
      <4> QED BY <4>1, <4>2
    <3> QED BY <3>4, <3>5
  <2> HIDE DEF new
  <2>5. LaidOver(new, p, t)
    BY <1>1, <2>3, <2>4 DEF LaidOver, m
  <2> QED BY <2>5
<1>7. Globs!SegmentMatches(p, t) <=>
        Globs!SegmentMatches(rest, t) \/ (t # <<>> /\ Globs!SegmentMatches(p, u))
  <2>1. /\ Globs!SegmentMatches(p, t) <=> \E at : LaidOver(at, p, t)
        /\ Globs!SegmentMatches(rest, t) <=> \E at : LaidOver(at, rest, t)
        /\ t # <<>> => (Globs!SegmentMatches(p, u) <=> \E at : LaidOver(at, p, u))
    BY <1>1, SegmentsAreLaid
  <2> QED BY <1>4, <1>5, <1>6, <2>1
<1> QED BY <1>7 DEF p, u

\* How a pattern lies over a path, segment by segment.
LaidAlong(at, ps, ts) ==
  /\ at \in Globs!Layouts(Len(ps), Len(ts))
  /\ \A k \in 1 .. Len(ps) :
       /\ ps[k] = Globs!Star => at[k + 1] >= at[k] /\ at[k] <= Len(ts)
       /\ ps[k] # Globs!Star => at[k + 1] = at[k] + 1 /\ Globs!SegmentMatches(ps[k], ts[at[k]])

LEMMA PathsAreLaid ==
  ASSUME NEW S, NEW ps \in Seq(S), NEW ts
  PROVE  Globs!PathMatches(ps, ts) <=> \E at : LaidAlong(at, ps, ts)
<1>1. DOMAIN ps = 1 .. Len(ps)
  BY LenProperties
<1> QED BY <1>1 DEF Globs!PathMatches, LaidAlong

LEMMA LaidAlongGrows ==
  ASSUME NEW ps, NEW ts, NEW at, LaidAlong(at, ps, ts),
         NEW n \in Nat, Len(ps) = n, NEW m \in Nat, Len(ts) = m
  PROVE  /\ at \in GrowingLayouts(n, m)
         /\ \A k \in 1 .. n + 1 : at[k] \in 1 .. m + 1
         /\ \A k \in 1 .. n : at[k] \in 1 .. m
<1>1. at \in [1 .. n + 1 -> 1 .. m + 1] /\ at \in Globs!Layouts(n, m)
  BY DEF LaidAlong, Globs!Layouts
<1>2. ASSUME NEW k \in 1 .. n
      PROVE  at[k] <= at[k + 1] /\ at[k] \in 1 .. m
  <2>1. at[k] \in 1 .. m + 1 /\ at[k + 1] \in 1 .. m + 1
    BY <1>1
  <2>2. \/ ps[k] = Globs!Star /\ at[k + 1] >= at[k] /\ at[k] <= m
        \/ ps[k] # Globs!Star /\ at[k + 1] = at[k] + 1
    BY DEF LaidAlong
  <2> QED BY <2>1, <2>2
<1> QED BY <1>1, <1>2 DEF GrowingLayouts

LEMMA EmptyPath ==
  ASSUME NEW S, NEW ts \in Seq(S)
  PROVE  Globs!PathMatches(<<>>, ts) <=> ts = <<>>
<1>1. Len(ts) \in Nat /\ (Len(ts) = 0 <=> ts = <<>>) /\ Len(<<>>) = 0 /\ <<>> \in Seq(S)
  BY EmptySeq, LenProperties
<1>2. ASSUME ts = <<>> PROVE Globs!PathMatches(<<>>, ts)
  <2> DEFINE at == [k \in 1 .. 0 + 1 |-> 1]
  <2>1. at \in Globs!Layouts(0, 0)
    BY DEF Globs!Layouts
  <2>2. \A k \in 1 .. Len(<<>>) : FALSE
    BY <1>1
  <2> HIDE DEF at
  <2>3. LaidAlong(at, <<>>, ts)
    BY <1>1, <1>2, <2>1, <2>2 DEF LaidAlong
  <2> QED BY <1>1, <2>3, PathsAreLaid
<1>3. ASSUME Globs!PathMatches(<<>>, ts) PROVE ts = <<>>
  <2>1. PICK at : LaidAlong(at, <<>>, ts)
    BY <1>1, <1>3, PathsAreLaid
  <2>2. at[1] = 1 /\ at[0 + 1] = Len(ts) + 1
    BY <1>1, <2>1 DEF LaidAlong, Globs!Layouts
  <2> QED BY <1>1, <2>2
<1> QED BY <1>2, <1>3

\* What is left of a pattern matches something.
LEMMA NothingIsMatched ==
  ASSUME NEW S, NEW ps \in Seq(S), ps # <<>>
  PROVE  ~ Globs!PathMatches(ps, <<>>)
<1>1. Len(ps) \in Nat /\ Len(ps) > 0 /\ Len(<<>>) = 0
  BY EmptySeq, LenProperties
<1>2. ASSUME NEW at, LaidAlong(at, ps, <<>>) PROVE FALSE
  <2> DEFINE n == Len(ps)
  <2>1. \A k \in 1 .. n : at[k] \in 1 .. 0
    <3>1. n \in Nat /\ 0 \in Nat /\ Len(ps) = n
      BY <1>1
    <3> HIDE DEF n
    <3> QED BY <1>1, <1>2, <3>1, LaidAlongGrows
  <2>2. 1 \in 1 .. n
    BY <1>1
  <2> HIDE DEF n
  <2> QED BY <2>1, <2>2
<1> QED BY <1>2, PathsAreLaid

\* A segment that is no double star stands for one segment.
LEMMA SegmentFirst ==
  ASSUME NEW S, NEW h \in S, h # Globs!Star, NEW rest \in Seq(S), NEW ts \in Seq(S)
  PROVE  Globs!PathMatches(<<h>> \o rest, ts) <=>
           ts # <<>> /\ Globs!SegmentMatches(h, ts[1]) /\ Globs!PathMatches(rest, Tail(ts))
<1> DEFINE ps == <<h>> \o rest
           n == Len(rest)
           m == Len(ts)
           us == Tail(ts)
<1>1. /\ ps \in Seq(S) /\ n \in Nat /\ Len(ps) = n + 1 /\ ps[1] = h
      /\ \A k \in 1 .. n : ps[k + 1] = rest[k]
  BY Prepended
<1>2. m \in Nat /\ (m = 0 <=> ts = <<>>)
  BY EmptySeq, LenProperties
<1>3. ts # <<>> => us \in Seq(S) /\ Len(us) = m - 1 /\ \A k \in 1 .. m - 1 : us[k] = ts[k + 1]
  BY WithoutFirst
<1> HIDE DEF ps, n, m, us
<1>4. ASSUME NEW at, LaidAlong(at, ps, ts)
      PROVE  ts # <<>> /\ Globs!SegmentMatches(h, ts[1]) /\ Globs!PathMatches(rest, us)
  <2>1. /\ at \in GrowingLayouts(n + 1, m)
        /\ \A k \in 1 .. n + 2 : at[k] \in 1 .. m + 1
        /\ \A k \in 1 .. n + 1 : at[k] \in 1 .. m
    <3>1. (n + 1) + 1 = n + 2 /\ n + 1 \in Nat /\ Len(ps) = n + 1 /\ Len(ts) = m
      BY <1>1 DEF m
    <3>2. /\ at \in GrowingLayouts(n + 1, m)
          /\ \A k \in 1 .. (n + 1) + 1 : at[k] \in 1 .. m + 1
          /\ \A k \in 1 .. n + 1 : at[k] \in 1 .. m
      BY <1>2, <1>4, <3>1, LaidAlongGrows
    <3> QED BY <3>1, <3>2
  <2>2. at[1] = 1 /\ at[1 + 1] = at[1] + 1 /\ Globs!SegmentMatches(h, ts[1])
    <3>1. 1 \in 1 .. Len(ps) /\ ps[1] # Globs!Star
      BY <1>1
    <3>2. at[1] = 1
      BY <1>4 DEF LaidAlong, Globs!Layouts
    <3> QED BY <1>1, <1>4, <3>1, <3>2 DEF LaidAlong
  <2>3. m >= 1 /\ at[2] = 1 + 1
    <3>1. 2 \in 1 .. n + 2 /\ 1 + 1 = 2
      BY <1>1
    <3>2. at[2] \in 1 .. m + 1 /\ at[2] = 2
      BY <2>1, <2>2, <3>1
    <3> QED BY <1>2, <3>2
  <2> DEFINE new == [k \in 1 .. n + 1 |-> at[k + 1] - 1]
  <2>4. new \in Globs!Layouts(n, m - 1)
    BY <1>1, <1>2, <2>1, <2>3, LayoutOfRest
  <2>5. ASSUME NEW k \in 1 .. n
        PROVE  /\ rest[k] = Globs!Star => new[k + 1] >= new[k] /\ new[k] <= m - 1
               /\ rest[k] # Globs!Star =>
                    new[k + 1] = new[k] + 1 /\ Globs!SegmentMatches(rest[k], us[new[k]])
    <3>1. /\ k + 1 \in 1 .. Len(ps) /\ ps[k + 1] = rest[k]
          /\ k + 1 \in 1 .. n + 1 /\ (k + 1) + 1 \in 1 .. n + 2 /\ k + 1 \in 1 .. n + 2
          /\ k \in 1 .. n + 1
      BY <1>1
    <3>2. /\ new[k] = at[k + 1] - 1 /\ new[k + 1] = at[(k + 1) + 1] - 1
          /\ at[k + 1] \in 1 .. m /\ at[(k + 1) + 1] \in 1 .. m + 1
      BY <2>1, <3>1
    <3>3. new[k] \in 1 .. (m - 1) + 1
      BY <2>4, <3>1 DEF Globs!Layouts
    <3> HIDE DEF new
    <3>4. new[k] \in 1 .. m - 1 /\ new[k] + 1 = at[k + 1]
      BY <1>2, <3>2, <3>3
    <3>5. CASE rest[k] = Globs!Star
      <4>1. at[(k + 1) + 1] >= at[k + 1]
        BY <1>4, <3>1, <3>5 DEF LaidAlong
      <4> QED BY <1>2, <3>2, <3>4, <3>5, <4>1
    <3>6. CASE rest[k] # Globs!Star
      <4>1. at[(k + 1) + 1] = at[k + 1] + 1 /\ Globs!SegmentMatches(rest[k], ts[at[k + 1]])
        BY <1>4, <3>1, <3>6 DEF LaidAlong
      <4>2. new[k + 1] = new[k] + 1
        BY <3>2, <4>1
      <4>3. us[new[k]] = ts[at[k + 1]]
        BY <1>2, <1>3, <2>3, <3>4
      <4> QED BY <3>6, <4>1, <4>2, <4>3
    <3> QED BY <3>5, <3>6
  <2> HIDE DEF new
  <2>6. ts # <<>> /\ Len(us) = m - 1
    BY <1>2, <1>3, <2>3
  <2>7. LaidAlong(new, rest, us)
    BY <2>4, <2>5, <2>6 DEF LaidAlong, n
  <2> QED BY <2>2, <2>6, <2>7, PathsAreLaid
<1>5. ASSUME ts # <<>>, Globs!SegmentMatches(h, ts[1]), Globs!PathMatches(rest, us)
      PROVE  \E at : LaidAlong(at, ps, ts)
  <2>1. PICK at : LaidAlong(at, rest, us)
    BY <1>5, PathsAreLaid
  <2>2. m - 1 \in Nat /\ Len(us) = m - 1 /\ 1 \in 0 .. m /\ (m - 1) + 1 = m
    BY <1>2, <1>3, <1>5
  <2>3. /\ at \in Globs!Layouts(n, m - 1)
        /\ \A k \in 1 .. n + 1 : at[k] \in 1 .. m
        /\ \A k \in 1 .. n : at[k] \in 1 .. m - 1
    <3>1. n = Len(rest)
      BY DEF n
    <3>2. /\ at \in GrowingLayouts(n, m - 1)
          /\ \A k \in 1 .. n + 1 : at[k] \in 1 .. (m - 1) + 1
          /\ \A k \in 1 .. n : at[k] \in 1 .. m - 1
      BY <1>1, <2>1, <2>2, <3>1, LaidAlongGrows
    <3> QED BY <2>2, <3>2 DEF GrowingLayouts
  <2> DEFINE new == [k \in 1 .. n + 2 |-> IF k = 1 THEN 1 ELSE at[k - 1] + 1]
  <2>4. new \in Globs!Layouts(n + 1, m)
    BY <1>1, <1>2, <2>2, <2>3, LayoutOfMore
  <2>5. ASSUME NEW k \in 1 .. n + 1
        PROVE  /\ ps[k] = Globs!Star => new[k + 1] >= new[k] /\ new[k] <= m
               /\ ps[k] # Globs!Star =>
                    new[k + 1] = new[k] + 1 /\ Globs!SegmentMatches(ps[k], ts[new[k]])
    <3>1. CASE k = 1
      <4>1. at[1] = 1
        BY <2>3 DEF Globs!Layouts
      <4>2. 1 \in 1 .. n + 2 /\ 2 \in 1 .. n + 2 /\ 2 - 1 = 1 /\ 1 + 1 = 2
        BY <1>1
      <4>3. new[1] = 1 /\ new[1 + 1] = 1 + 1
        BY <4>1, <4>2
      <4> HIDE DEF new
      <4> QED BY <1>1, <1>5, <3>1, <4>3
    <3>2. CASE k # 1
      <4> DEFINE j == k - 1
      <4>1. /\ j \in 1 .. n /\ j + 1 = k /\ j + 1 \in 1 .. n + 1 /\ j \in 1 .. n + 1
            /\ k \in 1 .. n + 2 /\ k + 1 \in 1 .. n + 2 /\ k + 1 # 1 /\ (k + 1) - 1 = j + 1
        BY <1>1, <3>2
      <4>2. new[k] = at[j] + 1 /\ new[k + 1] = at[j + 1] + 1
        BY <3>2, <4>1
      <4>3. ps[k] = rest[j] /\ at[j] \in 1 .. m - 1 /\ at[j + 1] \in 1 .. m
        BY <1>1, <2>3, <4>1
      <4> HIDE DEF new, j
      <4>4. CASE ps[k] = Globs!Star
        <5>1. at[j + 1] >= at[j]
          BY <2>1, <4>1, <4>3, <4>4 DEF LaidAlong, n
        <5> QED BY <1>2, <4>2, <4>3, <4>4, <5>1
      <4>5. CASE ps[k] # Globs!Star
        <5>1. at[j + 1] = at[j] + 1 /\ Globs!SegmentMatches(rest[j], us[at[j]])
          BY <2>1, <4>1, <4>3, <4>5 DEF LaidAlong, n
        <5>2. us[at[j]] = ts[at[j] + 1]
          BY <1>3, <1>5, <4>3
        <5> QED BY <4>2, <4>3, <4>5, <5>1, <5>2
      <4> QED BY <4>4, <4>5
    <3> QED BY <3>1, <3>2
  <2> HIDE DEF new
  <2>6. LaidAlong(new, ps, ts)
    BY <1>1, <2>4, <2>5 DEF LaidAlong, m
  <2> QED BY <2>6
<1>6. Globs!PathMatches(ps, ts) <=>
        ts # <<>> /\ Globs!SegmentMatches(h, ts[1]) /\ Globs!PathMatches(rest, us)
  <2>1. Globs!PathMatches(ps, ts) <=> \E at : LaidAlong(at, ps, ts)
    BY <1>1, PathsAreLaid
  <2> QED BY <1>4, <1>5, <2>1
<1> QED BY <1>6 DEF ps, us

\* A double star at the end stands for all the segments there are.
LEMMA DoubleStarLast ==
  ASSUME NEW S, Globs!Star \in S, NEW ts \in Seq(S), ts # <<>>
  PROVE  Globs!PathMatches(<<Globs!Star>>, ts)
<1> DEFINE ps == <<Globs!Star>>
           m == Len(ts)
           at == [k \in 1 .. 1 + 1 |-> IF k = 1 THEN 1 ELSE m + 1]
<1>1. ps \in Seq(S) /\ Len(ps) = 1 /\ ps[1] = Globs!Star
  OBVIOUS
<1>2. m \in Nat /\ m >= 1
  BY EmptySeq, LenProperties
<1>3. /\ at \in [1 .. 1 + 1 -> 1 .. m + 1]
      /\ at[1] = 1 /\ at[1 + 1] = m + 1
  BY <1>2
<1> HIDE DEF ps, at
<1>4. \A k \in 1 .. Len(ps) : k = 1
  BY <1>1
<1>5. at \in Globs!Layouts(1, m)
  BY <1>3 DEF Globs!Layouts
<1>6. LaidAlong(at, ps, ts)
  BY <1>1, <1>2, <1>3, <1>4, <1>5 DEF LaidAlong
<1>7. Globs!PathMatches(ps, ts)
  BY <1>1, <1>6, PathsAreLaid
<1> QED BY <1>7 DEF ps

\* Elsewhere it stands for no segment, or for one and what a double star stands for.
LEMMA DoubleStarFirst ==
  ASSUME NEW S, Globs!Star \in S, NEW rest \in Seq(S), rest # <<>>, NEW ts \in Seq(S)
  PROVE  Globs!PathMatches(<<Globs!Star>> \o rest, ts) <=>
           ts # <<>> /\ (Globs!PathMatches(rest, ts) \/ Globs!PathMatches(<<Globs!Star>> \o rest, Tail(ts)))
<1> DEFINE ps == <<Globs!Star>> \o rest
           n == Len(rest)
           m == Len(ts)
           us == Tail(ts)
<1>1. /\ ps \in Seq(S) /\ n \in Nat /\ Len(ps) = n + 1 /\ ps[1] = Globs!Star
      /\ \A k \in 1 .. n : ps[k + 1] = rest[k]
  BY Prepended
<1>2. m \in Nat /\ (m = 0 <=> ts = <<>>) /\ n # 0
  BY EmptySeq, LenProperties
<1>3. ts # <<>> => us \in Seq(S) /\ Len(us) = m - 1 /\ \A k \in 1 .. m - 1 : us[k] = ts[k + 1]
  BY WithoutFirst
<1> HIDE DEF ps, n, m, us
<1>4. ASSUME NEW at, LaidAlong(at, ps, ts)
      PROVE  ts # <<>> /\ (Globs!PathMatches(rest, ts) \/ Globs!PathMatches(ps, us))
  <2>1. /\ at \in GrowingLayouts(n + 1, m)
        /\ \A k \in 1 .. n + 2 : at[k] \in 1 .. m + 1
        /\ \A k \in 1 .. n + 1 : at[k] \in 1 .. m
    <3>1. (n + 1) + 1 = n + 2 /\ n + 1 \in Nat /\ Len(ps) = n + 1 /\ Len(ts) = m
      BY <1>1 DEF m
    <3>2. /\ at \in GrowingLayouts(n + 1, m)
          /\ \A k \in 1 .. (n + 1) + 1 : at[k] \in 1 .. m + 1
          /\ \A k \in 1 .. n + 1 : at[k] \in 1 .. m
      BY <1>2, <1>4, <3>1, LaidAlongGrows
    <3> QED BY <3>1, <3>2
  <2>2. at[2] \in 1 .. m
    <3>1. 2 \in 1 .. n + 1
      BY <1>1, <1>2
    <3> QED BY <2>1, <3>1
  <2>3. m >= 1 /\ ts # <<>>
    BY <1>2, <2>2
  <2>4. CASE at[2] = 1
    <3> DEFINE new == [k \in 1 .. n + 1 |-> at[k + 1] - 0]
    <3>1. new \in Globs!Layouts(n, m)
      <4>1. at[2] = 1 + 0 /\ m - 0 = m /\ 0 \in Nat
        BY <1>2, <2>4
      <4>2. [k \in 1 .. n + 1 |-> at[k + 1] - 0] \in Globs!Layouts(n, m - 0)
        BY <1>1, <1>2, <2>1, <4>1, LayoutOfRest
      <4> QED BY <4>1, <4>2
    <3>2. ASSUME NEW k \in 1 .. n
          PROVE  /\ rest[k] = Globs!Star => new[k + 1] >= new[k] /\ new[k] <= m
                 /\ rest[k] # Globs!Star =>
                      new[k + 1] = new[k] + 1 /\ Globs!SegmentMatches(rest[k], ts[new[k]])
      <4>1. /\ k + 1 \in 1 .. Len(ps) /\ ps[k + 1] = rest[k]
            /\ k + 1 \in 1 .. n + 1 /\ (k + 1) + 1 \in 1 .. n + 2 /\ k + 1 \in 1 .. n + 2
            /\ k \in 1 .. n + 1
        BY <1>1
      <4>2. /\ new[k] = at[k + 1] /\ new[k + 1] = at[(k + 1) + 1] /\ at[k + 1] <= m
        BY <2>1, <4>1
      <4> HIDE DEF new
      <4>3. /\ rest[k] = Globs!Star => at[(k + 1) + 1] >= at[k + 1]
            /\ rest[k] # Globs!Star =>
                 at[(k + 1) + 1] = at[k + 1] + 1 /\ Globs!SegmentMatches(rest[k], ts[at[k + 1]])
        BY <1>4, <4>1 DEF LaidAlong
      <4> QED BY <4>2, <4>3
    <3> HIDE DEF new
    <3>3. LaidAlong(new, rest, ts)
      BY <3>1, <3>2 DEF LaidAlong, n, m
    <3> QED BY <2>3, <3>3, PathsAreLaid
  <2>5. CASE at[2] # 1
    <3>1. at[2] >= 2 /\ m >= 2 /\ n + 1 > 0 /\ n + 1 \in Nat
      BY <1>1, <1>2, <2>2, <2>5
    <3> DEFINE new == [k \in 1 .. n + 2 |-> IF k = 1 THEN 1 ELSE at[k] - 1]
    <3>2. new \in Globs!Layouts(n + 1, m - 1)
      <4>1. (n + 1) + 1 = n + 2
        BY <1>1
      <4>2. [k \in 1 .. (n + 1) + 1 |-> IF k = 1 THEN 1 ELSE at[k] - 1] \in Globs!Layouts(n + 1, m - 1)
        BY <1>2, <2>1, <3>1, LayoutOfLess
      <4> QED BY <4>1, <4>2
    <3>3. Len(us) = m - 1
      BY <1>3, <2>3
    <3>4. ASSUME NEW k \in 1 .. n + 1
          PROVE  /\ ps[k] = Globs!Star => new[k + 1] >= new[k] /\ new[k] <= m - 1
                 /\ ps[k] # Globs!Star =>
                      new[k + 1] = new[k] + 1 /\ Globs!SegmentMatches(ps[k], us[new[k]])
      <4>1. k \in 1 .. n + 2 /\ k + 1 \in 1 .. n + 2 /\ k + 1 # 1
        BY <1>1
      <4>2. new[k] \in 1 .. (m - 1) + 1 /\ new[k + 1] \in 1 .. (m - 1) + 1
        <5>1. (n + 1) + 1 = n + 2
          BY <1>1
        <5>2. new \in [1 .. n + 2 -> 1 .. (m - 1) + 1]
          BY <3>2, <5>1 DEF Globs!Layouts
        <5> HIDE DEF new
        <5> QED BY <4>1, <5>2
      <4>3. CASE k = 1
        <5>1. new[k] = 1
          BY <4>1, <4>3
        <5> HIDE DEF new
        <5> QED BY <1>1, <1>2, <3>1, <4>2, <4>3, <5>1
      <4>4. CASE k # 1
        <5>1. new[k] = at[k] - 1 /\ new[k + 1] = at[k + 1] - 1
          BY <4>1, <4>4
        <5> HIDE DEF new
        <5>2. at[k] \in 1 .. m /\ at[k + 1] \in 1 .. m + 1
          BY <2>1, <4>1
        <5>3. new[k] \in 1 .. m - 1 /\ new[k] + 1 = at[k]
          BY <1>2, <4>2, <5>1, <5>2, SMTT(20)
        <5>4. CASE ps[k] = Globs!Star
          <6>1. at[k + 1] >= at[k]
            BY <1>1, <1>4, <5>4 DEF LaidAlong
          <6> QED BY <1>2, <5>1, <5>2, <5>3, <5>4, <6>1
        <5>5. CASE ps[k] # Globs!Star
          <6>1. at[k + 1] = at[k] + 1 /\ Globs!SegmentMatches(ps[k], ts[at[k]])
            BY <1>1, <1>4, <5>5 DEF LaidAlong
          <6>2. new[k + 1] = new[k] + 1
            BY <5>1, <5>2, <6>1
          <6>3. us[new[k]] = ts[at[k]]
            BY <1>3, <2>3, <5>3
          <6> QED BY <5>5, <6>1, <6>2, <6>3
        <5> QED BY <5>4, <5>5
      <4> QED BY <4>3, <4>4
    <3> HIDE DEF new
    <3>5. LaidAlong(new, ps, us)
      BY <1>1, <3>2, <3>3, <3>4 DEF LaidAlong
    <3> QED BY <1>1, <2>3, <3>5, PathsAreLaid
  <2> QED BY <2>4, <2>5
<1>5. ASSUME ts # <<>>, NEW at, LaidAlong(at, rest, ts) PROVE \E new : LaidAlong(new, ps, ts)
  <2>1. /\ at \in Globs!Layouts(n, m)
        /\ \A k \in 1 .. n + 1 : at[k] \in 1 .. m + 1
        /\ \A k \in 1 .. n : at[k] \in 1 .. m
    <3>1. Len(rest) = n /\ Len(ts) = m
      BY DEF n, m
    <3>2. /\ at \in GrowingLayouts(n, m)
          /\ \A k \in 1 .. n + 1 : at[k] \in 1 .. m + 1
          /\ \A k \in 1 .. n : at[k] \in 1 .. m
      BY <1>1, <1>2, <1>5, <3>1, LaidAlongGrows
    <3> QED BY <3>2 DEF GrowingLayouts
  <2> DEFINE new == [k \in 1 .. n + 2 |-> IF k = 1 THEN 1 ELSE at[k - 1] + 0]
  <2>2. new \in Globs!Layouts(n + 1, m)
    <3>1. 0 \in 0 .. m /\ m - 0 = m
      BY <1>2
    <3>2. at \in Globs!Layouts(n, m - 0)
      BY <2>1, <3>1
    <3> QED BY <1>1, <1>2, <3>1, <3>2, LayoutOfMore
  <2>3. ASSUME NEW k \in 1 .. n + 1
        PROVE  /\ ps[k] = Globs!Star => new[k + 1] >= new[k] /\ new[k] <= m
               /\ ps[k] # Globs!Star =>
                    new[k + 1] = new[k] + 1 /\ Globs!SegmentMatches(ps[k], ts[new[k]])
    <3>1. CASE k = 1
      <4>1. 1 \in 1 .. n + 2 /\ 2 \in 1 .. n + 2 /\ 2 # 1 /\ 2 - 1 = 1 /\ 1 + 1 = 2 /\ at[1] = 1
        BY <1>1, <2>1 DEF Globs!Layouts
      <4>2. new[1] = 1 /\ new[2] = 1
        BY <4>1
      <4>3. m >= 1
        BY <1>2, <1>5
      <4> HIDE DEF new
      <4> QED BY <1>1, <3>1, <4>1, <4>2, <4>3
    <3>2. CASE k # 1
      <4> DEFINE j == k - 1
      <4>1. /\ j \in 1 .. n /\ j + 1 = k /\ j + 1 \in 1 .. n + 1 /\ j \in 1 .. n + 1
            /\ k \in 1 .. n + 2 /\ k + 1 \in 1 .. n + 2 /\ k + 1 # 1 /\ (k + 1) - 1 = j + 1
        BY <1>1, <3>2
      <4>2. at[j] \in 1 .. m /\ at[j + 1] \in 1 .. m + 1 /\ ps[k] = rest[j]
        BY <1>1, <2>1, <4>1
      <4>3. new[k] = at[j] /\ new[k + 1] = at[j + 1] /\ at[j] <= m
        BY <3>2, <4>1, <4>2
      <4> HIDE DEF new, j
      <4>4. /\ rest[j] = Globs!Star => at[j + 1] >= at[j]
            /\ rest[j] # Globs!Star =>
                 at[j + 1] = at[j] + 1 /\ Globs!SegmentMatches(rest[j], ts[at[j]])
        BY <1>5, <4>1 DEF LaidAlong, n
      <4> QED BY <4>2, <4>3, <4>4
    <3> QED BY <3>1, <3>2
  <2> HIDE DEF new
  <2>4. LaidAlong(new, ps, ts)
    BY <1>1, <2>2, <2>3 DEF LaidAlong, m
  <2> QED BY <2>4
<1>6. ASSUME ts # <<>>, NEW at, LaidAlong(at, ps, us) PROVE \E new : LaidAlong(new, ps, ts)
  <2>1. m - 1 \in Nat /\ m > 0 /\ Len(us) = m - 1 /\ (n + 1) + 1 = n + 2
        /\ n + 1 \in Nat /\ n + 1 > 0 /\ (m - 1) + 1 = m
    BY <1>1, <1>2, <1>3, <1>6
  <2>2. /\ at \in Globs!Layouts(n + 1, m - 1)
        /\ \A k \in 1 .. n + 2 : at[k] \in 1 .. m
        /\ \A k \in 1 .. n + 1 : at[k] \in 1 .. m - 1
    <3>1. /\ at \in GrowingLayouts(n + 1, m - 1)
          /\ \A k \in 1 .. (n + 1) + 1 : at[k] \in 1 .. (m - 1) + 1
          /\ \A k \in 1 .. n + 1 : at[k] \in 1 .. m - 1
      BY <1>1, <1>6, <2>1, LaidAlongGrows
    <3> QED BY <2>1, <3>1 DEF GrowingLayouts
  <2> DEFINE new == [k \in 1 .. n + 2 |-> IF k = 1 THEN 1 ELSE at[k] + 1]
  <2>3. new \in Globs!Layouts(n + 1, m)
    <3>1. [k \in 1 .. (n + 1) + 1 |-> IF k = 1 THEN 1 ELSE at[k] + 1] \in Globs!Layouts(n + 1, m)
      BY <1>2, <2>1, <2>2, LayoutWithOneMore
    <3> QED BY <2>1, <3>1
  <2>4. ASSUME NEW k \in 1 .. n + 1
        PROVE  /\ ps[k] = Globs!Star => new[k + 1] >= new[k] /\ new[k] <= m
               /\ ps[k] # Globs!Star =>
                    new[k + 1] = new[k] + 1 /\ Globs!SegmentMatches(ps[k], ts[new[k]])
    <3>1. k \in 1 .. n + 2 /\ k + 1 \in 1 .. n + 2 /\ k + 1 # 1
      BY <1>1
    <3>2. at[k] \in 1 .. m - 1 /\ at[k + 1] \in 1 .. m
      BY <2>2, <3>1
    <3>3. new[k + 1] = at[k + 1] + 1 /\ new[k] = IF k = 1 THEN 1 ELSE at[k] + 1
      BY <3>1
    <3> HIDE DEF new
    <3>4. CASE k = 1
      BY <1>1, <1>2, <3>2, <3>3, <3>4
    <3>5. CASE k # 1
      <4>1. CASE ps[k] = Globs!Star
        <5>1. at[k + 1] >= at[k]
          BY <1>1, <1>6, <4>1 DEF LaidAlong
        <5> QED BY <1>2, <3>2, <3>3, <3>5, <4>1, <5>1
      <4>2. CASE ps[k] # Globs!Star
        <5>1. at[k + 1] = at[k] + 1 /\ Globs!SegmentMatches(ps[k], us[at[k]])
          BY <1>1, <1>6, <4>2 DEF LaidAlong
        <5>2. us[at[k]] = ts[at[k] + 1]
          BY <1>3, <1>6, <3>2
        <5> QED BY <3>2, <3>3, <3>5, <4>2, <5>1, <5>2
      <4> QED BY <4>1, <4>2
    <3> QED BY <3>4, <3>5
  <2> HIDE DEF new
  <2>5. LaidAlong(new, ps, ts)
    BY <1>1, <2>3, <2>4 DEF LaidAlong, m
  <2> QED BY <2>5
<1>7. Globs!PathMatches(ps, ts) <=>
        ts # <<>> /\ (Globs!PathMatches(rest, ts) \/ Globs!PathMatches(ps, us))
  <2>1. /\ Globs!PathMatches(ps, ts) <=> \E at : LaidAlong(at, ps, ts)
        /\ Globs!PathMatches(rest, ts) <=> \E at : LaidAlong(at, rest, ts)
        /\ Globs!PathMatches(ps, us) <=> \E at : LaidAlong(at, ps, us)
    BY <1>1, PathsAreLaid
  <2> QED BY <1>4, <1>5, <1>6, <2>1
<1> QED BY <1>7 DEF ps, us

\* The first segment of what is left of a text, and the others.
SegmentsLeft(f, s, n, C) ==
  /\ \A k \in 1 .. n + 1 :
       /\ f[k] \in Seq(Seq(C)) /\ f[k] # <<>>
       /\ Head(f[k]) \in Seq(C) /\ Tail(f[k]) \in Seq(Seq(C)) /\ f[k][1] = Head(f[k])
       /\ f[k] = <<Head(f[k])>> \o Tail(f[k])
  /\ Head(f[n + 1]) = <<>> /\ Tail(f[n + 1]) = <<>>
  /\ \A k \in 1 .. n :
       /\ s[k] = "/" => Head(f[k]) = <<>> /\ Tail(f[k]) = f[k + 1]
       /\ s[k] # "/" => /\ Head(f[k]) = <<s[k]>> \o Head(f[k + 1])
                        /\ Tail(f[k]) = Tail(f[k + 1])

LEMMA SegmentsOfRest ==
  ASSUME NEW C, NEW s \in Seq(C), NEW f, SegmentedInSteps(f, s, C)
  PROVE  SegmentsLeft(f, s, Len(s), C)
<1>1. Len(s) \in Nat /\ \A k \in 1 .. Len(s) : s[k] \in C
  BY LenProperties, ElementOfSeq
<1>2. /\ f \in [1 .. Len(s) + 1 -> Seq(Seq(C)) \ {<<>>}]
      /\ f[Len(s) + 1] = <<<<>>>>
      /\ \A k \in 1 .. Len(s) :
           f[k] = IF s[k] = "/" THEN <<<<>>>> \o f[k + 1]
                  ELSE <<<<s[k]>> \o Head(f[k + 1])>> \o Tail(f[k + 1])
  BY DEF SegmentedInSteps
<1>3. ASSUME NEW k \in 1 .. Len(s) + 1
      PROVE  /\ f[k] \in Seq(Seq(C)) /\ f[k] # <<>>
             /\ Head(f[k]) \in Seq(C) /\ Tail(f[k]) \in Seq(Seq(C)) /\ f[k][1] = Head(f[k])
  <2>1. f[k] \in Seq(Seq(C)) /\ f[k] # <<>>
    BY <1>2
  <2> DEFINE g == f[k]
  <2>2. Head(g) = g[1] /\ g[1] \in Seq(C) /\ Tail(g) \in Seq(Seq(C))
    <3> HIDE DEF g
    <3>1. g \in Seq(Seq(C)) /\ g # <<>>
      BY <2>1 DEF g
    <3> QED BY <3>1, WithoutFirst
  <2> QED BY <2>1, <2>2
<1>4. <<>> \in Seq(C)
  OBVIOUS
<1>5. Head(f[Len(s) + 1]) = <<>> /\ Tail(f[Len(s) + 1]) = <<>>
  BY <1>2
<1>6. ASSUME NEW k \in 1 .. Len(s), s[k] = "/"
      PROVE  /\ Head(f[k]) = <<>> /\ Tail(f[k]) = f[k + 1]
             /\ f[k] = <<Head(f[k])>> \o Tail(f[k])
  <2> DEFINE rest == f[k + 1]
             none == <<>>
  <2>1. f[k] = <<none>> \o rest /\ rest \in Seq(Seq(C)) /\ none \in Seq(C)
    <3>1. k + 1 \in 1 .. Len(s) + 1
      BY <1>1
    <3>2. rest \in Seq(Seq(C))
      BY <1>3, <3>1
    <3>3. f[k] = <<none>> \o rest
      BY <1>2, <1>6
    <3> QED BY <1>4, <3>2, <3>3
  <2> HIDE DEF rest, none
  <2>2. Head(f[k]) = none /\ Tail(f[k]) = rest
    BY <2>1, FirstAndRest
  <2> QED BY <2>1, <2>2 DEF rest, none
<1>7. ASSUME NEW k \in 1 .. Len(s), s[k] # "/"
      PROVE  /\ Head(f[k]) = <<s[k]>> \o Head(f[k + 1])
             /\ Tail(f[k]) = Tail(f[k + 1])
             /\ f[k] = <<Head(f[k])>> \o Tail(f[k])
  <2> DEFINE h == Head(f[k + 1])
             t == Tail(f[k + 1])
             g == <<s[k]>> \o h
  <2>1. k + 1 \in 1 .. Len(s) + 1
    BY <1>1
  <2>2. f[k] = <<g>> \o t
    BY <1>2, <1>7
  <2>3. h \in Seq(C) /\ t \in Seq(Seq(C)) /\ s[k] \in C
    BY <1>1, <1>3, <2>1
  <2> HIDE DEF h, t
  <2>4. g \in Seq(C)
    BY <2>3, Prepended
  <2> HIDE DEF g
  <2>5. Head(f[k]) = g /\ Tail(f[k]) = t
    BY <2>2, <2>3, <2>4, FirstAndRest
  <2> QED BY <2>2, <2>5 DEF g, h, t
<1>8. f[Len(s) + 1] = <<Head(f[Len(s) + 1])>> \o Tail(f[Len(s) + 1])
  <2>1. <<<<>>>> = <<<<>>>> \o <<>>
    OBVIOUS
  <2> QED BY <1>2, <1>5, <2>1
<1>9. \A k \in 1 .. Len(s) + 1 : f[k] = <<Head(f[k])>> \o Tail(f[k])
  <2> TAKE k \in 1 .. Len(s) + 1
  <2>1. k = Len(s) + 1 \/ k \in 1 .. Len(s)
    BY <1>1
  <2> QED BY <1>6, <1>7, <1>8, <2>1
<1> QED BY <1>3, <1>5, <1>6, <1>7, <1>9 DEF SegmentsLeft

\* Where no two stars meet; and where they do so only in segments of their own.
NoDouble(s) == \A k \in DOMAIN s : ~ Globs!IsDouble(s, k)
Plain(segments) == \A i \in DOMAIN segments : segments[i] = Globs!Star \/ NoDouble(segments[i])

LEMMA PlainParts ==
  ASSUME NEW S, NEW h \in S, NEW rest \in Seq(S), Plain(<<h>> \o rest)
  PROVE  (h = Globs!Star \/ NoDouble(h)) /\ Plain(rest)
<1> DEFINE ps == <<h>> \o rest
<1>1. /\ Len(rest) \in Nat /\ ps[1] = h /\ DOMAIN ps = 1 .. Len(rest) + 1 /\ DOMAIN rest = 1 .. Len(rest)
      /\ \A k \in 1 .. Len(rest) : ps[k + 1] = rest[k]
  <2>1. ps \in Seq(S) /\ Len(rest) \in Nat /\ Len(ps) = Len(rest) + 1 /\ ps[1] = h
        /\ \A k \in 1 .. Len(rest) : ps[k + 1] = rest[k]
    BY Prepended
  <2> QED BY <2>1, LenProperties
<1> HIDE DEF ps
<1>2. Plain(ps)
  BY DEF ps
<1>3. h = Globs!Star \/ NoDouble(h)
  BY <1>1, <1>2 DEF Plain
<1>4. ASSUME NEW i \in DOMAIN rest PROVE rest[i] = Globs!Star \/ NoDouble(rest[i])
  <2>1. i + 1 \in DOMAIN ps /\ ps[i + 1] = rest[i]
    BY <1>1
  <2> QED BY <1>2, <2>1 DEF Plain
<1> QED BY <1>3, <1>4 DEF Plain

\* A segment without two stars together leaves a plain pattern plain.
LEMMA PlainAgain ==
  ASSUME NEW S, NEW h \in S, NEW rest \in Seq(S), NoDouble(h), Plain(rest)
  PROVE  Plain(<<h>> \o rest)
<1> DEFINE ps == <<h>> \o rest
<1>1. /\ Len(rest) \in Nat /\ ps[1] = h /\ DOMAIN ps = 1 .. Len(rest) + 1 /\ DOMAIN rest = 1 .. Len(rest)
      /\ \A k \in 1 .. Len(rest) : ps[k + 1] = rest[k]
  <2>1. ps \in Seq(S) /\ Len(rest) \in Nat /\ Len(ps) = Len(rest) + 1 /\ ps[1] = h
        /\ \A k \in 1 .. Len(rest) : ps[k + 1] = rest[k]
    BY Prepended
  <2> QED BY <2>1, LenProperties
<1> HIDE DEF ps
<1>2. ASSUME NEW i \in DOMAIN ps PROVE ps[i] = Globs!Star \/ NoDouble(ps[i])
  <2>1. CASE i = 1
    BY <1>1, <2>1
  <2>2. CASE i # 1
    <3>1. i - 1 \in 1 .. Len(rest) /\ (i - 1) + 1 = i
      BY <1>1, <2>2
    <3>2. ps[i] = rest[i - 1] /\ i - 1 \in DOMAIN rest
      BY <1>1, <3>1
    <3> QED BY <3>2 DEF Plain
  <2> QED BY <2>1, <2>2
<1>3. Plain(ps)
  BY <1>2 DEF Plain
<1> QED BY <1>3 DEF ps

\* What follows a character has no two stars together if it has none with that.
LEMMA NoDoubleBehind ==
  ASSUME NEW C, NEW c \in C, NEW h \in Seq(C), NoDouble(<<c>> \o h)
  PROVE  NoDouble(h) /\ h # Globs!Star /\ <<c>> \o h # Globs!Star
<1> DEFINE s == <<c>> \o h
<1>1. /\ Len(h) \in Nat /\ Len(s) = Len(h) + 1 /\ DOMAIN s = 1 .. Len(h) + 1 /\ DOMAIN h = 1 .. Len(h)
      /\ \A k \in 1 .. Len(h) : s[k + 1] = h[k]
  <2>1. s \in Seq(C) /\ Len(h) \in Nat /\ Len(s) = Len(h) + 1
        /\ \A k \in 1 .. Len(h) : s[k + 1] = h[k]
    BY Prepended
  <2> QED BY <2>1, LenProperties
<1> HIDE DEF s
<1>2. NoDouble(s)
  BY DEF s
<1>3. ASSUME NEW k \in DOMAIN h, Globs!IsDouble(h, k) PROVE FALSE
  <2>1. k \in 1 .. Len(h) /\ k + 1 \in DOMAIN s /\ k + 1 <= Len(h) /\ h[k] = "*" /\ h[k + 1] = "*"
    BY <1>1, <1>3 DEF Globs!IsDouble, Globs!IsStar
  <2>2. s[k + 1] = "*" /\ s[(k + 1) + 1] = "*" /\ k + 1 <= Len(s) /\ (k + 1) + 1 <= Len(s)
    BY <1>1, <2>1
  <2>3. Globs!IsDouble(s, k + 1)
    BY <2>2 DEF Globs!IsDouble, Globs!IsStar
  <2> QED BY <1>2, <2>1, <2>3 DEF NoDouble
<1>4. NoDouble(h)
  BY <1>3 DEF NoDouble
<1>5. ~ NoDouble(Globs!Star)
  <2>1. 1 \in DOMAIN Globs!Star /\ Globs!IsDouble(Globs!Star, 1)
    BY DEF Globs!Star, Globs!IsDouble, Globs!IsStar
  <2> QED BY <2>1 DEF NoDouble
<1> QED BY <1>2, <1>4, <1>5 DEF s

\* From where something can be skipped, place by place.
LEMMA SkippingSteps ==
  ASSUME NEW txt, NEW m \in Nat, Len(txt) = m, NEW next \in SUBSET (1 .. m + 1), NEW j \in 1 .. m + 1
  PROVE  /\ j \in Globs!Skipping(txt, next) <=>
              j \in next \/ (j <= m /\ j + 1 \in Globs!Skipping(txt, next))
         /\ j \in Globs!SkippingInside(txt, next) <=>
              j \in next \/ (j <= m /\ txt[j] # "/" /\ j + 1 \in Globs!SkippingInside(txt, next))
<1>1. ASSUME NEW i \in 1 .. m + 1
      PROVE  /\ i \in Globs!Skipping(txt, next) <=> \E skip \in next : skip >= i
             /\ i \in Globs!SkippingInside(txt, next) <=>
                  \E skip \in next : skip >= i /\ \A k \in i .. skip - 1 : txt[k] # "/"
  BY DEF Globs!Skipping, Globs!SkippingInside
<1>2. ASSUME NEW skip \in next, skip >= j
      PROVE  skip = j \/ (j <= m /\ j + 1 \in 1 .. m + 1 /\ skip >= j + 1)
  BY <1>2
<1>3. ASSUME j <= m PROVE j + 1 \in 1 .. m + 1
  BY <1>3
<1>4. j \in Globs!Skipping(txt, next) <=>
        j \in next \/ (j <= m /\ j + 1 \in Globs!Skipping(txt, next))
  <2>1. ASSUME NEW skip \in next, skip >= j
        PROVE  j \in next \/ (j <= m /\ j + 1 \in Globs!Skipping(txt, next))
    <3>1. skip = j \/ (j <= m /\ j + 1 \in 1 .. m + 1 /\ skip >= j + 1)
      BY <1>2, <2>1
    <3> QED BY <1>1, <3>1
  <2>2. ASSUME j \in next PROVE j \in Globs!Skipping(txt, next)
    <3>1. j >= j
      OBVIOUS
    <3> QED BY <1>1, <2>2, <3>1
  <2>3. ASSUME j <= m, j + 1 \in Globs!Skipping(txt, next) PROVE j \in Globs!Skipping(txt, next)
    <3>1. PICK skip \in next : skip >= j + 1
      BY <1>1, <1>3, <2>3
    <3>2. skip >= j
      BY <3>1
    <3> QED BY <1>1, <3>2
  <2> QED BY <1>1, <2>1, <2>2, <2>3
<1>5. j \in Globs!SkippingInside(txt, next) <=>
        j \in next \/ (j <= m /\ txt[j] # "/" /\ j + 1 \in Globs!SkippingInside(txt, next))
  <2>1. ASSUME NEW skip \in next, skip >= j, \A k \in j .. skip - 1 : txt[k] # "/"
        PROVE  j \in next \/ (j <= m /\ txt[j] # "/" /\ j + 1 \in Globs!SkippingInside(txt, next))
    <3>1. skip = j \/ (j <= m /\ j + 1 \in 1 .. m + 1 /\ skip >= j + 1)
      BY <1>2, <2>1
    <3>2. ASSUME skip >= j + 1 PROVE txt[j] # "/" /\ \A k \in j + 1 .. skip - 1 : txt[k] # "/"
      BY <2>1, <3>2
    <3> QED BY <1>1, <3>1, <3>2
  <2>2. ASSUME j \in next PROVE j \in Globs!SkippingInside(txt, next)
    <3>1. j >= j /\ \A k \in j .. j - 1 : FALSE
      OBVIOUS
    <3> QED BY <1>1, <2>2, <3>1
  <2>3. ASSUME j <= m, txt[j] # "/", j + 1 \in Globs!SkippingInside(txt, next)
        PROVE  j \in Globs!SkippingInside(txt, next)
    <3>1. PICK skip \in next : skip >= j + 1 /\ \A k \in j + 1 .. skip - 1 : txt[k] # "/"
      BY <1>1, <1>3, <2>3
    <3>2. skip >= j /\ \A k \in j .. skip - 1 : txt[k] # "/"
      BY <2>3, <3>1
    <3> QED BY <1>1, <3>2
  <2> QED BY <1>1, <2>1, <2>2, <2>3
<1> QED BY <1>4, <1>5

\* A set of places in a text is where a pattern matches what is left of it.
Agrees(places, segments, ts, m) ==
  \A j \in 1 .. m + 1 : j \in places <=> Globs!PathMatches(segments, ts[j])

\* A slash: nothing is left of the segment in the text, either.
LEMMA SlashAgrees ==
  ASSUME NEW C, NEW txt \in Seq(C), NEW m \in Nat, Len(txt) = m,
         NEW ts, SegmentsLeft(ts, txt, m, C),
         NEW rest \in Seq(Seq(C)), rest # <<>>, NEW next, Agrees(next, rest, ts, m)
  PROVE  Agrees(Globs!Taking("/", txt, next), <<<<>>>> \o rest, ts, m)
<1>1. /\ \A k \in 1 .. m + 1 :
           /\ ts[k] \in Seq(Seq(C)) /\ ts[k] # <<>>
           /\ Head(ts[k]) \in Seq(C) /\ Tail(ts[k]) \in Seq(Seq(C)) /\ ts[k][1] = Head(ts[k])
      /\ Tail(ts[m + 1]) = <<>>
      /\ \A k \in 1 .. m :
           /\ txt[k] = "/" => Head(ts[k]) = <<>> /\ Tail(ts[k]) = ts[k + 1]
           /\ txt[k] # "/" => Head(ts[k]) = <<txt[k]>> \o Head(ts[k + 1])
  BY DEF SegmentsLeft
<1>2. <<>> \in Seq(C) /\ <<>> # Globs!Star
  BY DEF Globs!Star
<1> SUFFICES ASSUME NEW j \in 1 .. m + 1
             PROVE  j \in Globs!Taking("/", txt, next) <=> Globs!PathMatches(<<<<>>>> \o rest, ts[j])
  BY DEF Agrees
<1>3. Globs!PathMatches(<<<<>>>> \o rest, ts[j]) <=>
        Head(ts[j]) = <<>> /\ Globs!PathMatches(rest, Tail(ts[j]))
  <2> DEFINE none == <<>>
             t == ts[j]
  <2>1. none \in Seq(C) /\ none # Globs!Star /\ t \in Seq(Seq(C)) /\ t # <<>> /\ t[1] \in Seq(C)
        /\ t[1] = Head(t)
    BY <1>1, <1>2
  <2>2. Globs!SegmentMatches(none, t[1]) <=> t[1] = <<>>
    <3> HIDE DEF t
    <3> QED BY <2>1, EmptySegment
  <2> HIDE DEF none, t
  <2>3. Globs!PathMatches(<<none>> \o rest, t) <=>
          t # <<>> /\ Globs!SegmentMatches(none, t[1]) /\ Globs!PathMatches(rest, Tail(t))
    BY <2>1, SegmentFirst
  <2> QED BY <2>1, <2>2, <2>3 DEF none, t
<1>4. CASE j = m + 1
  <2>1. ~ Globs!PathMatches(rest, <<>>)
    BY NothingIsMatched
  <2>2. ~ (j \in 1 .. m)
    BY <1>4
  <2>3. j \notin Globs!Taking("/", txt, next)
    BY <2>2 DEF Globs!Taking
  <2> QED BY <1>1, <1>3, <1>4, <2>1, <2>3
<1>5. CASE j # m + 1
  <2>1. j \in 1 .. m /\ j + 1 \in 1 .. m + 1
    BY <1>5
  <2>2. j \in Globs!Taking("/", txt, next) <=> j + 1 \in next /\ txt[j] = "/"
    BY <2>1 DEF Globs!Taking
  <2>3. j + 1 \in next <=> Globs!PathMatches(rest, ts[j + 1])
    BY <2>1 DEF Agrees
  <2>4. CASE txt[j] = "/"
    BY <1>1, <1>3, <2>1, <2>2, <2>3, <2>4
  <2>5. CASE txt[j] # "/"
    <3>1. Head(ts[j]) # <<>>
      <4> DEFINE h == Head(ts[j + 1])
      <4>1. Head(ts[j]) = <<txt[j]>> \o h /\ h \in Seq(C) /\ txt[j] \in C
        BY <1>1, <2>1, <2>5, ElementOfSeq
      <4> HIDE DEF h
      <4> QED BY <4>1, FirstAndRest
    <3> QED BY <1>3, <2>2, <2>5, <3>1
  <2> QED BY <2>4, <2>5
<1> QED BY <1>4, <1>5

\* A character that is no star: the segment in the text goes on with one it stands for.
LEMMA CharacterAgrees ==
  ASSUME NEW C, NEW txt \in Seq(C), NEW m \in Nat, Len(txt) = m,
         NEW ts, SegmentsLeft(ts, txt, m, C),
         NEW c \in C, c # "*", c # "/", NEW h \in Seq(C), h # Globs!Star, <<c>> \o h # Globs!Star,
         NEW rest \in Seq(Seq(C)), NEW next, Agrees(next, <<h>> \o rest, ts, m)
  PROVE  Agrees(Globs!Taking(c, txt, next), <<<<c>> \o h>> \o rest, ts, m)
<1>1. /\ \A k \in 1 .. m + 1 :
           /\ ts[k] \in Seq(Seq(C)) /\ ts[k] # <<>>
           /\ Head(ts[k]) \in Seq(C) /\ Tail(ts[k]) \in Seq(Seq(C)) /\ ts[k][1] = Head(ts[k])
      /\ Head(ts[m + 1]) = <<>>
      /\ \A k \in 1 .. m :
           /\ txt[k] = "/" => Head(ts[k]) = <<>>
           /\ txt[k] # "/" => /\ Head(ts[k]) = <<txt[k]>> \o Head(ts[k + 1])
                              /\ Tail(ts[k]) = Tail(ts[k + 1])
  BY DEF SegmentsLeft
<1> DEFINE g == <<c>> \o h
<1>2. g \in Seq(C) /\ g # Globs!Star
  BY Prepended
<1> SUFFICES ASSUME NEW j \in 1 .. m + 1
             PROVE  j \in Globs!Taking(c, txt, next) <=> Globs!PathMatches(<<g>> \o rest, ts[j])
  BY DEF Agrees
<1>3. Globs!PathMatches(<<g>> \o rest, ts[j]) <=>
        /\ Head(ts[j]) # <<>> /\ c \in {"?", Head(ts[j])[1]}
        /\ Globs!SegmentMatches(h, Tail(Head(ts[j])))
        /\ Globs!PathMatches(rest, Tail(ts[j]))
  <2> DEFINE t == ts[j]
             u == Head(ts[j])
  <2>1. t \in Seq(Seq(C)) /\ t # <<>> /\ t[1] = u /\ u \in Seq(C)
    BY <1>1
  <2> HIDE DEF t, u
  <2>2. Globs!SegmentMatches(g, u) <=> u # <<>> /\ c \in {"?", u[1]} /\ Globs!SegmentMatches(h, Tail(u))
    BY <2>1, CharacterFirst
  <2> HIDE DEF g
  <2>3. Globs!PathMatches(<<g>> \o rest, t) <=>
          t # <<>> /\ Globs!SegmentMatches(g, t[1]) /\ Globs!PathMatches(rest, Tail(t))
    BY <1>2, <2>1, SegmentFirst
  <2> QED BY <2>1, <2>2, <2>3 DEF t, u
<1> HIDE DEF g
<1>4. CASE j = m + 1
  <2>1. ~ (j \in 1 .. m)
    BY <1>4
  <2>2. j \notin Globs!Taking(c, txt, next)
    BY <2>1 DEF Globs!Taking
  <2> QED BY <1>1, <1>3, <1>4, <2>2
<1>5. CASE j # m + 1
  <2>1. j \in 1 .. m /\ j + 1 \in 1 .. m + 1
    BY <1>5
  <2>2. j \in Globs!Taking(c, txt, next) <=>
          j + 1 \in next /\ (c = txt[j] \/ (c = "?" /\ txt[j] # "/"))
    BY <2>1 DEF Globs!Taking
  <2>3. CASE txt[j] = "/"
    BY <1>1, <1>3, <2>1, <2>2, <2>3
  <2>4. CASE txt[j] # "/"
    <3> DEFINE t == ts[j + 1]
               u == Head(ts[j + 1])
    <3>1. t \in Seq(Seq(C)) /\ t # <<>> /\ t[1] = u /\ u \in Seq(C) /\ txt[j] \in C
      BY <1>1, <2>1, ElementOfSeq
    <3>2. Head(ts[j]) = <<txt[j]>> \o u /\ Tail(ts[j]) = Tail(t)
      BY <1>1, <2>1, <2>4
    <3>3. Head(ts[j]) # <<>> /\ Head(ts[j])[1] = txt[j] /\ Tail(Head(ts[j])) = u
      <4> DEFINE x == txt[j]
                 v == Head(ts[j])
      <4>1. x \in C /\ u \in Seq(C) /\ v = <<x>> \o u
        BY <3>1, <3>2
      <4> HIDE DEF t, u, x, v
      <4>2. v # <<>> /\ v[1] = x /\ Tail(v) = u
        BY <4>1, FirstAndRest
      <4> QED BY <4>2 DEF x, v
    <3> HIDE DEF u
    <3>4. j + 1 \in next <=> Globs!PathMatches(<<h>> \o rest, t)
      BY <2>1 DEF Agrees
    <3> HIDE DEF t
    <3>5. Globs!PathMatches(<<h>> \o rest, t) <=>
            Globs!SegmentMatches(h, u) /\ Globs!PathMatches(rest, Tail(t))
      BY <3>1, SegmentFirst
    <3>6. c \in {"?", txt[j]} <=> (c = txt[j] \/ (c = "?" /\ txt[j] # "/"))
      BY <2>4
    <3> QED BY <1>3, <2>2, <3>2, <3>3, <3>4, <3>5, <3>6
  <2> QED BY <2>3, <2>4
<1> QED BY <1>4, <1>5

\* From the end of a text to its beginning.
LEMMA FromTheEnd ==
  ASSUME NEW m \in Nat, NEW P, m + 1 \in P, \A j \in 1 .. m : j + 1 \in P => j \in P
  PROVE  \A j \in 1 .. m + 1 : j \in P
<1> DEFINE Q == {k \in 0 .. m : m + 1 - k \in P}
<1>1. 0 \in Q
  OBVIOUS
<1>2. ASSUME NEW k \in 1 .. m, k - 1 \in Q PROVE k \in Q
  <2>1. m + 1 - k \in 1 .. m /\ m + 1 - (k - 1) = (m + 1 - k) + 1 /\ k \in 0 .. m
    OBVIOUS
  <2>2. (m + 1 - k) + 1 \in P
    BY <1>2, <2>1
  <2> QED BY <2>1, <2>2
<1>3. \A k \in 0 .. m : k \in Q
  <2> HIDE DEF Q
  <2> QED BY <1>1, <1>2, Counting
<1> TAKE j \in 1 .. m + 1
<1>4. m + 1 - j \in 0 .. m /\ m + 1 - (m + 1 - j) = j
  OBVIOUS
<1>5. m + 1 - j \in Q
  BY <1>3, <1>4
<1> QED BY <1>4, <1>5

\* A star: the segment in the text goes on with anything, or with what the rest stands for.
LEMMA StarAgrees ==
  ASSUME NEW C, "*" \in C, NEW txt \in Seq(C), NEW m \in Nat, Len(txt) = m,
         NEW ts, SegmentsLeft(ts, txt, m, C),
         NEW h \in Seq(C), h # Globs!Star, <<"*">> \o h # Globs!Star,
         NEW rest \in Seq(Seq(C)),
         NEW next \in SUBSET (1 .. m + 1), Agrees(next, <<h>> \o rest, ts, m)
  PROVE  Agrees(Globs!SkippingInside(txt, next), <<<<"*">> \o h>> \o rest, ts, m)
<1>1. /\ \A k \in 1 .. m + 1 :
           /\ ts[k] \in Seq(Seq(C)) /\ ts[k] # <<>>
           /\ Head(ts[k]) \in Seq(C) /\ Tail(ts[k]) \in Seq(Seq(C)) /\ ts[k][1] = Head(ts[k])
      /\ Head(ts[m + 1]) = <<>>
      /\ \A k \in 1 .. m :
           /\ txt[k] = "/" => Head(ts[k]) = <<>>
           /\ txt[k] # "/" => /\ Head(ts[k]) = <<txt[k]>> \o Head(ts[k + 1])
                              /\ Tail(ts[k]) = Tail(ts[k + 1])
  BY DEF SegmentsLeft
<1> DEFINE g == <<"*">> \o h
           skipped == Globs!SkippingInside(txt, next)
<1>2. g \in Seq(C) /\ g # Globs!Star
  BY Prepended
<1>3. ASSUME NEW j \in 1 .. m + 1
      PROVE  /\ Globs!PathMatches(<<g>> \o rest, ts[j]) <=>
                  Globs!SegmentMatches(g, Head(ts[j])) /\ Globs!PathMatches(rest, Tail(ts[j]))
             /\ Globs!SegmentMatches(g, Head(ts[j])) <=>
                  \/ Globs!SegmentMatches(h, Head(ts[j]))
                  \/ Head(ts[j]) # <<>> /\ Globs!SegmentMatches(g, Tail(Head(ts[j])))
             /\ j \in next <=>
                  Globs!SegmentMatches(h, Head(ts[j])) /\ Globs!PathMatches(rest, Tail(ts[j]))
  <2> DEFINE t == ts[j]
             u == Head(ts[j])
  <2>1. t \in Seq(Seq(C)) /\ t # <<>> /\ t[1] = u /\ u \in Seq(C)
    BY <1>1
  <2>2. j \in next <=> Globs!PathMatches(<<h>> \o rest, t)
    BY DEF Agrees
  <2> HIDE DEF t, u
  <2>3. Globs!SegmentMatches(g, u) <=>
          Globs!SegmentMatches(h, u) \/ (u # <<>> /\ Globs!SegmentMatches(g, Tail(u)))
    BY <2>1, StarFirst
  <2> HIDE DEF g
  <2>4. Globs!PathMatches(<<g>> \o rest, t) <=>
          t # <<>> /\ Globs!SegmentMatches(g, t[1]) /\ Globs!PathMatches(rest, Tail(t))
    BY <1>2, <2>1, SegmentFirst
  <2>5. Globs!PathMatches(<<h>> \o rest, t) <=>
          t # <<>> /\ Globs!SegmentMatches(h, t[1]) /\ Globs!PathMatches(rest, Tail(t))
    BY <2>1, SegmentFirst
  <2> QED BY <2>1, <2>2, <2>3, <2>4, <2>5 DEF t, u
<1> HIDE DEF g
<1> DEFINE P == {j \in 1 .. m + 1 : j \in skipped <=> Globs!PathMatches(<<g>> \o rest, ts[j])}
<1>4. m + 1 \in P
  <2>1. m + 1 \in 1 .. m + 1 /\ ~ (m + 1 <= m)
    OBVIOUS
  <2>2. m + 1 \in skipped <=> m + 1 \in next
    BY <2>1, SkippingSteps
  <2> QED BY <1>1, <1>3, <2>1, <2>2
<1>5. ASSUME NEW j \in 1 .. m, j + 1 \in P PROVE j \in P
  <2>1. j \in 1 .. m + 1 /\ j + 1 \in 1 .. m + 1 /\ j <= m
    OBVIOUS
  <2>2. j \in skipped <=> j \in next \/ (txt[j] # "/" /\ j + 1 \in skipped)
    BY <2>1, SkippingSteps
  <2>3. CASE txt[j] = "/"
    BY <1>1, <1>3, <2>1, <2>2, <2>3
  <2>4. CASE txt[j] # "/"
    <3> DEFINE u == Head(ts[j + 1])
    <3>1. u \in Seq(C) /\ txt[j] \in C
      BY <1>1, <2>1, ElementOfSeq
    <3>2. Head(ts[j]) = <<txt[j]>> \o u /\ Tail(ts[j]) = Tail(ts[j + 1])
      BY <1>1, <2>4
    <3>3. Head(ts[j]) # <<>> /\ Tail(Head(ts[j])) = u
      <4> DEFINE x == txt[j]
                 v == Head(ts[j])
      <4>1. x \in C /\ u \in Seq(C) /\ v = <<x>> \o u
        BY <3>1, <3>2
      <4> HIDE DEF u, x, v
      <4>2. v # <<>> /\ Tail(v) = u
        BY <4>1, FirstAndRest
      <4> QED BY <4>2 DEF v
    <3>4. j + 1 \in skipped <=> Globs!SegmentMatches(g, u) /\ Globs!PathMatches(rest, Tail(ts[j + 1]))
      BY <1>3, <1>5, <2>1
    <3> HIDE DEF skipped, u
    <3> QED BY <1>3, <2>1, <2>2, <2>4, <3>2, <3>3, <3>4
  <2> QED BY <2>3, <2>4
<1>6. \A j \in 1 .. m + 1 : j \in P
  <2> HIDE DEF P
  <2> QED BY <1>4, <1>5, FromTheEnd
<1> QED BY <1>6 DEF Agrees, g

\* A double star in front of others: what is skipped ends with a slash, if it is anything.
LEMMA DoubleStarAgrees ==
  ASSUME NEW C, Globs!Star \in Seq(C), NEW txt \in Seq(C), NEW m \in Nat, Len(txt) = m,
         NEW ts, SegmentsLeft(ts, txt, m, C),
         NEW rest \in Seq(Seq(C)), rest # <<>>,
         NEW next \in SUBSET (1 .. m + 1), Agrees(next, rest, ts, m)
  PROVE  Agrees(Globs!Skipping(txt, Globs!Taking("/", txt, next)) \cup next,
                <<Globs!Star>> \o rest, ts, m)
<1>1. /\ \A k \in 1 .. m + 1 : ts[k] \in Seq(Seq(C)) /\ ts[k] # <<>>
      /\ Tail(ts[m + 1]) = <<>>
      /\ \A k \in 1 .. m :
           /\ txt[k] = "/" => Tail(ts[k]) = ts[k + 1]
           /\ txt[k] # "/" => Tail(ts[k]) = Tail(ts[k + 1])
  BY DEF SegmentsLeft
<1> DEFINE ps == <<Globs!Star>> \o rest
           slashes == Globs!Taking("/", txt, next)
           skipped == Globs!Skipping(txt, slashes)
<1>2. ps \in Seq(Seq(C)) /\ ps # <<>>
  <2> DEFINE star == Globs!Star
  <2>1. star \in Seq(C)
    OBVIOUS
  <2> HIDE DEF star
  <2>2. <<star>> \o rest \in Seq(Seq(C)) /\ <<star>> \o rest # <<>>
    BY <2>1, Prepended
  <2> QED BY <2>2 DEF star
<1>3. ASSUME NEW j \in 1 .. m + 1
      PROVE  Globs!PathMatches(ps, ts[j]) <=> j \in next \/ Globs!PathMatches(ps, Tail(ts[j]))
  <2> DEFINE t == ts[j]
  <2>1. t \in Seq(Seq(C)) /\ t # <<>> /\ (j \in next <=> Globs!PathMatches(rest, t))
    BY <1>1 DEF Agrees
  <2> HIDE DEF t
  <2>2. Globs!PathMatches(ps, t) <=> Globs!PathMatches(rest, t) \/ Globs!PathMatches(ps, Tail(t))
    BY <2>1, DoubleStarFirst
  <2> QED BY <2>1, <2>2 DEF t
<1> HIDE DEF ps
<1>4. slashes \in SUBSET (1 .. m + 1) /\ slashes \subseteq 1 .. m
  BY DEF Globs!Taking
<1>5. \A j \in 1 .. m : j \in slashes <=> j + 1 \in next /\ txt[j] = "/"
  BY DEF Globs!Taking
<1> HIDE DEF slashes
<1> DEFINE P == {j \in 1 .. m + 1 : j \in skipped <=> Globs!PathMatches(ps, Tail(ts[j]))}
<1>6. m + 1 \in P
  <2>1. m + 1 \in 1 .. m + 1 /\ ~ (m + 1 <= m) /\ m + 1 \notin slashes
    BY <1>4
  <2>2. m + 1 \notin skipped
    BY <1>4, <2>1, SkippingSteps
  <2>3. ~ Globs!PathMatches(ps, Tail(ts[m + 1]))
    BY <1>1, <1>2, NothingIsMatched
  <2> QED BY <2>1, <2>2, <2>3
<1>7. ASSUME NEW j \in 1 .. m, j + 1 \in P PROVE j \in P
  <2>1. j \in 1 .. m + 1 /\ j + 1 \in 1 .. m + 1 /\ j <= m
    OBVIOUS
  <2>2. j \in skipped <=> j \in slashes \/ j + 1 \in skipped
    BY <1>4, <2>1, SkippingSteps
  <2>3. j + 1 \in skipped <=> Globs!PathMatches(ps, Tail(ts[j + 1]))
    BY <1>7
  <2>4. CASE txt[j] = "/"
    <3>1. Tail(ts[j]) = ts[j + 1]
      BY <1>1, <2>4
    <3>2. Globs!PathMatches(ps, ts[j + 1]) <=> j + 1 \in next \/ Globs!PathMatches(ps, Tail(ts[j + 1]))
      BY <1>3, <2>1
    <3>3. j \in slashes <=> j + 1 \in next
      BY <1>5, <2>4
    <3> HIDE DEF skipped
    <3> QED BY <2>1, <2>2, <2>3, <3>1, <3>2, <3>3
  <2>5. CASE txt[j] # "/"
    <3>1. Tail(ts[j]) = Tail(ts[j + 1]) /\ j \notin slashes
      BY <1>1, <1>5, <2>5
    <3> HIDE DEF skipped
    <3> QED BY <2>1, <2>2, <2>3, <3>1
  <2> QED BY <2>4, <2>5
<1>8. \A j \in 1 .. m + 1 : j \in P
  <2> HIDE DEF P
  <2> QED BY <1>6, <1>7, FromTheEnd
<1>9. \A j \in 1 .. m + 1 : j \in skipped \cup next <=> Globs!PathMatches(ps, ts[j])
  <2> HIDE DEF skipped
  <2> QED BY <1>3, <1>8
<1> QED BY <1>9 DEF Agrees, ps, slashes

\* A double star at the end: all of it can be skipped.
LEMMA LastDoubleStarAgrees ==
  ASSUME NEW C, Globs!Star \in Seq(C), NEW txt \in Seq(C), NEW m \in Nat, Len(txt) = m,
         NEW ts, SegmentsLeft(ts, txt, m, C)
  PROVE  Agrees(Globs!Skipping(txt, {m + 1}), <<Globs!Star>>, ts, m)
<1>1. \A k \in 1 .. m + 1 : ts[k] \in Seq(Seq(C)) /\ ts[k] # <<>>
  BY DEF SegmentsLeft
<1>2. ASSUME NEW j \in 1 .. m + 1
      PROVE  j \in Globs!Skipping(txt, {m + 1}) /\ Globs!PathMatches(<<Globs!Star>>, ts[j])
  <2>1. j \in Globs!Skipping(txt, {m + 1})
    <3>1. m + 1 >= j /\ m + 1 \in {m + 1}
      OBVIOUS
    <3> QED BY <3>1 DEF Globs!Skipping
  <2>2. Globs!PathMatches(<<Globs!Star>>, ts[j])
    BY <1>1, DoubleStarLast
  <2> QED BY <2>1, <2>2
<1> QED BY <1>2 DEF Agrees

\* Where the pattern at pi is plain, match_from's places are those the segments say.
AgreeAt(f, ps, ts, pi, m) == Plain(ps[pi]) => Agrees(f[pi], ps[pi], ts, m)

LEMMA AgreeAtEnd ==
  ASSUME NEW C, NEW pat \in Seq(C), NEW n \in Nat, Len(pat) = n,
         NEW txt \in Seq(C), NEW m \in Nat, Len(txt) = m,
         NEW f, MatchedInSteps(f, pat, txt),
         NEW ps, SegmentedInSteps(ps, pat, C), NEW ts, SegmentsLeft(ts, txt, m, C)
  PROVE  AgreeAt(f, ps, ts, n + 1, m)
<1>1. f[n + 1] = {m + 1}
  BY DEF MatchedInSteps
<1>2. ps[n + 1] = <<<<>>>>
  BY DEF SegmentedInSteps
<1>3. ASSUME NEW j \in 1 .. m + 1
      PROVE  j = m + 1 <=> Globs!PathMatches(<<<<>>>>, ts[j])
  <2> DEFINE t == ts[j]
             none == <<>>
             nothing == <<>>
  <2>1. /\ t \in Seq(Seq(C)) /\ t # <<>> /\ t[1] = Head(t) /\ t[1] \in Seq(C) /\ Tail(t) \in Seq(Seq(C))
    BY DEF SegmentsLeft
  <2>2. none \in Seq(C) /\ none # Globs!Star /\ nothing \in Seq(Seq(C)) /\ <<none>> \o nothing = <<<<>>>>
    BY DEF Globs!Star
  <2>3. Globs!SegmentMatches(none, t[1]) <=> t[1] = <<>>
    <3> HIDE DEF t
    <3> QED BY <2>1, EmptySegment
  <2>4. Globs!PathMatches(nothing, Tail(t)) <=> Tail(t) = <<>>
    <3> HIDE DEF t
    <3> QED BY <2>1, EmptyPath
  <2>5. Globs!PathMatches(<<none>> \o nothing, t) <=>
          t # <<>> /\ Globs!SegmentMatches(none, t[1]) /\ Globs!PathMatches(nothing, Tail(t))
    <3> HIDE DEF t, none, nothing
    <3> QED BY <2>1, <2>2, SegmentFirst
  <2>6. Globs!PathMatches(<<<<>>>>, t) <=> Head(t) = <<>> /\ Tail(t) = <<>>
    BY <2>1, <2>2, <2>3, <2>4, <2>5
  <2>7. CASE j = m + 1
    BY <2>6, <2>7 DEF SegmentsLeft
  <2>8. CASE j # m + 1
    <3>1. j \in 1 .. m /\ j + 1 \in 1 .. m + 1
      BY <2>8
    <3>2. CASE txt[j] = "/"
      <4>1. Tail(t) = ts[j + 1] /\ ts[j + 1] # <<>>
        BY <3>1, <3>2 DEF SegmentsLeft
      <4> QED BY <2>6, <2>8, <4>1
    <3>3. CASE txt[j] # "/"
      <4> DEFINE u == Head(ts[j + 1])
                 x == txt[j]
      <4>1. Head(t) = <<x>> \o u /\ u \in Seq(C) /\ x \in C
        BY <3>1, <3>3, ElementOfSeq DEF SegmentsLeft
      <4> HIDE DEF t, u, x
      <4>2. Head(t) # <<>>
        BY <4>1, FirstAndRest
      <4> QED BY <2>6, <2>8, <4>2 DEF t
    <3> QED BY <3>2, <3>3
  <2> QED BY <2>7, <2>8
<1> QED BY <1>1, <1>2, <1>3 DEF AgreeAt, Agrees

LEMMA AgreeAtStep ==
  ASSUME NEW C, NEW pat \in Seq(C), NEW n \in Nat, Len(pat) = n,
         NEW txt \in Seq(C), NEW m \in Nat, Len(txt) = m,
         NEW f, MatchedInSteps(f, pat, txt),
         NEW ps, SegmentsLeft(ps, pat, n, C), ps[n + 1] = <<<<>>>>, NEW ts, SegmentsLeft(ts, txt, m, C),
         NEW pi \in 1 .. n, \A k \in pi + 1 .. n + 1 : AgreeAt(f, ps, ts, k, m)
  PROVE  AgreeAt(f, ps, ts, pi, m)
<1> SUFFICES ASSUME Plain(ps[pi]) PROVE Agrees(f[pi], ps[pi], ts, m)
  BY DEF AgreeAt
<1> DEFINE c == pat[pi]
           h == Head(ps[pi + 1])
           rest == Tail(ps[pi + 1])
           next == f[pi + 1]
<1>1. pi \in 1 .. n + 1 /\ pi + 1 \in 1 .. n + 1 /\ pi + 1 \in pi + 1 .. n + 1 /\ c \in C
  BY ElementOfSeq
<1>2. \A k \in 1 .. n + 1 : f[k] \in SUBSET (1 .. m + 1)
  BY DEF MatchedInSteps
<1>3. /\ h \in Seq(C) /\ rest \in Seq(Seq(C))
      /\ ps[pi + 1] = <<h>> \o rest /\ ps[pi + 1] \in Seq(Seq(C)) /\ ps[pi + 1] # <<>>
  BY <1>1 DEF SegmentsLeft
<1>4. /\ c = "/" => ps[pi] = <<<<>>>> \o ps[pi + 1]
      /\ c # "/" => ps[pi] = <<<<c>> \o h>> \o rest
  <2>1. ps[pi] = <<Head(ps[pi])>> \o Tail(ps[pi])
    BY <1>1 DEF SegmentsLeft
  <2>2. /\ c = "/" => Head(ps[pi]) = <<>> /\ Tail(ps[pi]) = ps[pi + 1]
        /\ c # "/" => Head(ps[pi]) = <<c>> \o h /\ Tail(ps[pi]) = rest
    BY DEF SegmentsLeft
  <2> QED BY <2>1, <2>2
<1>5. AgreeAt(f, ps, ts, pi + 1, m)
  BY <1>1
<1>6. CASE ~ Globs!IsStar(pat, pi) /\ c = "/"
  <2> DEFINE q == ps[pi + 1]
             none == <<>>
  <2>1. none \in Seq(C) /\ q \in Seq(Seq(C)) /\ q # <<>> /\ ps[pi] = <<none>> \o q
    BY <1>3, <1>4, <1>6
  <2>2. f[pi] = Globs!Taking("/", txt, next)
    BY <1>6 DEF MatchedInSteps
  <2> HIDE DEF q
  <2>3. Plain(q)
    <3> HIDE DEF none
    <3>1. Plain(<<none>> \o q)
      BY <2>1
    <3> QED BY <2>1, <3>1, PlainParts
  <2>4. Agrees(next, q, ts, m)
    BY <1>5, <2>3 DEF AgreeAt, q
  <2> HIDE DEF next
  <2>5. Agrees(Globs!Taking("/", txt, next), <<<<>>>> \o q, ts, m)
    BY <2>1, <2>4, SlashAgrees
  <2> QED BY <1>4, <1>6, <2>2, <2>5 DEF q
<1>7. CASE ~ Globs!IsStar(pat, pi) /\ c # "/"
  <2> DEFINE g == <<c>> \o h
  <2>1. c # "*" /\ f[pi] = Globs!Taking(c, txt, next)
    BY <1>7 DEF MatchedInSteps, Globs!IsStar
  <2>2. ps[pi] = <<g>> \o rest
    BY <1>4, <1>7
  <2> HIDE DEF c, h, rest, next
  <2>3. g \in Seq(C) /\ g[1] = c
    BY <1>1, <1>3, Prepended
  <2>4. (g = Globs!Star \/ NoDouble(g)) /\ Plain(rest)
    <3> HIDE DEF g
    <3> QED BY <1>3, <2>2, <2>3, PlainParts
  <2>5. g # Globs!Star
    <3>1. Globs!Star[1] = "*"
      BY DEF Globs!Star
    <3> HIDE DEF g
    <3> QED BY <2>1, <2>3, <3>1
  <2>6. NoDouble(h) /\ h # Globs!Star
    BY <1>1, <1>3, <2>4, <2>5, NoDoubleBehind
  <2>7. Plain(<<h>> \o rest)
    BY <1>3, <2>4, <2>6, PlainAgain
  <2>8. Agrees(next, <<h>> \o rest, ts, m)
    BY <1>3, <1>5, <2>7 DEF AgreeAt, next
  <2>9. Agrees(Globs!Taking(c, txt, next), <<<<c>> \o h>> \o rest, ts, m)
    BY <1>1, <1>3, <1>7, <2>1, <2>5, <2>6, <2>8, CharacterAgrees
  <2> QED BY <2>1, <2>2, <2>9
<1>8. CASE Globs!IsStar(pat, pi) /\ ~ Globs!IsDouble(pat, pi)
  <2> DEFINE g == <<"*">> \o h
  <2>1. c = "*" /\ c # "/" /\ f[pi] = Globs!SkippingInside(txt, next) /\ "*" \in C
    BY <1>1, <1>8 DEF MatchedInSteps, Globs!IsStar
  <2>2. ps[pi] = <<g>> \o rest
    BY <1>4, <2>1
  <2>3. h = <<>> \/ (h # <<>> /\ h[1] # "*")
    <3>1. CASE pi + 1 = n + 1
      BY <3>1 DEF SegmentsLeft
    <3>2. CASE pi + 1 # n + 1
      <4>1. pi + 1 \in 1 .. n /\ (pi + 1) + 1 \in 1 .. n + 1
        BY <3>2
      <4>2. pat[pi + 1] # "*"
        BY <1>8, <4>1 DEF Globs!IsDouble, Globs!IsStar
      <4>3. CASE pat[pi + 1] = "/"
        BY <4>1, <4>3 DEF SegmentsLeft
      <4>4. CASE pat[pi + 1] # "/"
        <5> DEFINE x == pat[pi + 1]
                   u == Head(ps[(pi + 1) + 1])
        <5>1. h = <<x>> \o u /\ x \in C /\ u \in Seq(C)
          BY <4>1, <4>4, ElementOfSeq DEF SegmentsLeft
        <5>2. x # "*"
          BY <4>2
        <5> HIDE DEF x, u, h
        <5>3. h # <<>> /\ h[1] = x
          BY <5>1, FirstAndRest
        <5> QED BY <5>2, <5>3
      <4> QED BY <4>3, <4>4
    <3> QED BY <3>1, <3>2
  <2> HIDE DEF c, h, rest, next
  <2>4. g \in Seq(C) /\ h # Globs!Star
    BY <1>3, <2>1, <2>3, Prepended DEF Globs!Star
  <2>5. g # Globs!Star
    <3>1. Len(h) \in Nat /\ Len(g) = Len(h) + 1 /\ \A k \in 1 .. Len(h) : g[k + 1] = h[k]
      BY <1>3, <2>1, Prepended
    <3>2. CASE h = <<>>
      <4>1. Len(g) = 1
        BY <3>1, <3>2
      <4> DEFINE star == Globs!Star
      <4>2. Len(star) # 1
        BY DEF Globs!Star
      <4> HIDE DEF g, star
      <4>3. g # star
        BY <4>1, <4>2
      <4> QED BY <4>3 DEF star
    <3>3. CASE h # <<>> /\ h[1] # "*"
      <4>1. 1 \in 1 .. Len(h) /\ 1 + 1 = 2
        BY <1>3, <3>1, <3>3, EmptySeq
      <4>2. g[2] # "*"
        BY <3>1, <3>3, <4>1
      <4> HIDE DEF g
      <4> QED BY <4>2 DEF Globs!Star
    <3> QED BY <2>3, <3>2, <3>3
  <2>6. (g = Globs!Star \/ NoDouble(g)) /\ Plain(rest)
    <3> HIDE DEF g
    <3> QED BY <1>3, <2>2, <2>4, PlainParts
  <2>7. NoDouble(h)
    <3> DEFINE star == "*"
    <3>1. star \in C /\ NoDouble(<<star>> \o h)
      BY <2>1, <2>5, <2>6
    <3> HIDE DEF star
    <3> QED BY <1>3, <3>1, NoDoubleBehind
  <2>8. Plain(<<h>> \o rest)
    BY <1>3, <2>6, <2>7, PlainAgain
  <2>9. Agrees(next, <<h>> \o rest, ts, m)
    BY <1>3, <1>5, <2>8 DEF AgreeAt, next
  <2>10. next \in SUBSET (1 .. m + 1)
    BY <1>1, <1>2 DEF next
  <2>11. Agrees(Globs!SkippingInside(txt, next), <<<<"*">> \o h>> \o rest, ts, m)
    BY <1>3, <2>1, <2>4, <2>5, <2>9, <2>10, StarAgrees
  <2> QED BY <2>1, <2>2, <2>11
<1>9. CASE Globs!IsDouble(pat, pi)
  <2>1. /\ pi + 1 \in 1 .. n /\ (pi + 1) + 1 = pi + 2 /\ pi + 2 \in 1 .. n + 1 /\ pi + 2 \in pi + 1 .. n + 1
        /\ c = "*" /\ pat[pi + 1] = "*"
    BY <1>9 DEF Globs!IsDouble, Globs!IsStar
  <2>2. "*" \in C /\ "*" # "/" /\ Globs!Star \in Seq(C)
    <3>1. "*" \in C
      BY <1>1, <2>1
    <3> QED BY <3>1 DEF Globs!Star
  <2> DEFINE v == Head(ps[pi + 2])
             more == Tail(ps[pi + 2])
             g == <<"*">> \o h
  <2>3. h = <<"*">> \o v /\ rest = more /\ v \in Seq(C) /\ more \in Seq(Seq(C))
    BY <2>1, <2>2 DEF SegmentsLeft
  <2>4. ps[pi] = <<g>> \o more
    BY <1>4, <2>1, <2>2, <2>3
  <2>5. f[pi] = Globs!Skipping(txt, f[pi + 2])
                \cup (IF Globs!MayBeNone(pat, pi) THEN f[pi + 3] ELSE {})
    BY <1>9 DEF MatchedInSteps
  <2> HIDE DEF c, h, rest, next, v, more
  <2>6. /\ g \in Seq(C) /\ Len(v) \in Nat /\ Len(g) = Len(v) + 2 /\ g[1] = "*" /\ g[2] = "*"
    <3>1. h \in Seq(C) /\ Len(v) \in Nat /\ Len(h) = Len(v) + 1 /\ h[1] = "*"
      BY <2>2, <2>3, Prepended
    <3>2. /\ g \in Seq(C) /\ Len(g) = Len(h) + 1 /\ g[1] = "*" 
          /\ \A k \in 1 .. Len(h) : g[k + 1] = h[k]
      BY <2>2, <3>1, Prepended
    <3>3. 1 \in 1 .. Len(h) /\ 1 + 1 = 2
      BY <3>1
    <3> HIDE DEF g
    <3> QED BY <3>1, <3>2, <3>3
  <2> HIDE DEF g
  <2>7. (g = Globs!Star \/ NoDouble(g)) /\ Plain(more)
    BY <2>3, <2>4, <2>6, PlainParts
  <2>8. ~ NoDouble(g)
    <3>1. 1 \in DOMAIN g
      BY <2>6, LenProperties
    <3>2. Globs!IsDouble(g, 1)
      BY <2>6 DEF Globs!IsDouble, Globs!IsStar
    <3> QED BY <3>1, <3>2 DEF NoDouble
  <2>9. g = Globs!Star /\ v = <<>>
    <3>1. Len(Globs!Star) = 2
      BY DEF Globs!Star
    <3>2. g = Globs!Star
      BY <2>7, <2>8
    <3>3. Len(v) + 2 = 2 /\ Len(v) \in Nat
      BY <2>6, <3>1, <3>2
    <3>4. Len(v) = 0
      BY <3>3
    <3> QED BY <2>3, <3>2, <3>4, EmptySeq
  <2>10. CASE pi + 2 = n + 1
    <3>1. more = <<>> /\ f[pi + 2] = {m + 1} /\ ~ Globs!MayBeNone(pat, pi)
      <4>1. more = <<>>
        BY <2>10 DEF SegmentsLeft, more
      <4>2. f[pi + 2] = {m + 1}
        BY <2>10 DEF MatchedInSteps
      <4>3. ~ (pi + 2 <= Len(pat))
        BY <2>10
      <4> QED BY <4>1, <4>2, <4>3 DEF Globs!MayBeNone
    <3>2. ps[pi] = <<Globs!Star>>
      BY <2>4, <2>6, <2>9, <3>1
    <3>3. f[pi] = Globs!Skipping(txt, {m + 1})
      BY <2>5, <3>1
    <3>4. Agrees(Globs!Skipping(txt, {m + 1}), <<Globs!Star>>, ts, m)
      BY <2>2, LastDoubleStarAgrees
    <3> QED BY <3>2, <3>3, <3>4
  <2>11. CASE pi + 2 # n + 1
    <3>1. pi + 2 \in 1 .. n /\ (pi + 2) + 1 = pi + 3 /\ pi + 3 \in 1 .. n + 1 /\ pi + 3 \in pi + 1 .. n + 1
          /\ pi + 2 <= Len(pat)
      BY <2>1, <2>11
    <3>2. pat[pi + 2] = "/"
      <4> SUFFICES ASSUME pat[pi + 2] # "/" PROVE FALSE
        OBVIOUS
      <4> DEFINE x == pat[pi + 2]
                 u == Head(ps[pi + 3])
      <4>1. v = <<x>> \o u /\ x \in C /\ u \in Seq(C)
        BY <3>1, ElementOfSeq DEF SegmentsLeft, v
      <4> HIDE DEF x, u
      <4>2. v # <<>>
        BY <4>1, FirstAndRest
      <4> QED BY <2>9, <4>2
    <3> DEFINE q == ps[pi + 3]
               places == f[pi + 3]
    <3>3. /\ more = q /\ q \in Seq(Seq(C)) /\ q # <<>>
      BY <3>1, <3>2 DEF SegmentsLeft, more
    <3>4. f[pi + 2] = Globs!Taking("/", txt, places)
      <4>1. ~ Globs!IsStar(pat, pi + 2)
        BY <3>2 DEF Globs!IsStar
      <4> QED BY <3>1, <3>2, <4>1 DEF MatchedInSteps
    <3>5. Globs!MayBeNone(pat, pi)
      BY <3>1, <3>2 DEF Globs!MayBeNone
    <3>6. Agrees(places, q, ts, m) /\ places \in SUBSET (1 .. m + 1)
      BY <1>2, <2>7, <3>1, <3>3 DEF AgreeAt
    <3>7. f[pi] = Globs!Skipping(txt, Globs!Taking("/", txt, places)) \cup places
      BY <2>5, <3>4, <3>5
    <3>8. ps[pi] = <<Globs!Star>> \o q
      BY <2>4, <2>9, <3>3
    <3> HIDE DEF q, places
    <3>9. Agrees(Globs!Skipping(txt, Globs!Taking("/", txt, places)) \cup places,
                 <<Globs!Star>> \o q, ts, m)
      BY <2>2, <3>3, <3>6, DoubleStarAgrees
    <3> QED BY <3>7, <3>8, <3>9
  <2> QED BY <2>10, <2>11
<1> QED BY <1>6, <1>7, <1>8, <1>9

\* A plain pattern matches, character by character, what it says segment by segment.
LEMMA MatchesAreLaid ==
  ASSUME NEW C, NEW pat \in Seq(C), NEW txt \in Seq(C), Plain(Globs!Segments(pat))
  PROVE  Globs!MatchFrom(pat, txt) <=>
           Globs!PathMatches(Globs!Segments(pat), Globs!Segments(txt))
<1> DEFINE n == Len(pat)
           m == Len(txt)
<1>1. n \in Nat /\ m \in Nat
  BY LenProperties
<1>2. PICK f : MatchedInSteps(f, pat, txt)
  BY MatchFromSteps
<1>3. PICK ps : SegmentedInSteps(ps, pat, C)
  BY SegmentsSteps
<1>4. PICK ts : SegmentedInSteps(ts, txt, C)
  BY SegmentsSteps
<1>5. SegmentsLeft(ps, pat, n, C) /\ SegmentsLeft(ts, txt, m, C)
  BY <1>3, <1>4, SegmentsOfRest
<1>6. ps[n + 1] = <<<<>>>> /\ ps[1] = Globs!Segments(pat) /\ ts[1] = Globs!Segments(txt)
      /\ (Globs!MatchFrom(pat, txt) <=> 1 \in f[1])
  BY <1>2, <1>3, <1>4 DEF SegmentedInSteps, MatchedInSteps
<1>7. Len(pat) = n /\ Len(txt) = m
  OBVIOUS
<1> HIDE DEF n, m
<1> DEFINE P == {pi \in 1 .. n + 1 : \A k \in pi .. n + 1 : AgreeAt(f, ps, ts, k, m)}
<1>8. n + 1 \in P
  <2>1. AgreeAt(f, ps, ts, n + 1, m)
    BY <1>1, <1>2, <1>3, <1>5, <1>7, AgreeAtEnd
  <2>2. n + 1 \in 1 .. n + 1 /\ \A k \in n + 1 .. n + 1 : k = n + 1
    BY <1>1
  <2> QED BY <2>1, <2>2
<1>9. ASSUME NEW pi \in 1 .. n, pi + 1 \in P PROVE pi \in P
  <2>1. AgreeAt(f, ps, ts, pi, m)
    BY <1>1, <1>2, <1>5, <1>6, <1>7, <1>9, AgreeAtStep
  <2>2. pi \in 1 .. n + 1 /\ \A k \in pi .. n + 1 : k = pi \/ k \in pi + 1 .. n + 1
    BY <1>1
  <2> QED BY <1>9, <2>1, <2>2
<1>10. \A pi \in 1 .. n + 1 : pi \in P
  <2> HIDE DEF P
  <2> QED BY <1>1, <1>8, <1>9, FromTheEnd
<1>11. Agrees(f[1], ps[1], ts, m)
  <2>1. 1 \in P /\ 1 \in 1 .. n + 1
    <3> HIDE DEF P
    <3> QED BY <1>1, <1>10
  <2> QED BY <1>6, <2>1 DEF AgreeAt
<1>12. 1 \in 1 .. m + 1
  BY <1>1
<1> QED BY <1>6, <1>11, <1>12 DEF Agrees

\* What check_scope says of plain patterns, for every patch and every scope.
LEMMA ScopeByPaths ==
  ASSUME NEW C, NEW changed \in SUBSET Seq(C), NEW allowed \in SUBSET Seq(C)
  PROVE  Globs!ScopeIsPathwise(changed, allowed)
<1> SUFFICES ASSUME \A p \in allowed : Globs!IsPlain(p)
             PROVE  Globs!CheckScope(changed, allowed) <=>
                      \/ allowed = {}
                      \/ \A f \in changed : \E p \in allowed :
                           Globs!PathMatches(Globs!Segments(p), Globs!Segments(f))
  BY DEF Globs!ScopeIsPathwise
<1>1. ASSUME NEW p \in allowed, NEW f \in changed
      PROVE  Globs!MatchFrom(p, f) <=> Globs!PathMatches(Globs!Segments(p), Globs!Segments(f))
  <2>1. Globs!IsPlain(p)
    OBVIOUS
  <2>2. Plain(Globs!Segments(p))
    BY <2>1 DEF Globs!IsPlain, Plain, NoDouble
  <2>3. p \in Seq(C) /\ f \in Seq(C)
    OBVIOUS
  <2> QED BY <2>2, <2>3, MatchesAreLaid
<1>2. Globs!CheckScope(changed, allowed) <=>
        allowed = {} \/ \A f \in changed : \E p \in allowed : Globs!MatchFrom(p, f)
  BY DEF Globs!CheckScope, Globs!MatchesAny
<1> QED BY <1>1, <1>2

\* What the gate lets pass lies where the planner's patterns say, for every pattern and path
\* there may be (match_from, check_scope).
THEOREM ScopeIsAlwaysPathwise == Spec => []ScopeIsPathwise
<1>1. PickedRight => ScopeIsPathwise
  <2> SUFFICES ASSUME PickedRight, probe.about = "scope"
               PROVE  Globs!ScopeIsPathwise(probe.input.changed, probe.input.allowed)
    BY DEF ScopeIsPathwise
  <2> DEFINE changed == probe.input.changed
             allowed == probe.input.allowed
  <2>1. changed \in SUBSET Seq(Characters) /\ allowed \in SUBSET Seq(Characters)
    BY ScopingsAssumption DEF PickedRight
  <2>2. Globs!ScopeIsPathwise(changed, allowed)
    <3> HIDE DEF changed, allowed
    <3> QED BY <2>1, ScopeByPaths
  <2> QED BY <2>2
<1> QED BY <1>1, InputsArePicked, PTL
=============================================================================
