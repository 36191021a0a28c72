------------------------------- MODULE Forges --------------------------------
(***************************************************************************)
(* What the deliveries of three kinds of forge mean (gitai-forge, and      *)
(* decide in gitai-server): somebody does something to an issue, the forge *)
(* reports it in words of its own, the adapter of that forge reads the     *)
(* report, and the server decides whether to start, to stop, to explain    *)
(* itself or to do nothing.                                                *)
(*                                                                         *)
(* An act has an author, a kind and what it is about; the thing it is done *)
(* to has an author and labels, and is an issue or a pull request.  What a *)
(* forge sends is external and taken from what the adapters read.          *)
(***************************************************************************)
EXTENDS Integers, Sequences

CONSTANTS Labels, Bot, None

\* A forge the server is configured for: its adapter, trigger_label, and whether bot_login is set.
Configured ==
  [kind : {"github", "gitea", "gitlab"}, trigger : Labels \cup {None}, login : BOOLEAN]

\* What a forge says of an issue or a pull request, which may be anybody's, and the bot's.
Issues(people) == [author : people, labels : SUBSET Labels, pr : BOOLEAN]

Texts == {"start", "stop", "help", "chatter"}

\* What somebody may do to an issue. The bot comments, and opens and labels pull requests.
Acts(issue, who) ==
  {[by |-> who, kind |-> k] : k \in {"edit", "close"} \cup IF who = issue.author THEN {"open"} ELSE {}}
  \cup {[by |-> who, kind |-> k, text |-> t] : k \in {"comment", "reword"}, t \in Texts}
  \cup IF who = Bot /\ ~ issue.pr THEN {}
       ELSE {[by |-> who, kind |-> "label", label |-> l] : l \in Labels \ issue.labels}
            \cup {[by |-> who, kind |-> "unlabel", label |-> l] : l \in issue.labels}

\* What the act leaves behind: the labels of the issue.
After(issue, act) ==
  CASE act.kind = "label"   -> [issue EXCEPT !.labels = @ \cup {act.label}]
    [] act.kind = "unlabel" -> [issue EXCEPT !.labels = @ \ {act.label}]
    [] OTHER -> issue

-----------------------------------------------------------------------------
(* The report (external) *)

IsComment(act) == act.kind \in {"comment", "reword"}

\* Labels and edits of pull requests come as events of another kind.
Action(forge, act) ==
  CASE act.kind = "open" -> "opened"
    [] act.kind = "close" -> "closed"
    [] act.kind = "edit" -> "edited"
    [] act.kind = "comment" -> "created"
    [] act.kind = "reword" -> "edited"
    [] act.kind \in {"label", "unlabel"} ->
         IF forge.kind = "gitea" THEN "label_updated"
         ELSE IF act.kind = "label" THEN "labeled" ELSE "unlabeled"

\* GitHub and Gitea: the body of an IssueEvent, with the X-...-Event header.
IssueEvent(forge, issue, act) ==
  [event |-> IF IsComment(act) THEN "issue_comment" ELSE IF issue.pr THEN "pull_request" ELSE "issues",
   action |-> Action(forge, act), issue |-> After(issue, act), act |-> act]

\* GitLab: the body of an issue hook or of a note hook, with the labels before and after.
HookBody(issue, act) ==
  [kind |-> IF IsComment(act) THEN "note" ELSE IF issue.pr THEN "merge_request" ELSE "issue",
   action |-> IF act.kind \in {"open", "close"} THEN act.kind ELSE "update",
   before |-> issue.labels, issue |-> After(issue, act), act |-> act]

-----------------------------------------------------------------------------
(* Reading it *)

Ignored == [type |-> "ignored"]
Opened(issue) == [type |-> "opened", labels |-> issue.labels]
Labeled(label) == [type |-> "labeled", label |-> label]
Comment(act) == [type |-> "comment", text |-> act.text]

IsBot(forge, who) == forge.login /\ who = Bot

IsIssue(ev) == ~ ev.issue.pr /\ ev.event \in {"issues", "issue_comment"}

Read(forge, ev) ==
  CASE ev.event = "issue_comment" -> Comment(ev.act)
    [] ev.action = "opened" -> Opened(ev.issue)
    [] ev.action = "labeled" -> Labeled(ev.act.label)
    [] ev.action = "label_updated" /\ forge.trigger \in ev.issue.labels -> Labeled(forge.trigger)
    [] OTHER -> Ignored

\* Mutant of MapIssueEvent: a comment is read whatever was done to it.
MapIssueEventOfAnyComment(forge, ev) ==
  IF ~ IsIssue(ev) \/ IsBot(forge, IF ev.event = "issues" THEN ev.issue.author ELSE ev.act.by)
  THEN Ignored ELSE Read(forge, ev)

\* Mutant of MapIssueEvent: what happens to issues of the bot is the bot's own noise.
MapIssueEventByAuthor(forge, ev) ==
  IF \/ ~ IsIssue(ev)
     \/ IsBot(forge, ev.issue.author)
     \/ ev.event = "issue_comment" /\ ev.action # "created"
  THEN Ignored ELSE Read(forge, ev)

\* map_issue_event: a comment is the bot's if the bot wrote it, all else if the issue is.
MapIssueEvent(forge, ev) ==
  IF \/ ~ IsIssue(ev)
     \/ ev.event = "issues" /\ IsBot(forge, ev.issue.author)
     \/ ev.event = "issue_comment" /\ (IsBot(forge, ev.act.by) \/ ev.action # "created")
  THEN Ignored ELSE Read(forge, ev)

\* interpret: a label counts if it was not there before, whoever the issue is by; nothing
\* the bot did counts.
Interpret(forge, body) ==
  LET added == body.issue.labels \ body.before
      wanted == {l \in added : forge.trigger \in {None, l}}
  IN  IF IsBot(forge, body.act.by) THEN Ignored
      ELSE CASE body.kind = "note" /\ ~ body.issue.pr -> Comment(body.act)
             [] body.kind = "issue" /\ body.action = "open" -> Opened(body.issue)
             [] body.kind = "issue" /\ body.action = "update" /\ wanted # {} ->
                  Labeled(CHOOSE l \in wanted : TRUE)
             [] OTHER -> Ignored

\* parse_webhook
Parse(forge, issue, act) ==
  IF forge.kind = "gitlab" THEN Interpret(forge, HookBody(issue, act))
  ELSE MapIssueEvent(forge, IssueEvent(forge, issue, act))

-----------------------------------------------------------------------------
(* decide *)

\* Commands are looked for in every line, with help before stop before start.
Decide(forge, event) ==
  CASE event.type = "opened" -> IF forge.trigger \in event.labels \cup {None} THEN "start" ELSE "ignore"
    [] event.type = "labeled" -> IF forge.trigger \in {event.label, None} THEN "start" ELSE "ignore"
    [] event.type = "comment" -> IF event.text = "chatter" THEN "ignore" ELSE event.text
    [] event.type = "ignored" -> "ignore"

Answer(forge, issue, act) == Decide(forge, Parse(forge, issue, act))

-----------------------------------------------------------------------------
(* What people mean *)

\* A person asks for work: with a labelled issue, with the label, or with a command.
Asks(forge, issue, act) ==
  /\ act.by # Bot /\ ~ issue.pr
  /\ \/ act.kind = "open" /\ forge.trigger \in issue.labels \cup {None}
     \/ act.kind = "label" /\ forge.trigger \in {act.label, None}
     \/ act.kind = "comment" /\ act.text = "start"

\* A start was asked for. But Gitea names no label, so that any change of the labels counts
\* while the trigger is among them; GitLab reports a comment that was reworded like a new
\* one; and a bot without a login is a person.
StartsAreAskedFor(forge, issue, act) ==
  Answer(forge, issue, act) = "start" =>
    \/ Asks(forge, issue, act)
    \/ forge.kind = "gitea" /\ act.kind \in {"label", "unlabel"} /\ forge.trigger \in issue.labels
    \/ forge.kind = "gitlab" /\ act.kind = "reword" /\ act.text = "start" /\ ~ issue.pr
    \/ ~ forge.login /\ act.by = Bot

\* Who asks is heard, and who says stop is, on every forge. But issues of the bot are started
\* by command only on GitHub and Gitea, and Gitea needs a trigger to hear of labels.
AsksAreHeard(forge, issue, act) ==
  /\ Asks(forge, issue, act) =>
       \/ Answer(forge, issue, act) = "start"
       \/ forge.kind # "gitlab" /\ IsBot(forge, issue.author) /\ ~ IsComment(act)
       \/ forge.kind = "gitea" /\ forge.trigger = None /\ act.kind = "label"
  /\ act.kind = "comment" /\ act.text = "stop" /\ ~ issue.pr /\ ~ IsBot(forge, act.by) =>
       Answer(forge, issue, act) = "stop"
=============================================================================
