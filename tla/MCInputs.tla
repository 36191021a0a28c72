------------------------------ MODULE MCInputs -------------------------------
(***************************************************************************)
(* The inputs that the pure parts of gitai are checked on, and one part    *)
(* more: the answers of models, which are parsed recursively.              *)
(***************************************************************************)
EXTENDS Inputs, TLC

Json(Checks) == INSTANCE Answers

Upto(S, n) == UNION {[1 .. k -> S] : k \in 0 .. n}

-----------------------------------------------------------------------------
(* Texts around an answer, and answers as they are written and as they are meant *)

Quote == "quote"

Befores == {
  <<>>, <<"x", "newline">>, <<Quote, "x", " ">>, <<"[", "x", "]", " ">>, <<"{", " ">>,
  <<"}", " ">>, <<"wide", Quote, "x", Quote>>, <<"{", "x", "}">>, <<"{", "]", " ">>}

Afters == {
  <<>>, <<" ", "x">>, <<"}">>, <<"{", "}">>, <<Quote>>, <<"fence">>, <<" ", "[", "x", "]">>,
  <<"{", "]", "}">>}

\* A member with a value, in the braces of an object.
Object(value) == <<"{", Quote, "n", Quote, ":">> \o value \o <<"}">>
Text(symbols) == <<Quote>> \o symbols \o <<Quote>>

Written == {
  [says |-> Object(<<"x">>), means |-> Object(<<"x">>)],
  [says |-> Object(<<"x", ",", "newline">>), means |-> Object(<<"x", "newline">>)],
  [says |-> Object(Text(<<"newline">>)), means |-> Object(Text(<<"backslash", "n">>))],
  [says |-> Object(Text(<<"backslash", Quote, "}">>)),
   means |-> Object(Text(<<"backslash", Quote, "}">>))],
  [says |-> Object(Text(<<"fence">>)), means |-> Object(Text(<<"fence">>))],
  [says |-> Object(<<"[", "{", "}", ",", "]", ",">>), means |-> Object(<<"[", "{", "}", "]">>)],
  [says |-> Object(Text(<<"]", "{">>)), means |-> Object(Text(<<"]", "{">>))],
  [says |-> Object(Text(<<"backslash", "wide">>)), means |-> <<>>],
  [says |-> Object(Text(<<"backslash", "newline">>)), means |-> <<>>]}

Fenced == {[open |-> <<>>, close |-> <<>>],
           [open |-> <<"fence", "x", "newline">>, close |-> <<"newline", "fence">>]}

ReadAnswer ==
  /\ To("answer")
  /\ \E before \in Befores, after \in Afters, w \in Written, f \in Fenced, checks \in BOOLEAN :
       probe' = [about |-> "answer", checks |-> checks, before |-> before \o f.open,
                 says |-> w.says, means |-> w.means, after |-> f.close \o after]

IsWellRead(p, outcome) ==
  /\ Json(p.checks)!AnswerIsFound(p.before, p.says, p.means, p.after, outcome)
  /\ Json(p.checks)!PanicHasACause(p.before \o p.says \o p.after, outcome)

\* An answer is found in whatever surrounds it, by the release build and by the debug build,
\* and only what is known to make the parser panic does (parse_json, extract_json).
AnswersAreFound ==
  probe.about = "answer" =>
    IsWellRead(probe, Json(probe.checks)!ParseJson(probe.before \o probe.says \o probe.after))

-----------------------------------------------------------------------------
(* Web search: pages of one or two links *)

Link(page, tracked) ==
  [page |-> page, tracked |-> tracked, address |-> "absolute", titled |-> TRUE,
   cut |-> "clean", tail |-> "clean"]

MCSites == {"p", "q", "r", "s"}
Links == {Link("p", FALSE), Link("p", TRUE), Link("q", FALSE),
          [Link("r", TRUE) EXCEPT !.address = "other"], [Link("q", FALSE) EXCEPT !.address = "empty"],
          [Link("s", FALSE) EXCEPT !.titled = FALSE]}

Page(style, links) == [style |-> style, links |-> links]

\* What the three requests of a query may be answered with.
Answered ==
  {Web!Failed, Page("html", <<>>), Page("html", <<Link("p", TRUE), Link("q", FALSE)>>),
   Page("lite", <<[Link("s", FALSE) EXCEPT !.titled = FALSE], Link("p", TRUE)>>),
   Page("lite", <<[Link("q", TRUE) EXCEPT !.cut = "wide"]>>),
   Page("lite", <<Link("p", FALSE), [Link("q", TRUE) EXCEPT !.cut = "ends"]>>),
   Page("html", <<[Link("s", FALSE) EXCEPT !.titled = FALSE, !.cut = "ends", !.tail = "ends"]>>),
   Page("redirects", <<Link("p", TRUE), Link("p", FALSE)>>)}

OneService == [provider : {"json", "none"}, keyed : BOOLEAN, max : {2}]
MCSearches ==
  {[engine  |-> [provider |-> "duckduckgo", keyed |-> FALSE, max |-> max],
    queries |-> <<<<a, b, c>>, <<again, again, again>>>>] :
     a, b, c, again \in Answered, max \in 0 .. 2}
  \cup {[engine |-> engine, queries |-> <<<<Page("json", one)>>, <<Web!Failed>>, <<Page("json", two)>>>>] :
          one, two \in Upto(Links, 2), engine \in OneService}

-----------------------------------------------------------------------------
(* Deliveries of three forges *)

MCLabels == {"gitai", "bug"}
MCPeople == {Bot, "ann", "ben"}
AllDeliveries ==
  UNION {{[forge |-> forge, issue |-> issue, act |-> act] : act \in Forge!Acts(issue, who)} :
           who \in MCPeople, issue \in Forge!Issues({Bot, "ann"}), forge \in Forge!Configured}
\* A trigger label is one that is meant to start work.
MCDeliveries == {d \in AllDeliveries : d.forge.trigger # "bug"}

-----------------------------------------------------------------------------
(* Reviews of two attempts, and configurations *)

MCProviders == {"p", "q"}
MCNames == {"m", "n"}

Reviews ==
  {[failed |-> FALSE, verdict |-> [approved |-> a, score |-> s, blocking |-> b], size |-> z] :
     a \in BOOLEAN, b \in BOOLEAN, s \in {0, 60, 61, 100, 150}, z \in {1, 2}}
  \cup [failed : {TRUE}, size : {1, 2}]
MCRounds == Upto(Reviews, 2) \ {<<>>}

SomeConfigs ==
  [providers : SUBSET MCProviders,
   models    : UNION {[S -> [provider : MCProviders, hasId : BOOLEAN]] : S \in SUBSET MCNames},
   roles     : {[r \in Models!SingleRoles |-> IF r = "editor" THEN m ELSE "m"] : m \in MCNames},
   worker    : Upto(MCNames, 3),
   forges    : SUBSET {"with base_url", "without base_url"}]
MCLoads == [cfg : SomeConfigs, attempts : 1 .. 4]

-----------------------------------------------------------------------------
(* Windows of models, files and diffs *)

Windows == {900, 2000, 3633, 3634, 4096, 8192, 12306, 12307, 16384, 32768, 128000, 200000, 1000000}

\* Fourteen paths; the files have sizes around the limits of the smaller windows.
MCPaths == 1 .. 14
Small == [is |-> "text", bytes |-> 350, width |-> 1]
Large(width) == [is |-> "text", bytes |-> 200001, width |-> width]
Kinds == {Small, Large(1), Large(3), [is |-> "missing"], [is |-> "binary"]}

Checkouts == {[f \in MCPaths |-> IF f % 5 = 1 THEN k ELSE IF f % 5 \in {2, 3} THEN l ELSE Small] :
                k \in Kinds, l \in Kinds}
Asked == {<<>>, <<1>>, <<2, 1>>, <<4, 4, 9>>, [n \in MCPaths |-> n], [n \in MCPaths |-> 15 - n]}

MCRequests ==
  [ws : Checkouts, window : {900, 8192, 128000}, relevant : Asked, turns : Upto(Asked, 2)]
MCDiffs ==
  [worker : Windows, reader : Windows, bytes : {0, 3999, 4000, 4053, 50000, 120001, 900000}]

-----------------------------------------------------------------------------
(* Patterns and paths of up to five characters *)

Path == {s \in Upto({"a", "b", "/"}, 4) :
           s # <<>> /\ \A k \in DOMAIN s : s[k] = "/" => 1 < k /\ k < Len(s) /\ s[k + 1] # "/"}
DoubleStar == <<"*", "*">>
Patterns == Upto({"a", "*", "/", "?"}, 4)
  \cup {DoubleStar \o <<"/">> \o s : s \in Upto({"a", "*", "/"}, 2)}
  \cup {<<"a", "/">> \o DoubleStar \o <<"/">> \o s : s \in Upto({"a", "*"}, 2)}

SomePatterns == {<<"a">>, <<"*">>, <<"a", "/">> \o DoubleStar, DoubleStar \o <<"/", "b">>}
SomePaths == {<<"a">>, <<"b">>, <<"a", "/", "a">>, <<"a", "/", "b">>}

MCCharacters == {"a", "b", "/", "*", "?"}
MCScopings ==
  {[changed |-> {f}, allowed |-> {p}] : f \in Path, p \in Patterns}
  \cup [changed : SUBSET SomePaths, allowed : SUBSET SomePatterns]

-----------------------------------------------------------------------------
(* Edits *)

MCBinary == <<"binary">>
MCParts == {"t", "i", "d", "u", ".", ".."}
MCSymbols == {"a", "b"}

\* A checkout with a text, a binary file, and a directory with a text.
Checkout ==
  [files |-> (<<"t">> :> <<"a", "b", "a">>) @@ (<<"i">> :> MCBinary) @@ (<<"d", "t">> :> <<"a", "a", "a">>),
   dirs |-> {<<>>, <<"d">>}]

Targets == {<<"t">>, <<".", "t">>, <<"d">>, <<"d", "t">>, <<"t", "u">>, <<"i">>, <<"..", "t">>}
EditsAt(path) ==
  {[op |-> "write", path |-> path, content |-> <<"b", "b">>], [op |-> "delete", path |-> path]}
  \cup {[op |-> "replace", path |-> path, find |-> find, with |-> <<"b">>, all |-> all] :
          find \in {<<>>, <<"a">>, <<"a", "a">>, <<"b">>}, all \in BOOLEAN}
EditsAtAll(paths) == UNION {EditsAt(path) : path \in paths}

MCEditLists ==
  [ws : {Checkout},
   edits : Upto(EditsAtAll(Targets), 2) \cup [1 .. 3 -> EditsAtAll({<<"t">>, <<"t", "u">>})]]

-----------------------------------------------------------------------------
(* What an attempt is judged with: lists of commands of three sources *)

MCCommands == {"server", "toml", "planner"} \X Tools!Kinds \X (1 .. 2)
MCImages == {None, "of toml", "of the planner"}

\* One command of a kind, and two for the tests.
Listing(source, kinds) ==
  [k \in Tools!Kinds |->
     IF k \notin kinds THEN <<>>
     ELSE IF k = "test" THEN <<<<source, k, 1>>, <<source, k, 2>>>> ELSE <<<<source, k, 1>>>>]

Lists(source) ==
  {Listing(source, kinds) : kinds \in {{}, {"test"}, {"setup", "build"}, Tools!Kinds}}

TomlFiles(images, lists) == [is : {"missing", "invalid"}] \cup Tools!RepoConfigs(images, lists)

Broken == {{}} \cup {{<<s, "test", 2>> : s \in {"server", "toml", "planner"}}}
  \cup {{<<"server", k, 1>>, <<"toml", k, 1>>} : k \in Tools!Kinds}
  \cup {{<<"planner", k, 1>>} : k \in Tools!Kinds}

File(name, inScope, isTest) == [name |-> name, inScope |-> inScope, isTest |-> isTest]
Patches == {{}, {File("f", TRUE, FALSE)}, {File("f", TRUE, TRUE)}, {File("f", FALSE, TRUE)},
            {File("f", TRUE, FALSE), File("g", FALSE, FALSE)},
            {File("f", TRUE, FALSE), File("g", TRUE, TRUE)}}

Repository == <<"group", "sub", "app">>

Job(gate, file, image, planner, restricted, sandbox) ==
  [repo |-> Repository, file |-> file, restricted |-> restricted, gate |-> gate,
   planner |-> [image |-> image, commands |-> planner], sandbox |-> sandbox]

MCJudgements ==
  {[changed |-> changed, broken |-> broken,
    job |-> Job(gate, file, None, planner, restricted, [image |-> "default", images |-> <<>>])] :
     gate \in Tools!GateConfigs(Lists("server"), {0, 1}), file \in TomlFiles({None}, Lists("toml")),
     planner \in Lists("planner"), restricted \in BOOLEAN, changed \in Patches, broken \in Broken}

MCJobs ==
  {Job(gate, file, image, Listing("planner", {}), FALSE, sandbox) :
     gate \in Tools!GateConfigs(Lists("server"), {0}),
     file \in TomlFiles({None, "of toml"}, Lists("toml")), image \in {None, "of the planner"},
     sandbox \in Tools!SandboxConfigs("default",
                   {[name \in names |-> name] : names \in SUBSET {Repository, Tail(Repository), <<"app">>}})}

-----------------------------------------------------------------------------
MCInit == Init \/ probe = [about |-> "nothing", call |-> "answer"]

MCNext ==
  \/ Next
  \/ ReadAnswer

MCSpec == MCInit /\ [][MCNext]_probe
=============================================================================
