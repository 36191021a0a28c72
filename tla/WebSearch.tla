------------------------------ MODULE WebSearch ------------------------------
(***************************************************************************)
(* Web search for the workers (gitai-pipeline, web_search.rs): up to three *)
(* requests to DuckDuckGo or one to a JSON service for each query of a     *)
(* worker, what is kept of the links they answer with, and the one text    *)
(* made of all of them.                                                    *)
(*                                                                         *)
(* A link is a page with or without tracking parameters, with an address   *)
(* that is absolute, something else or empty, and with or without a title. *)
(* A DuckDuckGo page shows its links in one of three styles: the results   *)
(* of the HTML version, those of the lite version, or bare redirects.  The *)
(* parsers cut the text a number of bytes behind a link: `cut` says what   *)
(* is there for the parser of the page's style, `tail` for that of bare    *)
(* redirects.                                                              *)
(***************************************************************************)
EXTENDS ListOps

\* web_search as it is configured: the provider, JSON services (Tavily, Brave, SearXNG) among
\* them, whether the service has the api_key or the endpoint it needs, and max_results.
Engines == [provider : {"duckduckgo", "json", "none"}, keyed : BOOLEAN, max : Nat]

\* The start of a character, the inside of a multi-byte one, or no byte of the page anymore if
\* the link is the last.
Cuts == {"clean", "wide", "ends"}

Links(pages) ==
  [page : pages, tracked : BOOLEAN, address : {"absolute", "other", "empty"},
   titled : BOOLEAN, cut : Cuts, tail : Cuts]
Pages(pages) == [style : {"html", "lite", "redirects", "json"}, links : Seq(Links(pages))]

Failed == [is |-> "failed"]
Panic == [is |-> "panic"]
Results(links) == [is |-> "results", links |-> links]

-----------------------------------------------------------------------------
(* Links *)

\* Mutant of Clean: the tracking parameters stay.
CleanNothing(link) == link

\* clean_url: redirects are unwrapped, tracking parameters dropped.
Clean(link) == [link EXCEPT !.tracked = FALSE]

UpTo(n, links) == SubSeq(links, 1, Min({n, Len(links)}))

\* The links that are worth keeping, in order.
Select(links, worth) ==
  FoldLeft(LAMBDA kept, l : IF l \in worth THEN Append(kept, l) ELSE kept, <<>>, links)
Cleaned(links) == [k \in DOMAIN links |-> Clean(links[k])]

\* What is shown with a title and an absolute address, cleaned, until there are enough.
Shown(links, max) ==
  UpTo(max, Cleaned(Select(links, {l \in Range(links) : l.titled /\ l.address = "absolute"})))

Url(l) == <<l.page, l.tracked, l.address>>
Urls(links) == {Url(l) : l \in Range(links)}

\* Links are kept in order unless their address is in `seen` or was kept already.
Unseen(links, seen) ==
  FoldLeft(LAMBDA kept, l : IF Url(l) \in seen \cup Urls(kept) THEN kept ELSE Append(kept, l),
           <<>>, links)

\* parse_duckduckgo_fallback_links: redirects as they are, each address once.
Redirects(links, max) ==
  UpTo(max, Unseen(Select(links, {l \in Range(links) : l.address = "absolute"}), {}))

\* A string cannot be cut inside a character, nor behind its end.
NoCut(cut, isLast) == cut = "wide" \/ (cut = "ends" /\ isLast)

\* Where a string is cut by counting bytes: 4000 behind the start of the last result of the
\* HTML version, unless the page ends there; 20 behind the class of a link of the lite version
\* and 10 behind the parameter of a bare redirect if the parser goes on.
CutFails(page, max) ==
  LET last == Len(page.links)
      UpToLink(k) == SubSeq(page.links, 1, k)
      goesOn(k) == Len(Shown(UpToLink(k), max)) < max
      bare == page.style = "redirects" \/ Shown(page.links, max) = <<>>
  IN  \/ page.style = "html" /\ last > 0 /\ goesOn(last - 1) /\ page.links[last].cut = "wide"
      \/ /\ page.style = "lite"
         /\ \E k \in 1 .. last : goesOn(k) /\ NoCut(page.links[k].cut, k = last)
      \/ /\ bare
         /\ \E k \in 1 .. last : /\ Len(Redirects(UpToLink(k), max)) < max
                                 /\ NoCut(page.links[k].tail, k = last)

\* parse_duckduckgo_html: where a style shows nothing the bare redirects are next.
ParseDuckDuckGo(page, max) ==
  LET shown == IF page.style = "redirects" THEN <<>> ELSE Shown(page.links, max)
  IN  IF CutFails(page, max) THEN Panic
      ELSE IF shown # <<>> THEN Results(shown) ELSE Results(Redirects(page.links, max))

\* parse_tavily_json, parse_brave_json, parse_searxng_json: the first ones, of which those
\* without an address are dropped.
ParseJson(page, max) ==
  LET first == UpTo(max, page.links)
  IN  Results(Cleaned(Select(first, {l \in Range(first) : l.address # "empty"})))

-----------------------------------------------------------------------------
(* Queries *)

\* search_duckduckgo: POST, POST to the lite version, GET. An answer is taken if it has
\* results; only the last failure is an error.
SearchDuckDuckGo(answers, max) ==
  LET parsed == [k \in 1 .. 3 |-> IF answers[k] = Failed THEN Failed
                                  ELSE ParseDuckDuckGo(answers[k], max)]
      taken == {k \in 1 .. 2 : parsed[k] \notin {Failed, Results(<<>>)}}
  IN  IF taken # {} THEN parsed[Min(taken)] ELSE parsed[3]

\* WebSearchEngine::search
Search(engine, answers) ==
  LET max == Min({10, Max({1, engine.max})})
  IN  CASE engine.provider = "duckduckgo" -> SearchDuckDuckGo(answers, max)
        [] engine.provider = "json" /\ engine.keyed /\ answers[1] # Failed -> ParseJson(answers[1], max)
        [] OTHER -> Failed

\* Mutant of Add: a query that fails ends the search.
AddUntilFailure(engine, st, result) ==
  LET new == Unseen(result.links, st.seen)
  IN  IF st.panics \/ result \in {Panic, Failed} THEN [st EXCEPT !.panics = TRUE]
      ELSE [st EXCEPT !.seen = @ \cup Urls(new), !.text = @ \o UpTo(engine.max, new)]

\* search_all, one query: addresses already seen are dropped; a query that fails is logged;
\* max_results is applied once more, without its bounds.
Add(engine, st, result) ==
  LET new == Unseen(result.links, st.seen)
  IN  IF st.panics \/ result = Panic THEN [st EXCEPT !.panics = TRUE]
      ELSE IF result = Failed THEN st
      ELSE [st EXCEPT !.seen = @ \cup Urls(new), !.text = @ \o UpTo(engine.max, new)]

\* search_all
SearchAll(engine, queries) ==
  FoldLeft(LAMBDA st, result : Add(engine, st, result), [seen |-> {}, text |-> <<>>, panics |-> FALSE],
           [q \in DOMAIN queries |-> Search(engine, queries[q])])

-----------------------------------------------------------------------------

\* A link of the page has no character's start where the parser of its style, or that of bare
\* redirects, cuts the text.
MayNotBeCut(page) ==
  \E k \in DOMAIN page.links :
    \/ NoCut(page.links[k].tail, k = Len(page.links))
    \/ page.style = "html" /\ k = Len(page.links) /\ page.links[k].cut = "wide"
    \/ page.style = "lite" /\ NoCut(page.links[k].cut, k = Len(page.links))

\* Whatever became of the other queries of a worker, a page that one of them found is
\* listed, and it is listed once, tracking parameters or not: unless bare redirects were
\* taken as they are.  Only a cut by bytes inside of a wide character or behind the end of a
\* page of DuckDuckGo takes the whole search down.
EachPageIsListedOnce(engine, queries) ==
  LET s == SearchAll(engine, queries)
      found == {r \in {Search(engine, queries[q]) : q \in DOMAIN queries} : r.is = "results"}
      SamePage(l, m) == l.page = m.page /\ l.address = m.address
  IN  /\ s.panics => engine.provider = "duckduckgo" /\ \E q \in DOMAIN queries, k \in 1 .. 3 :
                        queries[q][k] # Failed /\ MayNotBeCut(queries[q][k])
      /\ ~ s.panics /\ engine.max > 0 =>
           /\ \A r \in found : Urls(r.links) \subseteq Urls(s.text)
           /\ \A j, k \in DOMAIN s.text :
                j < k /\ SamePage(s.text[j], s.text[k]) =>
                  \E l \in {s.text[j], s.text[k]} : l.tracked /\ engine.provider = "duckduckgo"
=============================================================================
