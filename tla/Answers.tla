------------------------------- MODULE Answers -------------------------------
(***************************************************************************)
(* Getting a typed answer out of the text a model wrote (gitai-llm,        *)
(* json.rs).  A text is a sequence of symbols: the brackets, the quote,    *)
(* the backslash, comma and colon, a newline, a space, a fence of three    *)
(* backquotes, a wide (multi-byte) character, n for a word character that  *)
(* may follow a backslash, x for everything else.                          *)
(*                                                                         *)
(* The code works on bytes and on usize.  Slicing a string inside a wide   *)
(* character panics in every build, a depth below zero only where overflow *)
(* is checked; elsewhere it wraps, which is what the integers here do.     *)
(***************************************************************************)
EXTENDS Integers, SequencesExt

CONSTANT Checks       \* the build checks for overflow

Openers == {"{", "["}
Closers == {"}", "]"}
Matches(o, c) == <<o, c>> \in {<<"{", "}">>, <<"[", "]">>}
Blank == {" ", "newline"}

Trim(s) ==
  LET solid == {k \in DOMAIN s : s[k] \notin Blank}
  IN  IF solid = {} THEN <<>> ELSE SubSeq(s, Min(solid), Max(solid))

Nothing == [is |-> "none"]
Panic == [is |-> "panic"]
Found(s) == [is |-> "found", text |-> s]

-----------------------------------------------------------------------------
(* Brackets and strings *)

\* FoldLeft over the positions of s, as one function: TLC's coverage expands every use of a
\* definition, and folds of the library in folds of the library are too much for it.
Over(s, step(_, _), start) ==
  LET upTo[k \in 0 .. Len(s)] == IF k = 0 THEN start ELSE step(upTo[k - 1], k)
  IN  upTo[Len(s)]

\* Mutant of Lex: a quote ends the string even behind a backslash.
LexWithoutEscapes(st, c) ==
  [str |-> IF c = "quote" THEN ~ st.str ELSE st.str, esc |-> FALSE,
   code |-> Append(st.code, ~ st.str /\ c # "quote"), hard |-> Append(st.hard, FALSE)]

\* in_string and escaped, one symbol on: which symbols are outside of strings, and which
\* stand behind a backslash.
Lex(st, c) ==
  [str  |-> IF st.str THEN st.esc \/ c # "quote" ELSE c = "quote",
   esc  |-> st.str /\ ~ st.esc /\ c = "backslash",
   code |-> Append(st.code, ~ st.str /\ c # "quote"),
   hard |-> Append(st.hard, st.esc)]

Lexed(s) ==
  Over(s, LAMBDA st, k : Lex(st, s[k]), [str |-> FALSE, esc |-> FALSE, code |-> <<>>, hard |-> <<>>])

\* The depth behind each symbol of s.
Depths(s) ==
  LET code == Lexed(s).code
      Change(k) == IF ~ code[k] THEN 0 ELSE IF s[k] \in Openers THEN 1
                   ELSE IF s[k] \in Closers THEN -1 ELSE 0
  IN  Over(s, LAMBDA ds, k : Append(ds, Change(k) + IF k = 1 THEN 0 ELSE ds[k - 1]), <<>>)

Wrapped(s) == s # <<>> /\ Matches(Head(s), Last(s))

\* is_balanced, of a text that is Wrapped: every group at depth zero closes as it opened.
IsBalanced(s) ==
  LET depth == Depths(s) code == Lexed(s).code
      Opens(k) == code[k] /\ s[k] \in Openers /\ depth[k] = 1
  IN  /\ Last(depth) = 0 /\ ~ Lexed(s).str
      /\ \A k \in DOMAIN s :
           /\ depth[k] >= 0
           /\ code[k] /\ s[k] \in Closers /\ depth[k] = 0 =>
                Matches(s[Max({o \in 1 .. k : Opens(o)})], s[k])

\* The inner loop of scan_balanced: the closer that ends what is opened at the head of s,
\* and whether the depth falls below zero before it is found.
EndOf(s) ==
  LET depth == Depths(s) code == Lexed(s).code
      ends == {k \in DOMAIN s : code[k] /\ depth[k] = 0 /\ Matches(Head(s), s[k])}
      below == {k \in DOMAIN s : depth[k] < 0}
  IN  [at |-> IF ends = {} THEN 0 ELSE Min(ends),
       overflows |-> below # {} /\ (ends = {} \/ Min(below) < Min(ends))]

\* scan_all_balanced: a span is searched at every opener that is not in an earlier span.
Spans(s) ==
  LET Look(st, k) ==
        IF k < st.next \/ s[k] \notin Openers THEN st
        ELSE LET e == EndOf(SubSeq(s, k, Len(s)))
             IN  IF e.overflows /\ Checks THEN [st EXCEPT !.panics = TRUE, !.next = Len(s) + 1]
                 ELSE IF e.at = 0 THEN st
                 ELSE [st EXCEPT !.next = k + e.at,
                                 !.list = Append(@, SubSeq(s, k, k + e.at - 1))]
  IN  Over(s, Look, [next |-> 1, list |-> <<>>, panics |-> FALSE])

-----------------------------------------------------------------------------
(* JSON (serde_json, external) *)

IsString(s) ==
  /\ Len(s) >= 2 /\ Head(s) = "quote" /\ Last(s) = "quote"
  /\ Cardinality({k \in DOMAIN s : s[k] = "quote" /\ ~ Lexed(s).hard[k]}) = 2
  /\ ~ Lexed(s).str
  /\ \A k \in DOMAIN s :
       s[k] # "newline" /\ (Lexed(s).hard[k] => s[k] \in {"quote", "backslash", "n"})

\* The pieces of s between the separators that are in no string and no bracket.
Pieces(s, separator) ==
  LET cuts == {k \in DOMAIN s : s[k] = separator /\ Lexed(s).code[k] /\ Depths(s)[k] = 0}
      ends == SetToSortSeq(cuts \cup {0, Len(s) + 1}, <)
  IN  [i \in 1 .. Len(ends) - 1 |-> Trim(SubSeq(s, ends[i] + 1, ends[i + 1] - 1))]

\* The texts between the brackets of an array or object.
Parts(inner) == IF inner = <<>> THEN {} ELSE Range(Pieces(inner, ","))

RECURSIVE IsJson(_)
IsMember(m) == Len(m) = 2 /\ IsString(m[1]) /\ IsJson(m[2])
IsValue(s) ==
  \/ s = <<"x">> \/ IsString(s)
  \/ /\ Wrapped(s) /\ IsBalanced(s)
     /\ \A p \in Parts(Trim(SubSeq(s, 2, Len(s) - 1))) :
          IF Head(s) = "[" THEN IsJson(p) ELSE IsMember(Pieces(p, ":"))
IsJson(s) == IsValue(Trim(s))

\* What deserializes into the type that is asked for: an object with a member, as Verdict.
IsT(s) == IsJson(s) /\ Head(Trim(s)) = "{" /\ Len(Trim(s)) > 2

-----------------------------------------------------------------------------
(* repair_json *)

\* A wide character behind a backslash is copied by its first byte only.
RepairPanics(s) == \E k \in DOMAIN s : s[k] = "wide" /\ Lexed(s).hard[k]

\* Mutant of Repair: commas before a closer stay.
RepairControlsOnly(s) ==
  Over(s, LAMBDA out, k : out \o IF s[k] = "newline" /\ ~ Lexed(s).code[k] /\ ~ Lexed(s).hard[k]
                                 THEN <<"backslash", "n">> ELSE <<s[k]>>, <<>>)

\* Newlines in strings are escaped, but not one behind a backslash; a comma with nothing but
\* blanks before a closer goes.
Repair(s) ==
  LET code == Lexed(s).code
      Trails(k) == /\ s[k] = "," /\ code[k]
                   /\ \E e \in k + 1 .. Len(s) :
                        /\ s[e] \in Closers /\ code[e]
                        /\ \A b \in k + 1 .. e - 1 : s[b] \in Blank
      Bare(k) == s[k] = "newline" /\ ~ code[k] /\ ~ Lexed(s).hard[k]
      Piece(k) == IF Bare(k) THEN <<"backslash", "n">>
                  ELSE IF Trails(k) THEN <<>> ELSE <<s[k]>>
  IN  Over(s, LAMBDA out, k : out \o Piece(k), <<>>)

-----------------------------------------------------------------------------
(* Where the answer may be *)

\* The text behind the first newline of s, or nothing.
AfterLine(s) ==
  LET lines == {k \in DOMAIN s : s[k] = "newline"}
  IN  IF lines = {} THEN <<>> ELSE SubSeq(s, Min(lines) + 1, Len(s))

\* The first of a sequence of outcomes that is not none.
FirstOf(outcomes) ==
  LET some == {k \in DOMAIN outcomes : outcomes[k] # Nothing}
  IN  IF some = {} THEN Nothing ELSE outcomes[Min(some)]

\* extract_code_blocks: there is one block, and it reaches to the last fence there is.
BlockIn(body) ==
  LET closing == {k \in DOMAIN body : body[k] = "fence"}
  IN  IF closing = {} THEN body ELSE SubSeq(body, 1, Max(closing) - 1)
Block(s) ==
  LET fences == {k \in DOMAIN s : s[k] = "fence"}
  IN  IF fences = {} THEN Nothing ELSE Found(BlockIn(AfterLine(SubSeq(s, Min(fences) + 1, Len(s)))))

\* scan_balanced: the first span that is JSON, or would be once repaired, else the first.
JsonSpan(span) ==
  IF IsJson(span) THEN Found(span)
  ELSE IF RepairPanics(span) THEN Panic
  ELSE IF IsJson(Repair(span)) THEN Found(span) ELSE Nothing
BestOf(spans) ==
  FirstOf([k \in DOMAIN spans.list |-> JsonSpan(spans.list[k])]
          \o <<IF spans.panics THEN Panic
               ELSE IF spans.list = <<>> THEN Nothing ELSE Found(spans.list[1])>>)
ScanBalanced(s) == BestOf(Spans(s))

\* The fallback of extract_json: from the first opener to the last closer of a kind.
Slice(s) ==
  LET Cut(o, c) == LET a == {k \in DOMAIN s : s[k] = o} b == {k \in DOMAIN s : s[k] = c}
                   IN  IF a # {} /\ b # {} /\ Min(a) < Max(b)
                       THEN Found(SubSeq(s, Min(a), Max(b))) ELSE Nothing
  IN  IF Cut("{", "}") # Nothing THEN Cut("{", "}") ELSE Cut("[", "]")

Whole(s) == IF Wrapped(s) /\ IsBalanced(s) THEN Found(s) ELSE Nothing

ExtractJson(s) ==
  FirstOf(<<Whole(Trim(s))>>
          \o (LET b == Block(s)
              IN  IF b = Nothing THEN <<>> ELSE <<Whole(Trim(b.text)), ScanBalanced(b.text)>>)
          \o <<ScanBalanced(s), Slice(s)>>)

-----------------------------------------------------------------------------
(* parse_json *)

\* A candidate as it is, or repaired.
Try(outcome) ==
  IF outcome.is # "found" THEN outcome
  ELSE IF IsT(outcome.text) THEN Found(Trim(outcome.text))
  ELSE IF RepairPanics(outcome.text) THEN Panic
  ELSE IF IsT(Repair(outcome.text)) THEN Found(Trim(Repair(outcome.text)))
  ELSE Nothing

TryAll(candidates) == FirstOf([k \in DOMAIN candidates |-> Try(candidates[k])])

\* Mutant of ParseJson: what extract_json finds is all there is.
ParseJsonFirstSpan(s) == TryAll(<<Found(Trim(s)), ExtractJson(s)>>)

OfBlock(b) == IF b = Nothing THEN <<>> ELSE <<Found(Trim(b.text)), ExtractJson(b.text)>>
OfSpans(spans) ==
  IF spans.panics THEN <<Panic>> ELSE [k \in DOMAIN spans.list |-> Found(spans.list[k])]

ParseJson(s) ==
  TryAll(<<Found(Trim(s))>> \o OfBlock(Block(s)) \o <<ExtractJson(s)>> \o OfSpans(Spans(s)))

-----------------------------------------------------------------------------

\* Every bracket that opens in s is closed in s, and by its own kind.
Tidy(s) ==
  \A k \in DOMAIN s :
    s[k] \in Openers => LET e == EndOf(SubSeq(s, k, Len(s))) IN e.at > 0 /\ ~ e.overflows

\* Every backslash in a string of s stands before something that JSON knows to be escaped.
EscapesAreKnown(s) ==
  \A k \in DOMAIN s : Lexed(s).hard[k] => s[k] \in {"quote", "backslash", "n"}

\* The outcome of parse_json: an answer is found where models put it: alone, in a fence, behind
\* prose, in front of chatter; with its newlines escaped and its trailing commas dropped.  The
\* prose may hold quotes, closers and whole brackets, though no answer of its own.  What a
\* backslash may not stand before, a raw newline among it, is not repaired.
AnswerIsFound(before, says, means, after, outcome) ==
  /\ Tidy(before) /\ Tidy(after) /\ EscapesAreKnown(says)
  /\ \A k \in DOMAIN Spans(before).list : ~ IsT(Spans(before).list[k])
  => outcome = Found(means)

\* Whatever the text, a panic takes a wide character behind a backslash or, where overflow
\* is checked, brackets that do not match.
PanicHasACause(s, outcome) ==
  outcome = Panic =>
    \/ \E k \in 2 .. Len(s) : s[k] = "wide" /\ s[k - 1] = "backslash"
    \/ Checks /\ ~ Tidy(s)
=============================================================================
