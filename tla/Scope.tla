-------------------------------- MODULE Scope --------------------------------
(***************************************************************************)
(* The scope of a patch (gitai-sandbox, glob.rs and gate.rs): whether the  *)
(* files it changes match the patterns the planner allows.                 *)
(*                                                                         *)
(* Patterns and paths are sequences of characters.  glob.rs matches them   *)
(* character by character, with backtracking; what the patterns mean is    *)
(* said of the segments between slashes, and of what each star stands for. *)
(* The changed files are the lines git printed: a name it quotes, as one   *)
(* with characters beyond ASCII, is matched with its quotes and escapes.   *)
(***************************************************************************)
EXTENDS ListOps

-----------------------------------------------------------------------------
(* glob.rs *)

\* There is a star at pi, or two of them.
IsStar(pat, pi) == pi <= Len(pat) /\ pat[pi] = "*"
IsDouble(pat, pi) == IsStar(pat, pi) /\ IsStar(pat, pi + 1)

\* Mutant of MayBeNone: a double star and its slash stand for one directory at least.
NeverNone(pat, pi) == FALSE

\* The double star at pi may stand for no directory at all, and its slash for nothing.
MayBeNone(pat, pi) == pi + 2 <= Len(pat) /\ pat[pi + 2] = "/"

\* From where in txt a place of next is reached by skipping anything; by skipping nothing
\* beyond a slash; by a character that c stands for.
Skipping(txt, next) == {ti \in 1 .. Len(txt) + 1 : \E skip \in next : skip >= ti}
SkippingInside(txt, next) ==
  {ti \in 1 .. Len(txt) + 1 :
     \E skip \in next : skip >= ti /\ \A k \in ti .. skip - 1 : txt[k] # "/"}
Taking(c, txt, next) ==
  {ti \in 1 .. Len(txt) : ti + 1 \in next /\ (c = txt[ti] \/ (c = "?" /\ txt[ti] # "/"))}

\* match_from: the rest of the pattern at pi matches the rest of the text at each ti of
\* from[pi].
MatchFrom(pat, txt) ==
  LET from[pi \in 1 .. Len(pat) + 1] ==
        CASE pi > Len(pat) -> {Len(txt) + 1}
          [] IsDouble(pat, pi) ->
               Skipping(txt, from[pi + 2]) \cup (IF MayBeNone(pat, pi) THEN from[pi + 3] ELSE {})
          [] IsStar(pat, pi) /\ ~ IsDouble(pat, pi) -> SkippingInside(txt, from[pi + 1])
          [] OTHER -> Taking(pat[pi], txt, from[pi + 1])
  IN  1 \in from[1]

MatchesAny(patterns, path) == \E p \in patterns : MatchFrom(p, path)

\* check_scope: no patterns, no scope.
CheckScope(changed, allowed) == allowed = {} \/ \A f \in changed : MatchesAny(allowed, f)

-----------------------------------------------------------------------------
(* What patterns mean *)

Segments(s) ==
  FoldRight(LAMBDA c, segments :
              IF c = "/" THEN <<<<>>>> \o segments
              ELSE <<<<c>> \o Head(segments)>> \o Tail(segments),
            s, <<<<>>>>)

Star == <<"*", "*">>

\* How a pattern of n items may lie along a text of m: where each of them begins.
Layouts(n, m) == {at \in [1 .. n + 1 -> 1 .. m + 1] : at[1] = 1 /\ at[n + 1] = m + 1}

\* A segment against a segment: what the stars stand for can be chosen.
SegmentMatches(p, t) ==
  \E at \in Layouts(Len(p), Len(t)) : \A k \in DOMAIN p :
    IF p[k] = "*" THEN at[k + 1] >= at[k]
    ELSE at[k + 1] = at[k] + 1 /\ p[k] \in {"?", t[at[k]]}

\* Directories against directories: a double star is any number of them, of which the last
\* segment of a path is not one; but it matches that, too, if nothing else is left to do so.
PathMatches(ps, ts) ==
  \E at \in Layouts(Len(ps), Len(ts)) : \A k \in DOMAIN ps :
    IF ps[k] = Star THEN at[k + 1] >= at[k] /\ at[k] <= Len(ts)
    ELSE at[k + 1] = at[k] + 1 /\ SegmentMatches(ps[k], ts[at[k]])

\* A double star is a segment of its own, as in all patterns that are written anywhere.
IsPlain(pattern) ==
  \A i \in DOMAIN Segments(pattern) :
    LET s == Segments(pattern)[i] IN s = Star \/ \A k \in DOMAIN s : ~ IsDouble(s, k)

\* A patch is in scope if each file it changes lies, directory by directory, where one of the
\* patterns says; and if there are none.
ScopeIsPathwise(changed, allowed) ==
  (\A p \in allowed : IsPlain(p)) =>
    (CheckScope(changed, allowed) <=>
       \/ allowed = {}
       \/ \A f \in changed : \E p \in allowed : PathMatches(Segments(p), Segments(f)))
=============================================================================
