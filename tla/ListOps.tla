------------------------------- MODULE ListOps -------------------------------
(***************************************************************************)
(* What the pure parts of gitai do to a list.  These are five operators of *)
(* SequencesExt, by its definitions, without the rest of it: Inputs        *)
(* instantiates the module of each part, and with all of SequencesExt (and *)
(* of Bags and TLC) in each instance the proofs about them take three      *)
(* times as long.                                                          *)
(***************************************************************************)
EXTENDS Integers, Sequences, FiniteSetsExt, Functions

\* The first element goes in first.
FoldLeft(op(_, _), base, seq) ==
  MapThenFoldSet(LAMBDA x, y : op(y, x), base, LAMBDA i : seq[i], LAMBDA S : Max(S), DOMAIN seq)

\* The last element goes in first.
FoldRight(op(_, _), seq, base) ==
  MapThenFoldSet(op, base, LAMBDA i : seq[i], LAMBDA S : Min(S), DOMAIN seq)

\* Where the first element is that passes, or 0.
SelectInSeq(seq, Test(_)) ==
  LET I == {i \in 1 .. Len(seq) : Test(seq[i])}
  IN  IF I # {} THEN Min(I) ELSE 0

Last(s) == s[Len(s)]

IsPrefix(s, t) == Len(s) <= Len(t) /\ SubSeq(s, 1, Len(s)) = SubSeq(t, 1, Len(s))
=============================================================================
