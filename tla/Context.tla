------------------------------- MODULE Context -------------------------------
(***************************************************************************)
(* What a model is allowed to see (gitai-pipeline, context.rs): the byte   *)
(* limits that follow from the window of the model, the files opened for a *)
(* worker turn by turn (engine.rs, attempt_body), and the diff on its way  *)
(* from a worker to the reviewers.                                         *)
(*                                                                         *)
(* A file is missing, binary, or a text of so many bytes whose characters  *)
(* are all of one width.  Floating-point shares are integer divisions; the *)
(* paths in the file tree have the size the limits assume for them.        *)
(***************************************************************************)
EXTENDS ListOps

MinUsefulFileBytes == 400
TreeEntryBytes == 60
Notice == 52      \* the bytes cap_diff adds to a diff that was cut

Clamp(n, low, high) == Min({high, Max({low, n})})

\* What is left of a window when room for the answer is set aside.
Usable(window) == (window * 65) \div 100

\* ContextLimits::for_context
Limits(window) ==
  LET chars == 3 * Usable(window)
      files == (chars * 45) \div 100
  IN  [tree   |-> Clamp(((chars * 10) \div 100) \div TreeEntryBytes, 40, 600),
       file   |-> Clamp(files \div 3, 2000, 60000),
       files  |-> Max({files, 4000}),
       open   |-> 12,
       readme |-> Clamp((chars * 5) \div 100, 500, 8000),
       diff   |-> Clamp((chars * 40) \div 100, 4000, 120000)]

\* estimated_ceiling_tokens
Ceiling(limits) ==
  (limits.tree * TreeEntryBytes + limits.files + limits.readme + limits.diff) \div 3

-----------------------------------------------------------------------------
(* Files *)

\* What a workspace has at a path: characters take four bytes at most.
Contents == [is : {"text"}, bytes : Nat, width : 1 .. 4] \cup [is : {"missing", "binary"}]

\* truncate: cut back to a character boundary.
Cut(bytes, width, limit) == IF bytes <= limit THEN bytes ELSE limit - (limit % width)

IsText(file) == file.is = "text"

\* merge_open_files: a file that is opened now replaces its earlier copy.
Merged(now, earlier) ==
  [path \in DOMAIN now \cup DOMAIN earlier |->
     IF path \in DOMAIN now THEN now[path] ELSE earlier[path]]

Bytes(open) == FoldFunction(LAMBDA a, b : a + b, 0, open)

\* Mutant of OpenFile: each file has the whole budget.
OpenFileAlone(ws, limits, open, path) ==
  IF path \in DOMAIN open \/ ~ IsText(ws[path]) THEN open
  ELSE Merged([p \in {path} |-> Cut(ws[path].bytes, ws[path].width, limits.file)], open)

\* The loop of open_files: a path that was seen, that is missing or binary, or for which too
\* little is left is passed over. Once too little is left nothing more is opened.
OpenFile(ws, limits, open, path) ==
  LET remaining == limits.files - Bytes(open)
  IN  IF path \in DOMAIN open \/ remaining < MinUsefulFileBytes \/ ~ IsText(ws[path]) THEN open
      ELSE Merged([p \in {path} |-> Cut(ws[path].bytes, ws[path].width,
                                         Min({limits.file, remaining}))], open)

First(n, asked) == SubSeq(asked, 1, Min({n, Len(asked)}))

\* open_files: the bytes shown of each file, in the order in which they were asked for.
OpenFiles(ws, limits, asked) ==
  FoldLeft(LAMBDA open, path : OpenFile(ws, limits, open, path), <<>>, First(limits.open, asked))

\* attempt_body: the planner's files first, then those of each turn that only reads; a file
\* that was read again is shown as it is now.
ShownAfter(ws, limits, relevant, turns) ==
  FoldLeft(LAMBDA open, asked : Merged(OpenFiles(ws, limits, asked), open),
           OpenFiles(ws, limits, relevant), turns)

\* cap_diff
CapDiff(bytes, limits) ==
  IF bytes <= limits.diff THEN bytes ELSE Cut(bytes, 1, limits.diff) + Notice

\* The diff of an attempt is kept at the worker's limit and cut again for each later stage.
DiffFor(bytes, worker, reader) == CapDiff(CapDiff(bytes, Limits(worker)), Limits(reader))

-----------------------------------------------------------------------------

\* The shares of the limits add up: a planned context fits a window of 3634 tokens or more,
\* and from 12307 tokens on it leaves the room that is set aside for the answer.
LimitsFit(window) ==
  /\ window >= 3634 => Ceiling(Limits(window)) <= window
  /\ window >= 12307 => Ceiling(Limits(window)) <= Usable(window)

\* However many files one request asks for, it opens no more than the budget of all files, of
\* each file no more than its share, and what it opens is whole or worth showing; whoever asks
\* for a text among the first dozen paths gets to see one. The budget is one of a request, not
\* of the worker: the requests of its turns add up, so that behind n of them n + 1 budgets are
\* the most that is shown, which need not fit the window.
ShownFilesFit(ws, window, relevant, turns) ==
  LET limits == Limits(window)
      shown == ShownAfter(ws, limits, relevant, turns)
      Asked == Range(<<relevant>> \o turns)
      Fits(open) ==
        /\ Bytes(open) <= limits.files
        /\ \A path \in DOMAIN open :
             /\ open[path] <= limits.file
             /\ open[path] = ws[path].bytes \/ open[path] > MinUsefulFileBytes - ws[path].width
      Answers(asked, open) ==
        (\E path \in Range(First(limits.open, asked)) : IsText(ws[path])) => open # <<>>
  IN  /\ \A asked \in Asked : LET open == OpenFiles(ws, limits, asked)
                              IN  Fits(open) /\ Answers(asked, open)
      /\ Bytes(shown) <= (1 + Len(turns)) * limits.files

\* A reader of a diff sees all of it, or as much as the smaller of the two windows allows.
DiffIsShown(bytes, worker, reader) ==
  LET least == Min({Limits(worker).diff, Limits(reader).diff})
      seen == DiffFor(bytes, worker, reader)
  IN  /\ bytes <= least => seen = bytes
      /\ bytes > least => seen >= least /\ seen <= least + 2 * Notice
=============================================================================
