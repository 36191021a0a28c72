-------------------------------- MODULE Edits --------------------------------
(***************************************************************************)
(* The edits of a worker (gitai-pipeline, edits.rs) in the checkout of an  *)
(* attempt (gitai-sandbox, git.rs): a list of writes, exact replacements   *)
(* and deletions is applied one by one, and what fails becomes feedback.   *)
(*                                                                         *)
(* A path is a sequence of components, "." and ".." and a leading "/"      *)
(* among them.  A workspace has files, with what they hold, and the        *)
(* directories that were made for them, but no symbolic links: safe_join   *)
(* looks at the text of a path alone, and the calls behind it follow any   *)
(* link, so what becomes of an edit whose path leads through one is not    *)
(* said here.  A text is a sequence of symbols.  The disk does not fail.   *)
(***************************************************************************)
EXTENDS ListOps

CONSTANT Binary   \* the content of a file that is not UTF-8

\* safe_join: nothing absolute, nothing upwards.
IsRefused(path) == Range(path) \cap {"..", "/"} # {}
Joined(path) ==
  FoldLeft(LAMBDA kept, part : IF part = "." THEN kept ELSE Append(kept, part), <<>>, path)

Above(file) == {SubSeq(file, 1, n) : n \in 0 .. Len(file) - 1}

\* Files with a text each, or none that can be read, and directories.
IsTree(ws, paths, texts) ==
  /\ ws \in [files : [DOMAIN ws.files -> texts \cup {Binary}], dirs : SUBSET paths]
  /\ DOMAIN ws.files \subseteq paths

\* The paths are plain, no file is a directory, and every file has the directories above it.
IsCheckout(ws) ==
  /\ <<>> \in ws.dirs
  /\ \A file \in DOMAIN ws.files :
       /\ Range(file) \cap {"..", "/", "."} = {}
       /\ file \notin ws.dirs /\ Above(file) \subseteq ws.dirs

\* Edit, as a worker writes it.
EditsOf(paths, texts) ==
  [op : {"write"}, path : paths, content : texts] \cup [op : {"delete"}, path : paths]
  \cup [op : {"replace"}, path : paths, find : texts, with : texts, all : BOOLEAN]

-----------------------------------------------------------------------------
(* The checkout: each call says whether it went well, and what it leaves *)

Fails(ws) == [ok |-> FALSE, ws |-> ws]
Leaves(ws) == [ok |-> TRUE, ws |-> ws]

\* Checkout::write_file makes the directories above. A file is in the way of a directory,
\* and a directory in the way of a file.
WriteFile(ws, path, content) ==
  LET file == Joined(path)
  IN  IF \/ IsRefused(path) \/ file \in ws.dirs
         \/ Above(file) \cap DOMAIN ws.files # {}
      THEN Fails(ws)
      ELSE Leaves([files |-> [f \in DOMAIN ws.files \cup {file} |->
                                IF f = file THEN content ELSE ws.files[f]],
                   dirs |-> ws.dirs \cup Above(file)])

\* Checkout::delete_file: what is gone already is deleted. Directories stay.
DeleteFile(ws, path) ==
  LET file == Joined(path)
  IN  IF \/ IsRefused(path) \/ file \in ws.dirs
         \/ Above(file) \cap DOMAIN ws.files # {}
      THEN Fails(ws)
      ELSE Leaves([ws EXCEPT !.files = [f \in DOMAIN @ \ {file} |-> @[f]]])

\* Checkout::read_file
CanRead(ws, path) ==
  /\ ~ IsRefused(path) /\ Joined(path) \in DOMAIN ws.files
  /\ ws.files[Joined(path)] # Binary

-----------------------------------------------------------------------------
(* Replacing *)

IsAt(find, text, k) == IsPrefix(find, SubSeq(text, k, Len(text)))

\* str::matches: from the left, without overlaps.
Found(find, text) ==
  FoldLeft(LAMBDA ks, k : IF IsAt(find, text, k) /\ (ks = <<>> \/ k >= Last(ks) + Len(find))
                          THEN Append(ks, k) ELSE ks,
           <<>>, [k \in DOMAIN text |-> k])

\* str::replace: what lies between the matches is kept, and the text is put for each of them.
Replaced(text, at, n, with) ==
  LET done == FoldLeft(LAMBDA st, k : [out |-> st.out \o SubSeq(text, st.next, k - 1) \o with,
                                       next |-> k + n],
                       [out |-> <<>>, next |-> 1], at)
  IN  done.out \o SubSeq(text, done.next, Len(text))

\* Mutant of Replace: the first of several matches will do.
ReplaceFirst(ws, edit) ==
  LET text == ws.files[Joined(edit.path)]
      at == Found(edit.find, text)
      places == IF edit.all THEN at ELSE <<at[1]>>
  IN  IF ~ CanRead(ws, edit.path) \/ edit.find = <<>> \/ at = <<>> THEN Fails(ws)
      ELSE WriteFile(ws, edit.path,
             Replaced(text, places, Len(edit.find), edit.with))

\* Edit::Replace: one match, or all of them if that is asked for.
Replace(ws, edit) ==
  LET text == ws.files[Joined(edit.path)]
      at == Found(edit.find, text)
  IN  IF \/ ~ CanRead(ws, edit.path) \/ edit.find = <<>>
         \/ at = <<>> \/ (Len(at) > 1 /\ ~ edit.all)
      THEN Fails(ws)
      ELSE WriteFile(ws, edit.path,
             Replaced(text, at, Len(edit.find), edit.with))

-----------------------------------------------------------------------------
(* apply *)

ApplyOne(ws, edit) ==
  CASE edit.op = "write" -> WriteFile(ws, edit.path, edit.content)
    [] edit.op = "delete" -> DeleteFile(ws, edit.path)
    [] edit.op = "replace" -> Replace(ws, edit)

\* Mutant of Apply: the first failure ends the list.
ApplyUntilFailure(ws, edits) ==
  FoldLeft(LAMBDA st, k : LET done == ApplyOne(st.ws, edits[k])
                          IN  IF st.failures # {} THEN st
                              ELSE [ws |-> done.ws, failures |-> IF done.ok THEN {} ELSE {k}],
           [ws |-> ws, failures |-> {}], [k \in DOMAIN edits |-> k])

\* apply: in order, and on after a failure.
Apply(ws, edits) ==
  FoldLeft(LAMBDA st, k : LET done == ApplyOne(st.ws, edits[k])
                          IN  [ws |-> done.ws, failures |-> st.failures \cup IF done.ok THEN {} ELSE {k}],
           [ws |-> ws, failures |-> {}], [k \in DOMAIN edits |-> k])

-----------------------------------------------------------------------------

\* The occurrences of a text, overlapping ones included.
Occurrences(find, text) == {k \in DOMAIN text : IsAt(find, text, k)}

\* A text with another in the place of the n symbols at k; and a list without some of its items.
Splice(text, k, n, with) == SubSeq(text, 1, k - 1) \o with \o SubSeq(text, k + n, Len(text))
Without(edits, places) ==
  FoldLeft(LAMBDA kept, k : IF k \in places THEN kept ELSE Append(kept, edits[k]),
           <<>>, [k \in DOMAIN edits |-> k])

\* "The other edits were applied": the list without the edits that are reported has no
\* failures and leaves the same workspace. That is a checkout still, if it had no symbolic
\* links: no path in it is absolute or leads upwards, and no file is a directory. A replacement
\* that was not reported, and was not for all, has put its text for the one occurrence there
\* was; unless occurrences overlap, of which the first goes.
EditsDoAsTheySay(ws, edits) ==
  LET outcome == Apply(ws, edits)
      Before(k) == Apply(ws, SubSeq(edits, 1, k - 1)).ws.files[Joined(edits[k].path)]
      After(k) == Apply(ws, SubSeq(edits, 1, k)).ws.files[Joined(edits[k].path)]
      Overlaps(ks, n) == \E j, k \in ks : j < k /\ k < j + n
  IN  /\ Apply(ws, Without(edits, outcome.failures)) = [ws |-> outcome.ws, failures |-> {}]
      /\ IsCheckout(outcome.ws)
      /\ \A k \in DOMAIN edits \ outcome.failures :
           edits[k].op = "replace" /\ ~ edits[k].all =>
             LET ks == Occurrences(edits[k].find, Before(k)) n == Len(edits[k].find)
             IN  /\ Cardinality(ks) = 1 \/ Overlaps(ks, n)
                 /\ After(k) = Splice(Before(k), Min(ks), n, edits[k].with)
=============================================================================
