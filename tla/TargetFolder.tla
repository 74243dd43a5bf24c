----------------------------- MODULE TargetFolder -----------------------------
(***************************************************************************)
(* The folder a transfer writes to, as the transfer engine sees it through *)
(* the Vfs trait (src-tauri/src/vfs/mod.rs, with vfs/sftp.rs behind it): a *)
(* function from the paths that exist to what is there.                    *)
(*                                                                         *)
(* A path is the sequence of its steps from the destination on; a step is  *)
(* a name, the number of its copy ("x (copy 2)") and what kind of file it  *)
(* is.  Data is abstracted to the item each chunk of it comes from.        *)
(***************************************************************************)
EXTENDS Naturals, Sequences, SequencesExt, Functions, TLC

\* VName::with_copy_suffix, partial_beside, temporary_beside and the name
\* replace_by_moving_aside gives what it replaces.
Proper(name) == [name |-> name, copy |-> 0, kind |-> "proper"]
CopyOf(step, number) == [step EXCEPT !.copy = number]
Partial(step) == [name |-> step.name, copy |-> step.copy, kind |-> "filepart"]
Hidden(kind, who) == [name |-> who, copy |-> 0, kind |-> kind]

IsProper(path) == Last(path).kind = "proper"
Beside(path, step) == Append(Front(path), step)
PartialBeside(path) == Beside(path, Partial(Last(path)))

\* `time` is the item whose modified time the entry has, `by` who wrote it.
File(data, time, by) == [kind |-> "file", data |-> data, time |-> time, by |-> by]
Folder(by) == [kind |-> "folder", data |-> <<>>, time |-> "now", by |-> by]
Now == "now"

Exists(there, path) == path \in DOMAIN there
IsFolder(there, path) == Exists(there, path) /\ there[path].kind = "folder"
Within(there, path) == {p \in DOMAIN there : IsPrefix(path, p)}

\* f, with y for x.
With(f, x, y) == [z \in DOMAIN f \cup {x} |-> IF z = x THEN y ELSE f[z]]
Put(there, path, entry) == With(there, path, entry)

\* remove, of a file or of a folder with all it holds.
Removed(there, path) == Restrict(there, DOMAIN there \ Within(there, path))

\* A rename in one step: what was at `to` is replaced, folders go with all
\* they hold.
Renamed(there, from, to) ==
  LET rest(p) == SubSeq(p, Len(from) + 1, Len(p))
      moved == {to \o rest(p) : p \in Within(there, from)}
      kept == DOMAIN there \ (Within(there, from) \cup Within(there, to))
  IN [p \in kept \cup moved |->
        IF p \in moved THEN there[from \o SubSeq(p, Len(to) + 1, Len(p))] ELSE there[p]]

\* unique_target: the first numbered copy of the path that is free.
FirstFree(there, path) ==
  LET copy(n) == Beside(path, CopyOf(Last(path), n))
      n == CHOOSE n \in 1 .. Cardinality(DOMAIN there) + 1 :
             /\ ~Exists(there, copy(n))
             /\ \A m \in 1 .. n - 1 : Exists(there, copy(m))
  IN copy(n)
=============================================================================
