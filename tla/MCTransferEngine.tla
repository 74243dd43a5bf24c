--------------------------- MODULE MCTransferEngine ---------------------------
(***************************************************************************)
(* Instances of TransferEngine: two jobs that copy a file of one name into *)
(* one folder, and one job that moves a small tree.                        *)
(***************************************************************************)
EXTENDS TransferEngine

CONSTANTS job1, job2, someone,       \* jobs, and who else writes there
          file1, file2,              \* big files of one name
          tree, twin1, twin2, link, linked,  \* a tree, with names stored alike
          name, other, folder        \* names

NoChildren == [i \in Items |-> {}]

\* Two files of one name, each picked by its own job.
PairHandling == [i \in Items |-> "file"]
PairPicked == (job1 :> {file1}) @@ (job2 :> {file2})
PairStored == [i \in Items |-> name]

Old == File(<<other>>, other, someone)
Left == File(<<other>>, Now, someone)
Older == File(<<folder>>, other, someone)
PairBefores == {<<Proper(name)>> :> Old, <<Partial(Proper(name))>> :> Left}

\* A folder with two files whose names are stored alike, one of them big, and
\* a link to a folder.
TreeHandling == (tree :> "folder") @@ (twin1 :> "file") @@ (twin2 :> "file")
                @@ (link :> "followed") @@ (linked :> "file")
TreeChildren == (tree :> {twin1, twin2, link}) @@ (link :> {linked})
                @@ [i \in {twin1, twin2, linked} |-> {}]
TreePicked == job1 :> {tree}
TreeStored == (tree :> folder) @@ [i \in {twin1, twin2} |-> name]
              @@ (link :> other) @@ (linked :> name)
TreeBefores == {
  <<Proper(folder)>> :> Old,
  (<<Proper(folder)>> :> Folder(someone)) @@ (<<Proper(folder), Proper(name)>> :> Old)
    @@ (<<Proper(folder), Proper(other)>> :> Older) }

\* One small file; the folder has another of its name, and one of the name the
\* user types, or one that looks just like it.
TypedBefores == {(<<Proper(name)>> :> Old) @@ (<<Proper(other)>> :> Older)}
AlikeBefores == {<<Proper(name)>> :> File(<<other>>, file1, someone)}
OnePicked == job1 :> {file1}
=============================================================================
