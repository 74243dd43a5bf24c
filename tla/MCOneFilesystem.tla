--------------------------- MODULE MCOneFilesystem ---------------------------
(* Small disks and the transfers on them, for OneFilesystem.               *)
EXTENDS OneFilesystem

VARIABLE disk

a == <<Proper("a")>>
b == <<Proper("b")>>

NoEntry == <<>>
SomeFile(path, size) == path :> File([n \in 1 .. size |-> path], size, "user")
SomeFolder(path, entries) == (path :> Folder("user")) @@ entries
SomeLink(path, to) == path :> Link(to)

\* /a is a folder with something in it; /b is one too, or a file or a link, and
\* what clashes differs in kind, or in size and time.
InA == {SomeFile(a \o a, 1), SomeLink(a \o a, b), SomeFolder(a \o a, SomeFile(a \o a \o a, 1)),
        SomeFolder(a \o a, SomeLink(a \o a \o b, b)),
        SomeFolder(a \o a, SomeFolder(a \o a \o a, SomeFile(a \o a \o a \o b, 1))),
        SomeFile(a \o a, 2) @@ SomeFolder(a \o b, NoEntry),
        SomeFolder(a \o a, NoEntry) @@ SomeLink(a \o b, a)}
AtB == {SomeFolder(b, NoEntry), SomeFolder(b, SomeFile(b \o a, 2)), SomeFolder(b, SomeLink(b \o a, a)),
        SomeFolder(b, SomeFolder(b \o a, SomeFile(b \o a \o a, 2))),
        SomeFile(b, 1), SomeLink(b, a)}
Trees == {SomeFolder(<<>>, SomeFolder(a, inA) @@ atB) : inA \in InA, atB \in AtB}

\* Everything there alone, and the two entries called a at once.
Picks(tree) ==
  {<<p>> : p \in DOMAIN tree \ {<<>>}}
  \cup {<<a \o a, b \o a>> : p \in {b \o a} \cap DOMAIN tree}
Folders(tree) == {p \in DOMAIN tree : Stat(tree, p).kind = "folder"}

Jobs(tree) ==
  {[move |-> move, picked |-> picked, destination |-> destination,
    answer |-> answers[1], otherwise |-> answers[2],
    volumes |-> can[1], links |-> can[2], failsAt |-> failsAt] :
     move \in BOOLEAN, picked \in Picks(tree), destination \in Folders(tree),
     answers \in {<<"overwrite", "overwrite">>, <<"rename", "skip">>,
                  <<"newer", "rename">>, <<"size", "overwrite">>},
     can \in {<<FALSE, TRUE>>, <<TRUE, TRUE>>, <<TRUE, FALSE>>},
     failsAt \in {0, 2}}

\* Within one filesystem, a transfer takes only what is its own and is whole
\* when it is done; and its walk ends, while links can be made or none leads to
\* where the destination is.
TransfersAreWhole(tree) ==
  \A job \in Jobs(tree) :
    LET w == Run(tree, job)
    IN /\ TakesOnlyItsOwn(tree, job, w) \/ ReplacesItsFolder(tree, job, w)
       /\ DoneIsWhole(tree, job, w)
       /\ (job.links /\ job.failsAt = 0) \/ ~LeadsHere(tree, job) => WalkEnds(w)
-----------------------------------------------------------------------------
Spec == disk \in Trees /\ [][UNCHANGED disk]_disk

AllAreWhole == TransfersAreWhole(disk)
\* Also when links can't be made: see WalkEnds.
AllWalksEnd == \A job \in Jobs(disk) : WalkEnds(Run(disk, job))
\* Also when the folder that something is in is replaced by it.
AllTakeTheirOwn == \A job \in Jobs(disk) : TakesOnlyItsOwn(disk, job, Run(disk, job))
=============================================================================
