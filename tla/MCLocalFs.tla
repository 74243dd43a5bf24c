------------------------------ MODULE MCLocalFs ------------------------------
(* Small disks and the commands to run on them, for LocalFs.               *)
EXTENDS LocalFs

a == <<"a">>
b == <<"b">>
d == <<"d">>
l == <<"l">>
t == <<"t">>
o == <<"o">>

Entry(id, kind, mode) == [NoEntry EXCEPT !.id = id, !.kind = kind, !.mode = mode]
Link(id, to) == [NoEntry EXCEPT !.id = id, !.kind = "link", !.dirlink = TRUE,
                                !.to = to, !.mode = Bits]

\* /t holds a file, a folder with a file and a link back up, and a link out
\* to /o.
Disk(dMode, readonly) ==
  <<>> :> Entry(1, "folder", Bits)
  @@ <<t>> :> Entry(2, "folder", Bits)
  @@ <<t, a>> :> [Entry(3, "file", {"r", "w"}) EXCEPT !.readonly = readonly]
  @@ <<t, d>> :> Entry(4, "folder", dMode)
  @@ <<t, d, a>> :> Entry(5, "file", {"r"})
  @@ <<t, d, l>> :> Link(6, <<t>>)
  @@ <<t, l>> :> Link(7, <<o>>)
  @@ <<o>> :> Entry(8, "folder", Bits)
  @@ <<o, a>> :> Entry(9, "file", {"r"})

SomeDisks == {Disk(Bits, FALSE), Disk({"r", "x"}, TRUE), Disk({"w", "x"}, FALSE)}

\* fs_rename, in place; and the renames of transfers and edits.
FsRename(path, name) == [op |-> "rename", path |-> path, to |-> Front(path), name |-> name]
Replace(path, folder, name) ==
  [op |-> "rename", path |-> path, to |-> folder, name |-> name, overwrite |-> TRUE]
Mkdir(folder, name) == [op |-> "mkdir", to |-> folder, name |-> name]
Delete(path, rest) == [op |-> "delete", path |-> path, rest |-> rest]
Chmod(path, set, clear, recursive) ==
  [op |-> "chmod", path |-> path, change |-> [set |-> set, clear |-> clear], recursive |-> recursive]
Size(path) == [op |-> "size", path |-> path]

SomeRequests ==
  { FsRename(<<t, a>>, d), FsRename(<<t, a>>, <<"A">>), FsRename(<<t, a>>, b),
    FsRename(<<t, d>>, <<".", ".">>),
    Replace(<<o, a>>, <<t>>, d), Replace(<<t, d>>, <<o>>, a), Replace(<<t, d, a>>, <<t>>, a),
    Mkdir(<<t>>, b), Mkdir(<<t>>, d),
    Delete(<<t, l>>, <<>>), Delete(<<t, l>>, << <<t, a>>, <<t, d>> >>),
    Chmod(<<t>>, {}, {"r", "x"}, TRUE), Chmod(<<t>>, {"r", "w"}, {"x"}, TRUE),
    Chmod(<<t, l>>, {"w"}, {}, FALSE),
    Size(<<t>>) }

\* A link renamed to what it leads to, in one folder.
LinkDisk ==
  <<>> :> Entry(1, "folder", Bits)
  @@ <<a>> :> Entry(2, "file", {"r", "w"})
  @@ <<l>> :> [Link(3, <<a>>) EXCEPT !.dirlink = FALSE]

LinkDisks == {LinkDisk}
LinkRequests == {FsRename(<<l>>, a), FsRename(<<l>>, b), FsRename(<<a>>, b), Mkdir(<<>>, b)}

-----------------------------------------------------------------------------
Texts(chars, length) == UNION {[1 .. k -> chars] : k \in 1 .. length}
Names == Texts({"/", ".", "a", "\\", ":", "con", " ", "bad"}, 3)
Bases == Texts({"/", ".", "a"}, 2) \ {<<"/", "/">>}

\* Joining a folder and a name and taking the path apart again give the two
\* back, never a path outside the folder; what Windows stores for a remote
\* name is one plain name it can store, and storing that changes no more;
\* copies of a name differ; a path comes back from its token.  Evaluated once
\* for each build.
NamesSurvive ==
  (\A c \in Calls : calls[c] = Idle) /\ disk = Disk(Bits, FALSE) =>
    /\ \A name \in Names :
         /\ StoresAsItself(name) /\ CopiesDiffer(name)
         /\ TokenReturns(Native(name), build) /\ TokenReturns(Posix(name), build)
    /\ \A base \in Bases, name \in Names :
         ComesApart(base, name) /\ ComesApartNatively(base, name, build)

Transfers == INSTANCE MCOneFilesystem

\* The walks through folders: each ends, and is about the folder it was asked
\* about.  Transfers, whose walk changes what it walks through, take only what
\* is their own and are whole when done: they do not depend on the state, and
\* are looked at once.
WalksAreWhole ==
  /\ ChmodReachesAll /\ SizeCountsOnce
  /\ (\A c \in Calls : calls[c] = Idle) /\ disk = Disk(Bits, FALSE) /\ build = "unix" =>
       \A tree \in Transfers!Trees : Transfers!TransfersAreWhole(tree)
=============================================================================
