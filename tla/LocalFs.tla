------------------------------- MODULE LocalFs -------------------------------
(***************************************************************************)
(* This machine's filesystem in the file manager: the Vfs provider of      *)
(* src-tauri/src/vfs/local.rs and the fs_* commands of vfs/commands.rs     *)
(* that change files through it.  A command is a task of its own; its      *)
(* system calls interleave with those of the others.                       *)
(*                                                                         *)
(* The disk is a function from absolute paths (sequences of names, as      *)
(* texts of VfsPaths) to entries.  Links lead to folders or files by a     *)
(* path without links.  A mode is what its owner may do.                   *)
(***************************************************************************)
EXTENDS VfsPaths, Integers, Functions, FiniteSetsExt

CONSTANTS
  Calls,      \* the commands that run
  Requests,   \* what each may be asked to do
  Builds,     \* "unix" and "windows": the builds to look at
  Disks,      \* the disks to begin with
  MaxFaults   \* how many system calls fail for a reason of their own

VARIABLES
  build,      \* the operating system
  disk,       \* what is on it
  original,   \* what was on it in the beginning
  calls,      \* the commands
  faults      \* failures so far

vars == <<build, disk, original, calls, faults>>

T == INSTANCE TargetFolder

Bits == {"r", "w", "x"}
Unknown == {"unknown"}
NoEntry == [id |-> 0, kind |-> "none", mode |-> Unknown, readonly |-> FALSE,
            dirlink |-> FALSE, to |-> <<>>]
NewFolder(id) == [NoEntry EXCEPT !.id = id, !.kind = "folder", !.mode = Bits]

IsFolderAt(there, path) == path \in DOMAIN there /\ there[path].kind = "folder"
IsLinkAt(there, path) == path \in DOMAIN there /\ there[path].kind = "link"
Ids(there) == {there[p].id : p \in DOMAIN there}

-----------------------------------------------------------------------------
(* The system calls of std::fs and dunce.                                  *)

Lower(text) == [i \in DOMAIN text |-> IF text[i] = "A" THEN "a" ELSE text[i]]

\* Windows finds a name in any case.
Spelled(folder, name) ==
  LET plain == Append(folder, name)
      same == {p \in DOMAIN disk \ {<<>>} : Front(p) = folder /\ Lower(Last(p)) = Lower(name)}
  IN IF build = "unix" \/ plain \in DOMAIN disk \/ same = {}
       THEN plain ELSE CHOOSE p \in same : TRUE

Followed(path) == IF IsLinkAt(disk, path) THEN disk[path].to ELSE path
RECURSIVE RealPath(_)
RealPath(path) ==
  IF path = <<>> THEN <<>> ELSE Followed(Spelled(RealPath(Front(path)), Last(path)))

\* Where the entry itself is (a link is not followed), and where a new one
\* of that name goes.
Located(path) == Spelled(RealPath(Front(path)), Last(path))
Spot(path) == Append(RealPath(Front(path)), Last(path))

Searchable(path) ==
  build = "unix" =>
    \A k \in 0 .. Len(path) - 1 :
      IsFolderAt(disk, SubSeq(path, 1, k)) => "x" \in disk[SubSeq(path, 1, k)].mode

Exists(path) == Searchable(Located(path)) /\ Located(path) \in DOMAIN disk
Stats(path) == Searchable(RealPath(path)) /\ RealPath(path) \in DOMAIN disk

MayChange(folder) ==
  /\ IsFolderAt(disk, folder)
  /\ Searchable(folder)
  /\ build = "unix" => {"w", "x"} \subseteq disk[folder].mode

\* rename(2), MoveFileEx: what it refuses.
MayRename(from, to) ==
  LET source == Located(from)
      target == Spot(to)
      there == Located(to)
  IN /\ Exists(from)
     /\ MayChange(Front(source))
     /\ MayChange(Front(target))
     /\ ~(IsPrefix(source, target) /\ source # target)
     /\ there \in DOMAIN disk /\ there # source =>
          IF build = "windows"
            THEN disk[there].kind # "folder" /\ ~disk[there].dirlink /\ ~disk[there].readonly
            ELSE IF disk[there].kind = "folder"
                   THEN disk[source].kind = "folder" /\ T!Within(disk, there) = {there}
                   ELSE disk[source].kind # "folder"

AfterRename(from, to) ==
  LET source == Located(from)
      cleared == IF Located(to) = source THEN disk ELSE T!Removed(disk, Located(to))
  IN IF source = Spot(to) THEN disk ELSE T!Renamed(cleared, source, Spot(to))

-----------------------------------------------------------------------------
(* Commands.                                                               *)

\* todo: the entries a walk has still to look at; saw: what a look found;
\* failed: the calls that failed and did not end the command.
Idle ==
  [op |-> "none", step |-> "idle", path |-> <<>>, rest |-> <<>>, to |-> <<>>, overwrite |-> FALSE,
   change |-> [set |-> {}, clear |-> {}], recursive |-> FALSE, saw |-> NoEntry,
   todo |-> <<>>, done |-> 0, failed |-> 0, result |-> "none"]

Init ==
  /\ build \in Builds
  /\ disk \in Disks /\ original = disk
  /\ calls = [c \in Calls |-> Idle]
  /\ faults = 0

Goto(c, step) == calls' = [calls EXCEPT ![c].step = step]
End(c, result) ==
  calls' = [calls EXCEPT ![c].step = "over", ![c].result = result,
                         ![c].todo = <<>>, ![c].rest = <<>>, ![c].saw = NoEntry]

\* A system call that fails for a reason of its own (a file another program
\* keeps open, a full disk).
Faulty == faults < MaxFaults /\ faults' = faults + 1
Sound == UNCHANGED faults

\* A command begins.  A typed name must be one here; fs_rename never
\* overwrites, the renames of transfers and edits may.
Begin(c) ==
  /\ calls[c].step = "idle"
  /\ \E request \in Requests :
       calls' = [calls EXCEPT ![c] =
         LET asked == [f \in DOMAIN request \ {"name"} |-> request[f]] @@ Idle
         IN CASE request.op \notin {"rename", "mkdir"} -> [asked EXCEPT !.step = "first"]
              [] ~IsNativeName(request.name, build) ->
                   [asked EXCEPT !.step = "over", !.result = "invalid name"]
              [] OTHER -> [asked EXCEPT !.step = "first",
                                        !.to = Append(asked.to, request.name)]]
  /\ UNCHANGED <<build, disk, original, faults>>

At(c, op, step) == calls[c].op = op /\ calls[c].step = step

\* fs_mkdir.
MakeFolder(c) ==
  LET spot == Located(calls[c].to)
      may == MayChange(Front(spot)) /\ spot \notin DOMAIN disk
  IN /\ At(c, "mkdir", "first")
     /\ \/ may /\ disk' = T!Put(disk, spot, NewFolder(-c)) /\ End(c, "ok") /\ Sound
        \/ ~may /\ End(c, "error") /\ Sound /\ UNCHANGED disk
     /\ UNCHANGED <<build, original>>

-----------------------------------------------------------------------------
(* rename: look at the target, then act on what was seen.                  *)

RenameLook(c) ==
  LET to == calls[c].to
  IN /\ At(c, "rename", "first")
     /\ \/ Exists(to) /\ calls' = [calls EXCEPT ![c].step = "compare",
                                               ![c].saw = disk[Located(to)]]
        \/ Searchable(Located(to)) /\ ~Exists(to) /\ Goto(c, "plain")
        \/ ~Searchable(Located(to)) /\ End(c, "error")
     /\ UNCHANGED <<build, disk, original, faults>>

\* same_entry: both resolve, and to the same path.
SameEntry(from, to) ==
  Stats(from) /\ Stats(to) /\ RealPath(from) = RealPath(to)

IsDirectoryLink(entry) == build = "windows" /\ entry.dirlink

RenameCompare(c) ==
  LET call == calls[c]
      saw == call.saw
  IN /\ call.step = "compare"
     /\ CASE SameEntry(call.path, call.to) -> Goto(c, "plain")
          [] ~SameEntry(call.path, call.to) /\ ~call.overwrite -> End(c, "exists")
          [] OTHER -> Goto(c, IF saw.kind = "folder" \/ IsDirectoryLink(saw)
                                THEN "aside" ELSE "replace")
     /\ UNCHANGED <<build, disk, original, faults>>

\* fs::rename, one step: done, refused or failed.
Rename(from, to, then, else) ==
  /\ \/ MayRename(from, to) /\ disk' = AfterRename(from, to) /\ then /\ Sound
     \/ ~MayRename(from, to) /\ else /\ Sound /\ UNCHANGED disk
     \/ else /\ Faulty /\ UNCHANGED disk
  /\ UNCHANGED <<build, original>>

RenamePlain(c) ==
  /\ calls[c].step = "plain"
  /\ Rename(calls[c].path, calls[c].to, End(c, "ok"), End(c, "error"))

\* rename_over: Windows refuses to replace a read-only file, so its flag is
\* lifted for the rename and set again if that fails.  Lifting may fail, which
\* ends the rename; so may setting it again, which nobody is told.
MustLift(c) == build = "windows" /\ calls[c].saw.readonly

SetReadonly(path, readonly) ==
  disk' = IF Located(path) \in DOMAIN disk
            THEN [disk EXCEPT ![Located(path)].readonly = readonly] ELSE disk

Lift(c) ==
  /\ calls[c].step = "replace" /\ MustLift(c)
  /\ \/ SetReadonly(calls[c].to, FALSE) /\ Goto(c, "lifted") /\ Sound
     \/ End(c, "error") /\ Faulty /\ UNCHANGED disk
  /\ UNCHANGED <<build, original>>

RenameOver(c) ==
  /\ calls[c].step = IF MustLift(c) THEN "lifted" ELSE "replace"
  /\ Rename(calls[c].path, calls[c].to, End(c, "ok"),
            IF MustLift(c) THEN Goto(c, "restore") ELSE End(c, "error"))

Restore(c) ==
  /\ calls[c].step = "restore"
  /\ \/ SetReadonly(calls[c].to, TRUE) /\ End(c, "error") /\ Sound
     \/ /\ calls' = [calls EXCEPT ![c].step = "over", ![c].result = "error", ![c].failed = 1,
                                  ![c].saw = NoEntry]
        /\ Faulty /\ UNCHANGED disk
  /\ UNCHANGED <<build, original>>

\* replace_folder: nothing can be renamed over a folder, so it is moved
\* aside, replaced and then deleted; or moved back.
Aside(c) == Append(Front(calls[c].to), <<"old", ToString(c)>>)

MoveAside(c) ==
  /\ calls[c].step = "aside"
  /\ Rename(calls[c].to, Aside(c), Goto(c, "swap"), End(c, "error"))

\* Mutant of PutInPlace: the old folder is not put back.
PutInPlaceOnly(c) ==
  /\ calls[c].step = "swap"
  /\ Rename(calls[c].path, calls[c].to, Goto(c, "tidy"), End(c, "error"))

PutInPlace(c) ==
  /\ calls[c].step = "swap"
  /\ Rename(calls[c].path, calls[c].to, Goto(c, "tidy"), Goto(c, "back"))

PutBack(c) ==
  /\ calls[c].step = "back"
  /\ Rename(Aside(c), calls[c].to, End(c, "error"), End(c, "left aside"))

-----------------------------------------------------------------------------
(* remove, for fs_delete and for the folder a rename moved aside.          *)

Doomed(c) == IF calls[c].op = "rename" THEN Aside(c) ELSE calls[c].path

\* What becomes of an old folder does not matter to the rename; fs_delete goes
\* on to what else it was given, unless this one failed.
Removed(c, result) ==
  LET call == calls[c]
  IN CASE call.op = "rename" -> End(c, "ok")
       [] call.op = "delete" /\ result = "ok" /\ call.rest # <<>> ->
            calls' = [calls EXCEPT ![c].step = "first", ![c].saw = NoEntry,
                                   ![c].path = Head(call.rest), ![c].rest = Tail(call.rest)]
       [] OTHER -> End(c, result)

\* Lifting the read-only flag, which Windows needs here too, is part of the look.
RemoveLook(c) ==
  LET doomed == Located(Doomed(c))
      readonly == build = "windows" /\ disk[doomed].readonly
  IN /\ At(c, "delete", "first") \/ calls[c].step = "tidy"
     /\ \/ /\ Exists(Doomed(c))
           /\ calls' = [calls EXCEPT ![c].step = "removing", ![c].saw = disk[doomed]]
           /\ IF readonly THEN SetReadonly(doomed, FALSE) ELSE UNCHANGED disk
           /\ Sound
        \/ ~Exists(Doomed(c)) /\ Removed(c, "error") /\ Sound /\ UNCHANGED disk
        \/ Exists(Doomed(c)) /\ readonly /\ Removed(c, "error") /\ Faulty /\ UNCHANGED disk
     /\ UNCHANGED <<build, original>>

\* Mutant of Remaining: what a link leads to is taken for a folder's contents.
RemainingFollowed(c) ==
  LET top == RealPath(Doomed(c)) IN T!Within(disk, top)

\* What remove_dir_all has still to remove: the folder and what it holds,
\* links as they are.
Remaining(c) ==
  LET top == Located(Doomed(c))
  IN IF calls[c].saw.kind = "folder" THEN T!Within(disk, top) ELSE {top} \cap DOMAIN disk

\* One entry that holds no other goes, the top one last.
RemoveEntry(c) ==
  /\ calls[c].step = "removing"
  /\ \/ \E p \in Remaining(c) :
          /\ T!Within(disk, p) = {p}
          /\ \/ /\ MayChange(Front(p))
                /\ disk' = T!Removed(disk, p) /\ Sound
                /\ IF Remaining(c) = {p} THEN Removed(c, "ok") ELSE UNCHANGED calls
             \/ ~MayChange(Front(p)) /\ Removed(c, "error") /\ Sound /\ UNCHANGED disk
             \/ Removed(c, "error") /\ Faulty /\ UNCHANGED disk
     \/ Remaining(c) = {} /\ Removed(c, "error") /\ Sound /\ UNCHANGED disk
  /\ UNCHANGED <<build, original>>

-----------------------------------------------------------------------------
(* chmod and folder_size walk a folder.                                    *)

\* ModeChange::apply: the bits set on, those cleared off, the rest kept;
\* Unknown when the old mode is and the change does not decide every bit.
Apply(change, old) ==
  CASE old # Unknown -> (old \ change.clear) \cup change.set
    [] old = Unknown /\ change.set \cup change.clear = Bits -> change.set
    [] OTHER -> Unknown

\* A folder one may read must stay one that opens.
Openable(mode) == IF "r" \in mode THEN mode \cup {"x"} ELSE mode

MetaOf(entry) == IF build = "windows" THEN [entry EXCEPT !.mode = Unknown] ELSE entry

\* list: what read_dir finds, links not followed; what cannot be looked at
\* is unknown.
Lists(path) ==
  LET real == RealPath(path)
  IN /\ IsFolderAt(disk, real) /\ Searchable(real)
     /\ build = "unix" => "r" \in disk[real].mode

Listed(path) ==
  LET real == RealPath(path)
      inside == {p \in DOMAIN disk : Len(p) = Len(real) + 1 /\ IsPrefix(real, p)}
      look(p) == IF build = "unix" /\ "x" \notin disk[real].mode
                   THEN NoEntry ELSE MetaOf(disk[p])
  IN SetToSeq({[path |-> Append(path, Last(p)), meta |-> look(p), listed |-> FALSE] : p \in inside})

MaySetMode(path) == Stats(path)
SetMode(path, mode) ==
  disk' = IF build = "windows"
            THEN [disk EXCEPT ![RealPath(path)].readonly = "w" \notin mode]
            ELSE [disk EXCEPT ![RealPath(path)].mode = mode]

\* The top: a link given directly stands for its target.
ChmodTop(c) ==
  LET call == calls[c]
      top == [path |-> call.path, meta |-> MetaOf(disk[RealPath(call.path)]), listed |-> FALSE]
  IN /\ At(c, "chmod", "first")
     /\ IF Stats(call.path)
          THEN calls' = [calls EXCEPT ![c].todo = <<top>>,
                 ![c].step = IF call.recursive /\ top.meta.kind = "folder"
                               THEN "walk" ELSE "single"]
          ELSE End(c, "error")
     /\ UNCHANGED <<build, disk, original, faults>>

ChmodSingle(c) ==
  LET call == calls[c]
      mode == Apply(call.change, call.todo[1].meta.mode)
      may == mode # Unknown /\ MaySetMode(call.path)
  IN /\ calls[c].step = "single"
     /\ \/ may /\ SetMode(call.path, mode) /\ End(c, "ok") /\ Sound
        \/ ~may /\ End(c, "error") /\ Sound /\ UNCHANGED disk
        \/ End(c, "error") /\ Faulty /\ UNCHANGED disk
     /\ UNCHANGED <<build, original>>

Walks(c) == calls[c].step = "walk" /\ calls[c].todo # <<>>
Item(c) == Last(calls[c].todo)
Later(c) == Front(calls[c].todo)

\* A folder's contents come before the folder itself.
MustList(item) == item.meta.kind = "folder" /\ ~item.listed

ChmodSkip(c) ==
  /\ Walks(c) /\ Item(c).meta.kind = "link"
  /\ calls' = [calls EXCEPT ![c].todo = Later(c)]
  /\ UNCHANGED <<build, disk, original, faults>>

\* Mutant of ChmodList: the folder itself comes first.
ChmodListAfter(c) ==
  LET item == Item(c)
      again == [item EXCEPT !.listed = TRUE]
  IN /\ Walks(c) /\ MustList(item)
     /\ calls' = IF Lists(item.path)
                   THEN [calls EXCEPT ![c].todo = (Later(c) \o Listed(item.path)) \o <<again>>]
                   ELSE [calls EXCEPT ![c].todo = Append(Later(c), again), ![c].failed = @ + 1]
     /\ UNCHANGED <<build, disk, original, faults>>

ChmodList(c) ==
  LET item == Item(c)
      again == Append(Later(c), [item EXCEPT !.listed = TRUE])
  IN /\ Walks(c) /\ MustList(item)
     /\ calls' = IF Lists(item.path)
                   THEN [calls EXCEPT ![c].todo = again \o Listed(item.path)]
                   ELSE [calls EXCEPT ![c].todo = again, ![c].failed = @ + 1]
     /\ UNCHANGED <<build, disk, original, faults>>

ChmodItem(c) ==
  LET item == Item(c)
      decided == Apply(calls[c].change, item.meta.mode)
      mode == IF item.meta.kind = "folder" THEN Openable(decided) ELSE decided
      may == decided # Unknown /\ MaySetMode(item.path)
      fails == calls' = [calls EXCEPT ![c].todo = Later(c), ![c].failed = @ + 1]
  IN /\ Walks(c) /\ item.meta.kind # "link" /\ ~MustList(item)
     /\ \/ /\ may /\ SetMode(item.path, mode) /\ Sound
           /\ calls' = [calls EXCEPT ![c].todo = Later(c), ![c].done = @ + 1]
        \/ ~may /\ fails /\ Sound /\ UNCHANGED disk
        \/ fails /\ Faulty /\ UNCHANGED disk
     /\ UNCHANGED <<build, original>>

ChmodEnd(c) ==
  /\ calls[c].step = "walk" /\ calls[c].todo = <<>>
  /\ End(c, IF calls[c].failed = 0 THEN "ok" ELSE "error")
  /\ UNCHANGED <<build, disk, original, faults>>

\* folder_size: a folder that cannot be read is left out, except the first.
\* The order of the listings that wait does not matter to what is counted.
SizeTop(c) ==
  LET path == calls[c].path
  IN /\ At(c, "size", "first")
     /\ IF Lists(path)
          THEN calls' = [calls EXCEPT ![c].step = "count", ![c].todo = Listed(path)]
          ELSE End(c, "error")
     /\ UNCHANGED <<build, disk, original, faults>>

SizeItem(c) ==
  LET item == Head(calls[c].todo)
      inside == IF item.meta.kind = "folder" /\ Lists(item.path)
                  THEN Listed(item.path) ELSE <<>>
  IN /\ calls[c].step = "count"
     /\ IF calls[c].todo = <<>>
          THEN End(c, "ok")
          ELSE calls' = [calls EXCEPT ![c].done = @ + 1,
                                      ![c].todo = Tail(@) \o inside]
     /\ UNCHANGED <<build, disk, original, faults>>

-----------------------------------------------------------------------------
RenameStep(c) ==
  \/ RenameLook(c) \/ RenameCompare(c) \/ RenamePlain(c)
  \/ Lift(c) \/ RenameOver(c) \/ Restore(c)
  \/ MoveAside(c) \/ PutInPlace(c) \/ PutBack(c)

RemoveStep(c) == RemoveLook(c) \/ RemoveEntry(c)

WalkStep(c) ==
  \/ ChmodTop(c) \/ ChmodSingle(c) \/ ChmodSkip(c) \/ ChmodList(c) \/ ChmodItem(c) \/ ChmodEnd(c)
  \/ SizeTop(c) \/ SizeItem(c)

CallStep(c) == MakeFolder(c) \/ RenameStep(c) \/ RemoveStep(c) \/ WalkStep(c)

Next == \E c \in Calls : Begin(c) \/ CallStep(c)

Spec == Init /\ [][Next]_vars

-----------------------------------------------------------------------------
(* Properties.                                                             *)

Under(there, path) == {there[p].id : p \in T!Within(there, path)}

MayTake(c, path) ==
  LET call == calls[c]
  IN \/ call.step = "removing" /\ IsPrefix(Located(Doomed(c)), path)
     \/ /\ \/ call.step \in {"replace", "lifted"} /\ call.overwrite
           \/ call.step = "plain" /\ call.saw = NoEntry
           \/ call.step \in {"swap", "back"}
        /\ path = Located(call.to)

\* Whatever vanishes from the disk was below what a command was asked to
\* delete, was replaced by a rename that may overwrite, or took a place that
\* was free when another command looked: nothing is deleted through a link,
\* and no replaced folder goes before the new entry is in its place.
OnlyWhatWasAsked ==
  [][\A p \in DOMAIN disk :
       disk[p].id \notin Ids(disk') => \E c \in Calls : MayTake(c, p)]_vars

Alone(c) == \A d \in Calls \ {c} : calls[d].step = "idle"

\* The disk with a file that is not read-only any more.
Writable(there, path) == [there EXCEPT ![Located(path)].readonly = FALSE]

\* What rename promises (Vfs::rename): at any moment, so also if the program
\* dies there, what it moves is on the disk, and so is all it replaces until
\* the new entry is in its place; a rename that fails leaves the disk as it
\* was, or says that the old folder is beside it, or else could not make a file
\* read-only again, of which it says nothing (`let _` in rename_over).
ReplacedOrKept ==
  \A c \in Calls : calls[c].op = "rename" /\ calls[c].step # "idle" /\ Alone(c) =>
    LET call == calls[c]
        placed == /\ Located(call.to) \in DOMAIN disk
                  /\ disk[Located(call.to)].id = original[call.path].id
    IN /\ placed \/ Ids(original) \subseteq Ids(disk)
       /\ Under(original, call.path) \subseteq Ids(disk)
       /\ call.result \in {"error", "exists", "invalid name"} =>
            disk = IF call.failed = 0 THEN original ELSE Writable(original, call.to)
       /\ call.result = "ok" => placed
       /\ call.result = "left aside" =>
            Under(disk, Aside(c)) = Under(original, Located(call.to))

Wanted(path, change, entry) ==
  LET mode == Apply(change, MetaOf(entry).mode)
      full == IF entry.kind = "folder" THEN Openable(mode) ELSE mode
  IN CASE entry.kind = "link" -> entry
       [] build = "windows" -> [entry EXCEPT !.readonly = "w" \notin full]
       [] OTHER -> [entry EXCEPT !.mode = full]

\* A recursive chmod changes only what is in the folder, never what a link
\* in it leads to, every entry to its own old bits as changed; and where
\* every folder could be opened before, it reaches every entry, even when the
\* new mode closes the folders.
ChmodReachesAll ==
  \A c \in Calls : At(c, "chmod", "over") /\ calls[c].recursive /\ Alone(c) =>
    LET call == calls[c]
        top == RealPath(call.path)
        tree == T!Within(original, top)
        wanted(p) == Wanted(p, call.change, original[p])
        open == \A p \in tree : IsFolderAt(original, p) => {"r", "x"} \subseteq original[p].mode
        known == build = "unix" \/ call.change.set \cup call.change.clear = Bits
    IN IsFolderAt(original, top) =>
         /\ \A p \in DOMAIN original \ tree : disk[p] = original[p]
         /\ \A p \in tree : disk[p] = original[p] \/ (known /\ disk[p] = wanted(p))
         /\ call.result = "ok" => \A p \in tree : disk[p] = wanted(p)
         /\ open /\ known /\ faults = 0 => call.result = "ok"

\* folder_size ends whatever the links lead to, and counts each entry of the
\* folders it can open once.
SizeCountsOnce ==
  \A c \in Calls : calls[c].op = "size" /\ calls[c].step \in {"count", "over"} /\ Alone(c) =>
    LET call == calls[c]
        inside == T!Within(original, RealPath(call.path)) \ {RealPath(call.path)}
        closed == {p \in inside : \E q \in inside : /\ IsPrefix(q, p) /\ q # p /\ build = "unix"
                                                   /\ ~({"r", "x"} \subseteq original[q].mode)}
    IN /\ call.done + Len(call.todo) <= Cardinality(inside)
       /\ call.result = "ok" => call.done >= Cardinality(inside \ closed)

\* "Rename in place. Never replaces an existing entry." (vfs/commands.rs,
\* fs_rename): what a rename without overwrite looked at outlives it.
NeverReplaces ==
  [][\A c \in Calls :
       At(c, "rename", "plain") /\ ~calls[c].overwrite /\ calls[c].saw # NoEntry
         => calls[c].saw.id \in Ids(disk')]_vars
=============================================================================
