---------------------------- MODULE OneFilesystem ----------------------------
(***************************************************************************)
(* A transfer within one filesystem (src-tauri/src/transfer/engine.rs): a  *)
(* move renames where it can, links are made again and not followed, and   *)
(* an item may meet itself, or the folder it is in, at its target.         *)
(*                                                                         *)
(* The disk is a folder of TargetFolder with the root, <<>>.  A link leads *)
(* to a path without links.  What a transfer does to a disk is an operator *)
(* of the disk and the job: move or copy, the items picked, where they go, *)
(* the answers to clashes, whether that is on another volume, whether      *)
(* links can be made, and which call fails (0 for none).                   *)
(***************************************************************************)
EXTENDS TargetFolder, FiniteSets

MaxDepth == 9   \* bound: the steps of a path

Link(to) == [kind |-> "link", data |-> <<>>, time |-> 0, by |-> "user", to |-> to]
Nothing == [kind |-> "none"]

RECURSIVE Canonical(_, _)
Canonical(disk, path) ==
  IF path = <<>> THEN path
  ELSE LET p == Append(Canonical(disk, Front(path)), Last(path))
       IN IF Exists(disk, p) /\ disk[p].kind = "link" THEN disk[p].to ELSE p

\* The path with the links above its last step followed.
Located(disk, path) ==
  IF path = <<>> THEN path ELSE Append(Canonical(disk, Front(path)), Last(path))
EntryAt(disk, path) == IF Exists(disk, path) THEN disk[path] ELSE Nothing
Lstat(disk, path) == EntryAt(disk, Located(disk, path))
Stat(disk, path) == EntryAt(disk, Canonical(disk, path))

SameEntry(disk, source, target) ==
  \/ source = target
  \/ Stat(disk, source) # Nothing /\ Canonical(disk, source) = Canonical(disk, target)

IsInside(disk, destination, folder) ==
  IsPrefix(Canonical(disk, folder), Canonical(disk, destination))

-----------------------------------------------------------------------------
(* The state of a transfer: the disk, whether it goes on, what became of    *)
(* the last item, the progress, and the ledger; and, for the properties,    *)
(* which paths the user agreed to replace and what was there.               *)

Start(disk, job) ==
  [disk |-> disk, plan |-> disk, ok |-> TRUE, out |-> "done", items |-> 0, skipped |-> 0,
   failsAt |-> job.failsAt, written |-> <<>>, agreed |-> {}, replaced |-> {}]

Picked == [copyOnly |-> FALSE, trail |-> {}, depth |-> 0]
Child(walk) == [walk EXCEPT !.depth = @ + 1]
Followed(walk, trail) == [copyOnly |-> TRUE, trail |-> trail, depth |-> walk.depth + 1]

\* A call that changes the disk, when it can and does not fail.
Attempt(w, can, disk) ==
  LET called == [w EXCEPT !.failsAt = IF @ = 0 THEN 0 ELSE @ - 1]
  IN IF can /\ w.failsAt # 1 THEN [called EXCEPT !.disk = disk] ELSE [called EXCEPT !.ok = FALSE]

Fails(w) == [w EXCEPT !.ok = FALSE]
Done(w) == [w EXCEPT !.out = "done"]
\* The progress: every entry below a planned folder.
StatsOf(w, source) ==
  IF IsFolder(w.plan, source) THEN Cardinality(Within(w.plan, source)) ELSE 1
Counts(w, items) == [w EXCEPT !.items = @ + items]
Skips(w, source) ==
  [Counts(w, StatsOf(w, source)) EXCEPT !.out = "skipped", !.skipped = @ + 1]

Moves(job, walk) == job.move /\ ~walk.copyOnly

Removable(disk, path) == Within(disk, path) = {path}
\* Not recursive: only an emptied folder goes, or the link itself.
Removes(w, source) ==
  LET path == Located(w.disk, source)
  IN Done(Attempt(w, Exists(w.disk, path) /\ Removable(w.disk, path), Removed(w.disk, path)))

FinishMove(w, job, source, walk) ==
  IF w.ok /\ Moves(job, walk) THEN Removes(w, source) ELSE Done(w)

-----------------------------------------------------------------------------
\* follow: a link that could not be made again.
Follow(disk, source, walk) ==
  LET trail == walk.trail \cup {Canonical(disk, Front(source))}
      loops == \E folder \in trail : IsPrefix(Canonical(disk, source), folder)
      handling == CASE Stat(disk, source) = Nothing -> "skip"
                    [] Stat(disk, source).kind # "folder" -> "file"
                    [] loops -> "skip"
                    [] OTHER -> "followed"
  IN [handling |-> handling, trail |-> trail]

UniqueTarget(disk, folder, name) ==
  Append(folder, Last(FirstFree(disk, Append(Canonical(disk, folder), name))))

\* decide, by the user's answer for clashes of one kind or of a folder with a file.
Decision(job, entry, existing) ==
  LET answer == IF (entry.kind = "folder") = (existing.kind = "folder")
                THEN job.answer ELSE job.otherwise
      overwriteIf(condition) == IF condition THEN "overwrite" ELSE "skip"
  IN CASE answer = "newer" -> overwriteIf(entry.time > existing.time)
       [] answer = "size" -> overwriteIf(Len(entry.data) # Len(existing.data))
       [] OTHER -> answer

\* place: the path an item goes to, and how; "skip" for nowhere.
RECURSIVE PlaceAt(_, _, _, _, _, _)
PlaceAt(w, job, source, entry, base, target) ==
  LET existing == Lstat(w.disk, target)
      unique == UniqueTarget(w.disk, Front(base), Last(base))
      again == PlaceAt(w, job, source, entry, base, unique)
      placed(how) == [target |-> target, how |-> how]
      decision == Decision(job, entry, existing)
  IN CASE existing = Nothing -> placed("fresh")
       [] SameEntry(w.disk, source, target) -> IF job.move THEN placed("skip") ELSE again
       [] target \in DOMAIN w.written /\ w.written[target] # source -> again
       [] entry.kind = "folder" /\ existing.kind = "folder" -> placed("merge")
       [] decision = "rename" -> again
       [] OTHER -> placed(decision)

Place(w, job, source, entry, destination, name) ==
  LET base == Append(destination, name) IN PlaceAt(w, job, source, entry, base, base)

\* What was agreed to is kept for the properties: to replace what was there
\* before the job, and never the item itself.
Placed(w, source, place) ==
  LET at == Located(w.disk, place.target)
      goes == Within(w.plan, at) \ Within(w.plan, source)
      written == [w EXCEPT !.written = (place.target :> source) @@ @]
  IN IF place.how # "overwrite" THEN written
     ELSE [written EXCEPT !.agreed = @ \cup {at}, !.replaced = @ \cup {w.plan[p].data : p \in goes}]

-----------------------------------------------------------------------------
\* Vfs::rename: never into itself, nor over a folder it is in.
MayRename(w, job, from, to, overwrite) ==
  /\ ~job.volumes
  /\ Exists(w.disk, from) /\ ~IsPrefix(from, to) /\ ~IsPrefix(to, from)
  /\ Exists(w.disk, to) => overwrite

Renames(w, job, source, place) ==
  LET from == Located(w.disk, source)
      to == Located(w.disk, place.target)
  IN Attempt(w, MayRename(w, job, from, to, place.how = "overwrite"), Renamed(w.disk, from, to))

\* copy_link and copy_file: written beside the target, then renamed to it.
PutsAt(w, target, entry) ==
  LET at == Located(w.disk, target) IN Attempt(w, TRUE, Put(Removed(w.disk, at), at, entry))
CopyLink(w, job, source, target) ==
  LET link == Lstat(w.disk, source)
      made == Attempt(w, job.links, w.disk)
  IN CASE link = Nothing -> [links |-> TRUE, w |-> Fails(w)]
       [] ~made.ok -> [links |-> FALSE, w |-> [made EXCEPT !.ok = TRUE]]
       [] OTHER -> [links |-> TRUE, w |-> Counts(PutsAt(made, target, link), 1)]
CopyFile(w, source, target) ==
  LET file == Stat(w.disk, source)
  IN IF file = Nothing THEN Fails(w)
     ELSE Counts(PutsAt(w, target, File(file.data, file.time, "copy")), 1)

\* transfer_folder, up to its items: what is in the way goes, the folder comes.
\* A path of MaxDepth steps is too long for the filesystem.
EnterFolder(w, place) ==
  LET at == Located(w.disk, place.target)
      cleared == IF place.how = "overwrite" THEN Attempt(w, TRUE, Removed(w.disk, at)) ELSE w
  IN CASE ~cleared.ok -> cleared
       [] place.how = "merge" -> Counts(w, 1)
       [] OTHER -> Counts(Attempt(cleared, Len(at) < MaxDepth, Put(cleared.disk, at, Folder("copy"))), 1)

NamesIn(disk, folder) ==
  LET real == Canonical(disk, folder)
  IN {Last(p) : p \in {q \in Within(disk, real) : Len(q) = Len(real) + 1}}

RECURSIVE Transfer(_, _, _, _, _, _)

LeaveFolder(w, source, complete, removeSource) ==
  CASE ~removeSource -> Done(w)
    [] ~complete -> [w EXCEPT !.out = "skipped"]
    [] OTHER -> Removes(w, source)

TransferFolder(w, job, source, place, below, removeSource) ==
  LET entered == EnterFolder(w, place)
      item(name) == [path |-> Append(source, name), name |-> name,
                     entry |-> Lstat(entered.disk, Append(source, name))]
      items == SetToSeq({item(name) : name \in NamesIn(entered.disk, source)})
      next(sofar, child) ==
        IF ~sofar.w.ok THEN sofar
        ELSE LET after == Transfer(sofar.w, job, child, place.target, child.name, below)
             IN [w |-> after, complete |-> sofar.complete /\ after.out = "done"]
      all == FoldLeft(next, [w |-> entered, complete |-> TRUE], items)
  IN CASE ~entered.ok \/ ~(Stat(entered.disk, source).kind = "folder") -> Fails(entered)
       [] ~all.w.ok -> all.w
       [] OTHER -> LeaveFolder(all.w, source, all.complete, removeSource)

\* dispatch: what is not renamed, by how it is handled.
Handle(w, job, source, handling, place, walk, trail) ==
  CASE handling = "skip" -> Skips(w, source)
    [] handling = "file" ->
         FinishMove(CopyFile(w, source, place.target), job, source, walk)
    [] handling = "folder" ->
         TransferFolder(w, job, source, place, Child(walk), Moves(job, walk))
    [] handling = "followed" ->
         TransferFolder(w, job, source, place, Followed(walk, trail), Moves(job, walk))

HandleLink(w, job, source, place, walk) ==
  LET copied == CopyLink(w, job, source, place.target)
      followed == Follow(w.disk, source, walk)
  IN IF copied.links THEN FinishMove(copied.w, job, source, walk)
     ELSE Handle(copied.w, job, source, followed.handling, place, walk, followed.trail)

\* transfer: one item, which its folder's listing said is `known.entry`.
Transfer(w, job, known, destination, name, walk) ==
  LET source == known.path
      entry == known.entry
      place == Place(w, job, source, entry, destination, name)
      here == Placed(w, source, place)
      renamed == Renames(here, job, source, place)
      tried == Moves(job, walk) /\ place.how # "merge"
      rest == IF tried THEN [renamed EXCEPT !.ok = TRUE] ELSE here
  IN CASE entry.kind = "other" -> Skips(w, source)
       [] walk.depth = 0 /\ entry.kind = "folder" /\ IsInside(w.disk, destination, source) ->
            Fails(w)
       [] place.how = "skip" -> Skips(w, source)
       [] tried /\ renamed.ok -> Done(Counts(renamed, StatsOf(w, source)))
       [] entry.kind = "link" -> HandleLink(rest, job, source, place, walk)
       [] OTHER -> Handle(rest, job, source, entry.kind, place, walk, {})

\* run: the items picked, one after the other, until one fails.
Run(disk, job) ==
  LET next(w, source) ==
        IF ~w.ok THEN w
        ELSE IF Lstat(w.disk, source) = Nothing THEN Fails(w)
        ELSE Transfer(w, job, [path |-> source, entry |-> Lstat(w.disk, source)],
                      job.destination, Last(source), Picked)
  IN IF Stat(disk, job.destination).kind # "folder" THEN Fails(Start(disk, job))
     ELSE FoldLeft(next, Start(disk, job), job.picked)

\* plan, and measure: every entry, links as they are.
Planned(disk, job) ==
  FoldLeft(LAMBDA n, source : n + Cardinality(Within(disk, Located(disk, source))),
           0, job.picked)
-----------------------------------------------------------------------------
DataIn(disk) == {disk[p].data : p \in {q \in DOMAIN disk : disk[q].kind = "file"}}
Holding(disk, data) == {p \in DOMAIN disk : disk[p].data = data}
Under(path, tops) == \E top \in tops : IsPrefix(top, path)

\* Of the transfer w of a job on a disk.  Whatever call fails: no file is lost
\* but where the user agreed to replace it, and only what was picked for
\* moving, or agreed to be replaced, changes; in particular nothing that a
\* link leads to.
TakesOnlyItsOwn(disk, job, w) ==
  LET own == w.agreed \cup IF job.move THEN {Located(disk, p) : p \in ToSet(job.picked)} ELSE {}
  IN /\ DataIn(disk) \subseteq DataIn(w.disk) \cup w.replaced
     /\ \A p \in DOMAIN disk : Under(p, own) \/ EntryAt(w.disk, p) = disk[p]

\* The user agreed to replace what is picked, or a folder that it is in, or
\* something in it.
ReplacesItsFolder(disk, job, w) ==
  \E p \in w.agreed, q \in ToSet(job.picked) : IsPrefix(p, Located(disk, q))
ReplacesPicked(disk, job, w) ==
  \/ ReplacesItsFolder(disk, job, w)
  \/ \E p \in w.agreed, q \in ToSet(job.picked) : IsPrefix(Located(disk, q), p)

\* "Only the picked items can contain the destination: below them, the walk
\* never leaves the folder being transferred" (transfer): no walk goes on until
\* paths get too long.
WalkEnds(w) == \A p \in DOMAIN w.disk : Len(p) < MaxDepth - 1

\* A link leads to a folder that the destination is in.
LeadsHere(disk, job) ==
  \E p \in DOMAIN disk :
    disk[p].kind = "link" /\ IsPrefix(disk[p].to, Canonical(disk, job.destination))

\* A transfer that says it is done, with nothing skipped, has put every file
\* picked somewhere else, and a move has left none of them; and the progress
\* bar has reached its end.
DoneIsWhole(disk, job, w) ==
  LET files == {p \in DOMAIN disk : /\ Under(p, ToSet(job.picked))
                                    /\ disk[p].kind = "file" /\ disk[p].data \notin w.replaced}
  IN /\ w.ok /\ w.skipped = 0 =>
          \A p \in files : /\ Holding(w.disk, disk[p].data) \ {p} # {}
                           /\ job.move => p \notin Holding(w.disk, disk[p].data)
     /\ w.ok /\ ~ReplacesPicked(disk, job, w) => w.items >= Planned(disk, job)
=============================================================================
