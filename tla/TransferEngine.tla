---------------------------- MODULE TransferEngine ----------------------------
(***************************************************************************)
(* The engine of a transfer job (src-tauri/src/transfer/engine.rs), between *)
(* two filesystems: it walks the picked items, decides where each lands,   *)
(* stages files beside their target and renames them into place, and moves *)
(* by removing the source last.  When a connection drops, the job keeps    *)
(* its engine and runs it again from the start; the ledger says what it    *)
(* did.  Several jobs may write to one folder at a time.                   *)
(*                                                                         *)
(* A step is one request to a filesystem and what the engine does with the *)
(* answer.  For requests whose answer may get lost after they took effect, *)
(* the effect and the answer are two steps.                                *)
(*                                                                         *)
(* A definition whose comment begins "Mutant" is not part of the           *)
(* specification: put in place of the definition it names, it is a bug     *)
(* that the property it names must notice.                                 *)
(***************************************************************************)
EXTENDS TargetFolder, FiniteSets

CONSTANTS
  Jobs,
  Items,         \* the files and folders of all jobs' sources
  Handling,      \* Items -> how classify handles it: "file", "folder",
                 \* "followed" (a link to a folder) or "skip"
  Big,           \* files of RESUMABLE_SIZE or more: two chunks, the others one
  Children,      \* Items -> what is in it
  Picked,        \* Jobs -> the items picked
  Stored,        \* Items -> the name it is stored under
  Moves,         \* the jobs that move
  Cancellable,   \* the jobs users may cancel
  Befores,       \* what may be in the target folder before
  PosixRename,   \* whether the server can rename over a file in one step
  Answers,       \* answers users give to a name clash ...
  PartialAnswers,\* ... and to a .filepart that is there
  ForAll,        \* whether users tick "apply to all"
  Typed,         \* names users type
  MaxDrops       \* bound: dropped connections

Files == {i \in Items : Handling[i] = "file"}
Walked == {i \in Items : Handling[i] \in {"folder", "followed"}}
Size(i) == IF i \in Big THEN 2 ELSE 1
Whole(i) == [k \in 1 .. Size(i) |-> i]

ASSUME EngineAssumption ==
  /\ Big \subseteq Files
  /\ \A i \in Items : Handling[i] \in {"file", "folder", "followed", "skip"}
  /\ \A i \in Items : Children[i] \subseteq Items /\ (Children[i] # {} => i \in Walked)
  /\ \A j \in Jobs : Picked[j] \subseteq Items
  /\ Moves \subseteq Jobs /\ Cancellable \subseteq Jobs
  /\ PosixRename \in BOOLEAN
  /\ Answers \subseteq {"overwrite", "skip", "rename", "type"}
  /\ PartialAnswers \subseteq {"resume", "overwrite", "skip"}
  /\ ForAll \subseteq BOOLEAN
  /\ MaxDrops \in Nat

\* The target folder leads to what is in it through folders, and no job wrote
\* there yet; the names the engine and rename make up have a new UUID in them,
\* and are none of these.
ASSUME BeforeAssumption == \A before \in Befores : \A p \in DOMAIN before :
  /\ p \in Seq(Range(p)) \ {<<>>}
  /\ \A n \in 1 .. Len(p) - 1 : IsFolder(before, SubSeq(p, 1, n))
  /\ \A n \in 1 .. Len(p) : p[n].kind \notin {"temp", "old"}
  /\ DOMAIN before[p] = {"kind", "data", "time", "by"}
  /\ before[p].by \notin Jobs /\ before[p].data \in Seq(Range(before[p].data))

VARIABLES
  here,     \* the source items that are still there
  there,    \* the target folder, see TargetFolder
  claims,   \* PARTIALS_IN_USE: path -> the job that writes it
  pc,       \* per job: "idle" between attempts, "over", or its next request
  walk,     \* per job: the folders it is in, the picked items as the first
  work,     \* per job: the item at hand
  ledger,   \* per job: what it did in this and earlier attempts (Ledger)
  sticky,   \* per job: "apply to all" answers, for clashes and partials
  drops,    \* dropped connections so far
  seen      \* what users agreed to and jobs relied on, for the properties

jobVars == <<pc, walk, work, ledger, sticky>>
vars == <<here, there, claims, jobVars, drops, seen>>

None == "none"
EmptyMap == <<>>

\* A folder on the walk: what is left of it, whether all its items were moved
\* or copied so far, and whether to copy only (below a followed link).
Frame(folder, into, todo, copyOnly) ==
  [folder |-> folder, into |-> into, todo |-> todo, complete |-> TRUE,
   copyOnly |-> copyOnly]

\* Decision, how a clash was answered.
Undecided == [do |-> None, to |-> <<>>]
Overwrite == [do |-> "overwrite", to |-> <<>>]
Skip == [do |-> "skip", to |-> <<>>]
RenameTo(path) == [do |-> "rename", to |-> path]

NoWork == [item |-> None, target |-> <<>>, earlier |-> Undecided, overwrite |-> FALSE,
           clash |-> None, temporary |-> <<>>, offset |-> 0, aside |-> <<>>]

NewLedger == [written |-> EmptyMap, partials |-> {}, decided |-> EmptyMap,
              moved |-> {}, leftovers |-> {}, attempts |-> 0]

\* before: the target folder at the start; replaceable: paths users agreed to
\* have replaced; reused: paths an earlier attempt's answer said to replace;
\* filled: paths files were renamed to; spliced: items resumed onto the data of
\* another; relied: what jobs took for their own work, and whose it was; gone:
\* items whose copy was to be replaced; skipped: items that were.
NothingSeen == [before |-> EmptyMap, replaceable |-> {}, reused |-> {}, filled |-> {},
                spliced |-> {}, relied |-> {}, gone |-> {}, skipped |-> {}]

Init ==
  /\ here = Items
  /\ there \in Befores
  /\ claims = EmptyMap
  /\ pc = [j \in Jobs |-> "idle"]
  /\ walk = [j \in Jobs |-> <<>>]
  /\ work = [j \in Jobs |-> NoWork]
  /\ ledger = [j \in Jobs |-> NewLedger]
  /\ sticky = [j \in Jobs |-> [clash |-> None, partial |-> None]]
  /\ drops = 0
  /\ seen = [NothingSeen EXCEPT !.before = there]

-----------------------------------------------------------------------------
Top(j) == Last(walk[j])
Item(j) == work[j].item
Target(j) == work[j].target
Temporary(j) == work[j].temporary
IsPick(j) == Len(walk[j]) = 1
MovesHere(j) == j \in Moves /\ ~Top(j).copyOnly

Goto(j, step) == pc' = [pc EXCEPT ![j] = step]
Note(j, field, value) == ledger' = [ledger EXCEPT ![j][field] = value]
See(field, value) == seen' = [seen EXCEPT ![field] = @ \cup value]
\* Mutant of GiveUpClaim: gives up the claims of other jobs, too.
GiveUpClaims(j) == claims' = <<>>
GiveUpClaim(j) == claims' = Restrict(claims, {p \in DOMAIN claims : claims[p] # j})

ReplaceLast(s, e) == Append(Front(s), e)

\* The item is done with; Done, or Skipped.  A picked item that was moved is
\* remembered.
Settle(j, stack, done) ==
  /\ Goto(j, "walk")
  /\ walk' = [walk EXCEPT ![j] =
        ReplaceLast(stack, [Last(stack) EXCEPT !.complete = @ /\ done])]
  /\ work' = [work EXCEPT ![j] = NoWork]

Moved(j, item, stack, done) ==
  IF done /\ j \in Moves /\ Len(stack) = 1
  THEN ledger[j].moved \cup {item} ELSE ledger[j].moved

Finished(j, done) ==
  /\ Settle(j, walk[j], done)
  /\ Note(j, "moved", Moved(j, Item(j), walk[j], done))

\* attempt_once: plan, and the start of run.  Removing a temporary that an
\* earlier attempt left behind may fail again.
Begin(j) ==
  LET left == Picked[j] \ ledger[j].moved IN
  /\ pc[j] = "idle"
  /\ left \subseteq here
  /\ Goto(j, "walk")
  /\ walk' = [walk EXCEPT ![j] = <<Frame(None, <<>>, left, FALSE)>>]
  /\ \E removed \in {{}, ledger[j].leftovers} :
       there' = Restrict(there, DOMAIN there \ removed)
  /\ ledger' = [ledger EXCEPT ![j].leftovers = {}, ![j].attempts = @ + 1]
  /\ UNCHANGED <<here, claims, work, sticky, drops, seen>>

\* "could not inspect": the attempt before removed a source, but didn't hear.
CannotBegin(j) ==
  /\ pc[j] = "idle"
  /\ ~(Picked[j] \ ledger[j].moved \subseteq here)
  /\ Goto(j, "over")
  /\ UNCHANGED <<here, there, claims, walk, work, ledger, sticky, drops, seen>>

\* transfer: the next item of the folder at hand.
Choose(j, i) ==
  LET stack == ReplaceLast(walk[j], [Top(j) EXCEPT !.todo = @ \ {i}]) IN
  /\ pc[j] = "walk"
  /\ i \in Top(j).todo
  /\ IF Handling[i] = "skip"
     THEN Settle(j, stack, FALSE) /\ See("skipped", {i})
     ELSE /\ UNCHANGED seen
          /\ Goto(j, "place")
          /\ walk' = [walk EXCEPT ![j] = stack]
          /\ work' = [work EXCEPT ![j] =
               [NoWork EXCEPT !.item = i,
                              !.target = Append(Top(j).into, Proper(Stored[i])),
                              !.earlier = IF i \in DOMAIN ledger[j].decided
                                          THEN ledger[j].decided[i] ELSE Undecided]]
  /\ UNCHANGED <<here, there, claims, ledger, sticky, drops>>

-----------------------------------------------------------------------------
(* place: where the item lands.  Each action is one look at the target.     *)

Base(j) == Append(Top(j).into, Proper(Stored[Item(j)]))
Owner(j) == IF Target(j) \in DOMAIN ledger[j].written
            THEN ledger[j].written[Target(j)] ELSE None

\* Mutant of LooksLike: size only.
HasSizeOf(entry, i) == entry.kind = "file" /\ Len(entry.data) = Size(i)
\* same_file: same size, same modified time.
LooksLike(entry, i) == entry.kind = "file" /\ Len(entry.data) = Size(i) /\ entry.time = i

Looks(j) == pc[j] = "place" /\ UNCHANGED <<here, there, claims, drops>>
IsTaken(j) == Exists(there, Target(j)) /\ Owner(j) \in {None, Item(j)}
\* Mutant of IsFinished: a folder that is there is finished.
IsStarted(j) == Owner(j) = Item(j) /\ (Item(j) \in Walked \/ LooksLike(there[Target(j)], Item(j)))
IsFinished(j) == /\ Owner(j) = Item(j) /\ Item(j) \notin Walked
                 /\ LooksLike(there[Target(j)], Item(j))
IsMerge(j) == Item(j) \in Walked /\ IsFolder(there, Target(j))
Clashes(j) == IsTaken(j) /\ ~IsFinished(j) /\ ~IsMerge(j)

\* The target is decided on: it counts as written from here on.
PlaceAt(j, written, overwrite) ==
  /\ ledger' = [ledger EXCEPT ![j] =
                  [written EXCEPT !.written = With(@, Target(j), Item(j))]]
  /\ work' = [work EXCEPT ![j].overwrite = overwrite, ![j].earlier = Undecided]
  /\ Goto(j, IF Item(j) \notin Walked THEN "stage"
             ELSE IF overwrite THEN "clear"
             ELSE IF Exists(there, Target(j)) THEN "list" ELSE "mkdir")
  /\ UNCHANGED walk

PlaceFree(j) ==
  /\ Looks(j)
  /\ ~Exists(there, Target(j)) \/ (IsTaken(j) /\ IsMerge(j))
  /\ PlaceAt(j, ledger[j], FALSE)
  /\ UNCHANGED <<sticky, seen>>

\* Another item of this job already landed on this name: keep both.
PlaceBeside(j) ==
  /\ Looks(j)
  /\ Exists(there, Target(j)) /\ ~IsTaken(j)
  /\ work' = [work EXCEPT ![j].target = FirstFree(there, Base(j))]
  /\ UNCHANGED <<pc, walk, ledger, sticky, seen>>

\* Taken for copied by an earlier attempt.
PlaceFinished(j) ==
  /\ Looks(j)
  /\ IsTaken(j) /\ IsFinished(j)
  /\ IF MovesHere(j)
     THEN Goto(j, "remove") /\ UNCHANGED <<walk, work, ledger>>
     ELSE Finished(j, TRUE)
  /\ See("relied", {[job |-> j, by |-> there[Target(j)].by]})
  /\ UNCHANGED sticky

Decisions(j, answer) ==
  CASE answer = "overwrite" -> {Overwrite}
    [] answer = "skip" -> {Skip}
    [] answer = "rename" -> {RenameTo(FirstFree(there, Base(j)))}
    [] answer = "type" -> {RenameTo(Append(Top(j).into, Proper(n))) : n \in Typed}

\* Mutant of Follow: the earlier answer is used again and again.
FollowAgain(j, decision, book) ==
  CASE decision.do = "overwrite" -> PlaceAt(j, book, TRUE)
    [] decision.do = "skip" ->
         Settle(j, walk[j], FALSE) /\ ledger' = [ledger EXCEPT ![j] = book]
    [] decision.do = "rename" ->
         /\ work' = [work EXCEPT ![j].target = decision.to]
         /\ ledger' = [ledger EXCEPT ![j] = book]
         /\ Goto(j, "place") /\ UNCHANGED walk

Follow(j, decision, book) ==
  CASE decision.do = "overwrite" -> PlaceAt(j, book, TRUE)
    [] decision.do = "skip" ->
         Settle(j, walk[j], FALSE) /\ ledger' = [ledger EXCEPT ![j] = book]
    [] decision.do = "rename" ->
         /\ work' = [work EXCEPT ![j].target = decision.to, ![j].earlier = Undecided]
         /\ ledger' = [ledger EXCEPT ![j] = book]
         /\ Goto(j, "place") /\ UNCHANGED walk

SeeDecision(j, decision) ==
  seen' = [seen EXCEPT
    !.replaceable = IF decision.do = "overwrite" THEN @ \cup {Target(j)} ELSE @,
    !.skipped = IF decision.do = "skip" THEN @ \cup {Item(j)} ELSE @]

\* The answer an earlier attempt got for this item is used once.
PlaceAgain(j) ==
  /\ Looks(j)
  /\ Clashes(j) /\ work[j].earlier # Undecided
  /\ Follow(j, work[j].earlier, ledger[j])
  /\ CASE work[j].earlier = Overwrite -> See("reused", {Target(j)})
       [] work[j].earlier = Skip -> See("skipped", {Item(j)})
       [] OTHER -> UNCHANGED seen
  /\ UNCHANGED sticky

\* Mutant of SameKind: "apply to all" means all.
AnyKind(j) == TRUE
\* "Apply to all" covers clashes of the same kind only.
SameKind(j) == (Item(j) \in Walked) = IsFolder(there, Target(j))
Standing(j) == IF SameKind(j) THEN sticky[j].clash ELSE None

\* An answer means the clash it was given for; one for all, clashes of files.
SeeStanding(j, decision) ==
  seen' = [seen EXCEPT
    !.replaceable = IF decision.do = "overwrite" /\ Item(j) \in Files
                       /\ ~IsFolder(there, Target(j))
                    THEN @ \cup {Target(j)} ELSE @,
    !.skipped = IF decision.do = "skip" THEN @ \cup {Item(j)} ELSE @]

\* A new decision is remembered for later attempts, and followed.
Decide(j, decision) ==
  Follow(j, decision, [ledger[j] EXCEPT !.decided = With(@, Item(j), decision)])

PlaceStanding(j) ==
  /\ Looks(j)
  /\ Clashes(j) /\ work[j].earlier = Undecided /\ Standing(j) # None
  /\ \E decision \in Decisions(j, Standing(j)) :
       Decide(j, decision) /\ SeeStanding(j, decision)
  /\ UNCHANGED sticky

\* decide asks the user, and acts on the answer with what it knew when asking.
PlaceAsk(j) ==
  /\ Looks(j)
  /\ Clashes(j) /\ work[j].earlier = Undecided /\ Standing(j) = None
  /\ Goto(j, "ask")
  /\ UNCHANGED <<walk, work, ledger, sticky, seen>>

Answer(j, answer, all) ==
  /\ pc[j] = "ask"
  /\ \E decision \in Decisions(j, answer) :
       Decide(j, decision) /\ SeeDecision(j, decision)
  /\ sticky' = IF all THEN [sticky EXCEPT ![j].clash =
                              IF answer = "type" THEN "rename" ELSE answer]
               ELSE sticky
  /\ UNCHANGED <<here, there, claims, drops>>

Place(j) == \/ PlaceFree(j) \/ PlaceBeside(j) \/ PlaceFinished(j)
            \/ PlaceAgain(j) \/ PlaceStanding(j) \/ PlaceAsk(j)

-----------------------------------------------------------------------------
(* transfer_folder: the folder is made, its items follow, and a move        *)
(* removes it (or the followed link) when nothing stayed behind.            *)

\* The items whose copies go when the target does, on an answer.
ToReplace == seen.replaceable \cup seen.reused
CopiesAtTarget(j) ==
  IF Target(j) \notin ToReplace THEN {}
  ELSE {there[p].data[1] : p \in {q \in Within(there, Target(j)) :
                                    IsProper(q) /\ there[q].data # <<>>}}

\* A file is in the way of the folder.
ClearTarget(j) ==
  /\ pc[j] = "clear"
  /\ Exists(there, Target(j))
  /\ there' = Removed(there, Target(j))
  /\ Goto(j, "mkdir")
  /\ See("gone", CopiesAtTarget(j))
  /\ UNCHANGED <<here, claims, walk, work, ledger, sticky, drops>>

MakeFolder(j) ==
  /\ pc[j] = "mkdir"
  /\ ~Exists(there, Target(j))
  /\ there' = Put(there, Target(j), Folder(j))
  /\ Goto(j, "list")
  /\ UNCHANGED <<here, claims, walk, work, ledger, sticky, drops, seen>>

EnterFolder(j) ==
  /\ pc[j] = "list"
  /\ Goto(j, "walk")
  /\ walk' = [walk EXCEPT ![j] = Append(@,
        Frame(Item(j), Target(j), Children[Item(j)] \cap here,
              Top(j).copyOnly \/ Handling[Item(j)] = "followed"))]
  /\ work' = [work EXCEPT ![j] = NoWork]
  /\ UNCHANGED <<here, there, claims, ledger, sticky, drops, seen>>

LeaveFolder(j) ==
  LET above == Front(walk[j])
      removes == j \in Moves /\ ~Last(above).copyOnly
  IN
  /\ pc[j] = "walk"
  /\ Top(j).todo = {} /\ ~IsPick(j)
  /\ IF removes /\ Top(j).complete
     THEN /\ Goto(j, "remove")
          /\ walk' = [walk EXCEPT ![j] = above]
          /\ work' = [work EXCEPT ![j] = [NoWork EXCEPT !.item = Top(j).folder]]
     ELSE Settle(j, above, ~removes)
  /\ UNCHANGED <<here, there, claims, ledger, sticky, drops, seen>>

Finish(j) ==
  /\ pc[j] = "walk"
  /\ Top(j).todo = {} /\ IsPick(j)
  /\ Goto(j, "done")
  /\ UNCHANGED <<here, there, claims, walk, work, ledger, sticky, drops, seen>>

\* finish_move, and the end of transfer_folder: a folder goes only when empty.
RemoveSource(j) ==
  /\ pc[j] = "remove"
  /\ Handling[Item(j)] = "folder" => Children[Item(j)] \cap here = {}
  /\ here' = here \ {Item(j)}
  /\ Goto(j, "removed")
  /\ UNCHANGED <<there, claims, walk, work, ledger, sticky, drops, seen>>

SourceRemoved(j) ==
  /\ pc[j] = "removed"
  /\ Finished(j, TRUE)
  /\ UNCHANGED <<here, there, claims, sticky, drops, seen>>

-----------------------------------------------------------------------------
(* staging: where a file is written before it takes the target's name.     *)

HiddenTemporary(j) == Beside(Target(j), Hidden("temp", <<j, ledger[j].attempts>>))
PartialOf(j) == PartialBeside(Target(j))
IsClaimed(path) == path \in DOMAIN claims

\* Small, or the .filepart is not this job's to write.
StageHidden(j) ==
  /\ pc[j] = "stage"
  /\ \/ Item(j) \notin Big
     \/ IsClaimed(PartialOf(j))
     \/ IsFolder(there, PartialOf(j))
  /\ work' = [work EXCEPT ![j].temporary = HiddenTemporary(j)]
  /\ Goto(j, "create")
  /\ UNCHANGED <<here, there, claims, walk, ledger, sticky, drops, seen>>

Have(j) == Len(there[Temporary(j)].data)

\* This job's own resumes without asking, anyone else's is asked about.
StagePartial(j) ==
  LET partial == PartialOf(j)
      have == Len(there[partial].data)
      ours == partial \in ledger[j].partials
      resumable == have > 0 /\ (have < Size(Item(j)) \/ (ours /\ have = Size(Item(j))))
  IN
  /\ pc[j] = "stage"
  /\ Item(j) \in Big /\ ~IsClaimed(partial) /\ ~IsFolder(there, partial)
  /\ claims' = With(claims, partial, j)
  /\ work' = [work EXCEPT ![j].temporary = partial]
  /\ IF ~Exists(there, partial)
     THEN Goto(j, "create") /\ UNCHANGED seen
     ELSE IF ~resumable THEN Goto(j, "discard") /\ UNCHANGED seen
     ELSE IF ours
     THEN /\ Goto(j, "resume")
          /\ See("relied", {[job |-> j, by |-> there[partial].by]})
     ELSE Goto(j, "askpartial") /\ UNCHANGED seen
  /\ UNCHANGED <<here, there, walk, ledger, sticky, drops>>

\* ask_resume: resume, start over (any other answer), or skip the file.
HandlePartial(j, answer) ==
  /\ pc[j] = "askpartial"
  /\ IF answer = "skip"
     THEN /\ Settle(j, walk[j], FALSE)
          /\ GiveUpClaim(j)
          /\ See("skipped", {Item(j)})
     ELSE /\ Goto(j, IF answer = "resume" THEN "resume" ELSE "discard")
          /\ UNCHANGED <<claims, walk, work, seen>>
  /\ UNCHANGED <<here, there, ledger, drops>>

AnswerPartial(j, answer, all) ==
  /\ sticky[j].partial = None
  /\ HandlePartial(j, answer)
  /\ sticky' = IF all THEN [sticky EXCEPT ![j].partial = answer] ELSE sticky

StandingPartial(j) ==
  /\ sticky[j].partial # None
  /\ HandlePartial(j, sticky[j].partial)
  /\ UNCHANGED sticky

\* Start over.
DiscardPartial(j) ==
  /\ pc[j] = "discard"
  /\ Exists(there, Temporary(j))
  /\ there' = Removed(there, Temporary(j))
  /\ Goto(j, "create")
  /\ UNCHANGED <<here, claims, walk, work, ledger, sticky, drops, seen>>

-----------------------------------------------------------------------------
(* copy_file and stream.                                                   *)

IsPartial(j) == IsClaimed(Temporary(j)) /\ claims[Temporary(j)] = j
OwnPartials(j) == IF IsPartial(j) THEN ledger[j].partials \cup {Temporary(j)}
                  ELSE ledger[j].partials

Create(j) ==
  /\ pc[j] = "create"
  /\ ~Exists(there, Temporary(j))
  /\ there' = Put(there, Temporary(j), File(<<>>, Now, j))
  /\ work' = [work EXCEPT ![j].offset = 0]
  /\ Note(j, "partials", OwnPartials(j))
  /\ Goto(j, "stream")
  /\ UNCHANGED <<here, claims, walk, sticky, drops, seen>>

Resume(j) ==
  /\ pc[j] = "resume"
  /\ Exists(there, Temporary(j))
  /\ there' = [there EXCEPT ![Temporary(j)].by = j]
  /\ work' = [work EXCEPT ![j].offset = Have(j)]
  /\ Note(j, "partials", OwnPartials(j))
  /\ IF \A k \in 1 .. Have(j) : there[Temporary(j)].data[k] = Item(j)
     THEN UNCHANGED seen ELSE See("spliced", {Item(j)})
  /\ Goto(j, "stream")
  /\ UNCHANGED <<here, claims, walk, sticky, drops>>

\* The next chunk; what SftpUpload does when it is cut short is not repeated
\* here: a .filepart holds what was written, in order.
Write(j) ==
  LET at == work[j].offset + 1 IN
  /\ pc[j] = "stream"
  /\ at <= Size(Item(j))
  /\ Exists(there, Temporary(j))
  /\ there' = [there EXCEPT ![Temporary(j)].data =
       [k \in 1 .. (IF at > Len(@) THEN at ELSE Len(@)) |->
          IF k = at THEN Item(j) ELSE @[k]]]
  /\ work' = [work EXCEPT ![j].offset = at]
  /\ UNCHANGED <<here, claims, pc, walk, ledger, sticky, drops, seen>>

\* Mutant of Close: takes a source that stops early for a short one.
CloseEarly(j) ==
  /\ pc[j] = "stream"
  /\ Exists(there, Temporary(j))
  /\ \E time \in {Item(j), Now} : there' = [there EXCEPT ![Temporary(j)].time = time]
  /\ Goto(j, "look")
  /\ UNCHANGED <<here, claims, walk, work, ledger, sticky, drops, seen>>

\* shutdown, and set_times: some servers refuse it.
Close(j) ==
  /\ pc[j] = "stream"
  /\ work[j].offset = Size(Item(j))
  /\ Exists(there, Temporary(j))
  /\ \E time \in {Item(j), Now} : there' = [there EXCEPT ![Temporary(j)].time = time]
  /\ Goto(j, "look")
  /\ UNCHANGED <<here, claims, walk, work, ledger, sticky, drops, seen>>

(* SftpFs::rename: look what is at the target, then rename.                *)
Look(j) ==
  /\ pc[j] = "look"
  /\ Exists(there, Target(j)) => work[j].overwrite
  /\ work' = [work EXCEPT ![j].clash =
                IF Exists(there, Target(j)) THEN there[Target(j)].kind ELSE None]
  /\ Goto(j, "rename")
  /\ UNCHANGED <<here, there, claims, walk, ledger, sticky, drops, seen>>

InOneStep(j) == work[j].clash = None \/ (work[j].clash = "file" /\ PosixRename)

\* Only a rename that replaces may find something there.
Rename(j) ==
  /\ pc[j] = "rename" /\ InOneStep(j)
  /\ Exists(there, Temporary(j))
  /\ IF work[j].clash = None THEN ~Exists(there, Target(j)) ELSE ~IsFolder(there, Target(j))
  /\ there' = Renamed(there, Temporary(j), Target(j))
  /\ seen' = [seen EXCEPT !.filled = @ \cup {Target(j)}, !.gone = @ \cup CopiesAtTarget(j)]
  /\ Goto(j, "renamed")
  /\ UNCHANGED <<here, claims, walk, work, ledger, sticky, drops>>

\* Mutant of SetAside: the old is deleted to make room.
DeleteFirst(j) ==
  /\ pc[j] = "rename" /\ ~InOneStep(j)
  /\ Exists(there, Target(j))
  /\ there' = Removed(there, Target(j))
  /\ See("gone", CopiesAtTarget(j))
  /\ Goto(j, "movein")
  /\ UNCHANGED <<here, claims, walk, work, ledger, sticky, drops>>

\* replace_by_moving_aside: the old goes aside, ...
SetAside(j) ==
  LET aside == Beside(Target(j), Hidden("old", <<j, ledger[j].attempts>>)) IN
  /\ pc[j] = "rename" /\ ~InOneStep(j)
  /\ Exists(there, Target(j))
  /\ there' = Renamed(there, Target(j), aside)
  /\ work' = [work EXCEPT ![j].aside = aside]
  /\ See("gone", CopiesAtTarget(j))
  /\ Goto(j, "movein")
  /\ UNCHANGED <<here, claims, walk, ledger, sticky, drops>>

\* ... the new takes its place, ...
MoveIn(j) ==
  /\ pc[j] = "movein"
  /\ Exists(there, Temporary(j)) /\ ~Exists(there, Target(j))
  /\ there' = Renamed(there, Temporary(j), Target(j))
  /\ See("filled", {Target(j)})
  /\ Goto(j, "cleanup")
  /\ UNCHANGED <<here, claims, walk, work, ledger, sticky, drops>>

Copied(j) ==
  /\ Note(j, "partials", ledger[j].partials \ {Temporary(j)})
  /\ GiveUpClaim(j)
  /\ IF MovesHere(j)
     THEN Goto(j, "remove") /\ UNCHANGED <<walk, work>>
     ELSE Settle(j, walk[j], TRUE)

\* ... and the old is deleted, if it can be.
CleanUp(j) ==
  /\ pc[j] = "cleanup"
  /\ there' \in {there, Removed(there, work[j].aside)}
  /\ Copied(j)
  /\ UNCHANGED <<here, sticky, drops, seen>>

RenameAnswered(j) ==
  /\ pc[j] = "renamed"
  /\ Copied(j)
  /\ UNCHANGED <<here, there, sticky, drops, seen>>

-----------------------------------------------------------------------------
(* Errors: a request is refused, the connection drops, the user cancels.   *)

Renaming == {"look", "rename", "movein"}
Requests == Renaming \cup {"place", "clear", "mkdir", "list", "remove", "stage",
                           "discard", "create", "resume", "stream"}
AnswersPending == {"renamed", "cleanup", "removed"}

\* discard: remove the temporary file, which works unless the connection is gone.
WithoutTemporary(j) == Removed(there, Temporary(j))

\* The original goes back if nothing took its place and the server lets it.
PutBack(j) ==
  LET back == Renamed(there, work[j].aside, Target(j)) IN
  IF pc[j] = "movein" /\ ~Exists(there, Target(j)) THEN {there, back} ELSE {there}

EndsWith(j, outcome) ==
  /\ Goto(j, outcome)
  /\ GiveUpClaim(j)
  /\ walk' = [walk EXCEPT ![j] = <<>>]
  /\ work' = [work EXCEPT ![j] = NoWork]

\* A request is refused while the connection is up: the job fails.  A copy cut
\* short keeps its .filepart, one that can't be renamed doesn't.
Fail(j) ==
  /\ pc[j] \in Requests
  /\ IF pc[j] \in Renaming
     THEN \E kept \in PutBack(j) : there' = Removed(kept, Temporary(j))
     ELSE IF pc[j] = "stream" /\ ~IsPartial(j) THEN there' = WithoutTemporary(j)
     ELSE UNCHANGED there
  /\ EndsWith(j, "over")
  /\ UNCHANGED <<here, ledger, sticky, drops, seen>>

\* The connection drops, before or after the request took effect; the job will
\* run again.  What it can't clean up now is left to the next attempt.
Drop(j) ==
  /\ drops < MaxDrops
  /\ pc[j] \in Requests \cup AnswersPending
  /\ drops' = drops + 1
  /\ IF pc[j] \in {"stream", "renamed"} \cup Renaming /\ ~IsPartial(j)
     THEN \/ /\ pc[j] = "stream"   \* it was the source's connection
             /\ there' = WithoutTemporary(j)
             /\ UNCHANGED ledger
          \/ /\ Note(j, "leftovers", ledger[j].leftovers \cup {Temporary(j)})
             /\ UNCHANGED there
     ELSE UNCHANGED <<there, ledger>>
  /\ EndsWith(j, "idle")
  /\ UNCHANGED <<here, sticky, seen>>

\* Cancelled while paused, between two items, at a question or mid-file, where
\* what was written is removed.
Cancel(j) ==
  /\ pc[j] \in {"idle", "walk", "ask", "askpartial", "stream"}
  /\ there' = IF pc[j] = "stream" THEN WithoutTemporary(j) ELSE there
  /\ EndsWith(j, "over")
  /\ UNCHANGED <<here, ledger, sticky, drops, seen>>

\* Cancelled while a request hangs: after CANCEL_GRACE the engine is dropped.
Abandon(j) ==
  /\ pc[j] \in Requests \cup AnswersPending
  /\ EndsWith(j, "over")
  /\ UNCHANGED <<here, there, ledger, sticky, drops, seen>>

-----------------------------------------------------------------------------
Walk(j) == \/ Begin(j) \/ CannotBegin(j) \/ EnterFolder(j) \/ LeaveFolder(j) \/ Finish(j)
           \/ \E i \in Items : Choose(j, i)
           \/ ClearTarget(j) \/ MakeFolder(j)
           \/ RemoveSource(j) \/ SourceRemoved(j)

Stage(j) == \/ StageHidden(j) \/ StagePartial(j) \/ StandingPartial(j) \/ DiscardPartial(j)

Copy(j) == \/ Create(j) \/ Resume(j) \/ Write(j) \/ Close(j)
           \/ Look(j) \/ Rename(j) \/ SetAside(j) \/ MoveIn(j)
           \/ CleanUp(j) \/ RenameAnswered(j)

UserAnswers(j) ==
  \E all \in ForAll : \/ \E a \in Answers : Answer(j, a, all)
                      \/ \E a \in PartialAnswers : AnswerPartial(j, a, all)

Next == \E j \in Jobs : \/ Walk(j) \/ Place(j) \/ Stage(j) \/ Copy(j) \/ UserAnswers(j)
                        \/ Fail(j) \/ Drop(j)
                        \/ j \in Cancellable /\ (Cancel(j) \/ Abandon(j))

(***************************************************************************)
(* Servers answer, users answer, and a paused job's connection comes back. *)
(* A request that can be granted may be refused at any time, but only one   *)
(* that can't be has to be.                                                *)
(***************************************************************************)
Proceeds(j) == Walk(j) \/ Place(j) \/ Stage(j) \/ Copy(j) \/ UserAnswers(j)
Fairness == \A j \in Jobs :
  WF_vars(Proceeds(j) \/ (Fail(j) /\ ~ENABLED Proceeds(j)))

Spec == Init /\ [][Next]_vars /\ Fairness
-----------------------------------------------------------------------------
Steps == {"idle", "walk", "ask", "askpartial", "done", "over"} \cup Requests \cup AnswersPending

TypeOK ==
  /\ here \subseteq Items
  /\ \A p \in DOMAIN there : /\ there[p].kind \in {"file", "folder"}
                             /\ Len(there[p].data) <= 2
  /\ \A p \in DOMAIN claims : claims[p] \in Jobs /\ p = PartialBeside(p)
  /\ \A j \in Jobs :
       /\ pc[j] \in Steps
       /\ Item(j) \in Items \cup {None}
       /\ ledger[j].moved \subseteq Picked[j]
       /\ \A p \in DOMAIN ledger[j].written : ledger[j].written[p] \in Items
       /\ (walk[j] = <<>>) = (pc[j] \in {"idle", "over"})
  /\ drops \in 0 .. MaxDrops

\* Two jobs never write to one file at a time, whatever they copy and however
\* their attempts ended.
Staging == {"stream"} \cup Renaming
OneWriter == \A j, k \in Jobs :
  j # k /\ pc[j] \in Staging /\ pc[k] \in Staging => Temporary(j) # Temporary(k)

\* A file that has its target's name is one source's data, and all of it,
\* unless it was resumed onto something else.
PlacedAreWhole == \A p \in DOMAIN there :
  LET e == there[p] IN
  IsProper(p) /\ e.kind = "file" /\ e.by \in Jobs
    => e.data # <<>> /\ (Last(e.data) \in seen.spliced \/ e.data = Whole(Last(e.data)))

\* The copy of an item is somewhere, or a user agreed to lose it.
Landed(i) ==
  \/ i \in seen.spliced \cup seen.gone
  \/ \E p \in DOMAIN there : IsProper(p) /\ there[p].data = Whole(i)

\* A moved file leaves the source only when all of it is at the target.
NothingIsLost == \A i \in Files \ here : Landed(i)

\* What was in the target folder before is there still, or a user agreed to
\* replace it.
OldFiles == {p \in DOMAIN seen.before : IsProper(p) /\ seen.before[p].kind = "file"}
Survives(p) == \E q \in DOMAIN there : there[q].data = seen.before[p].data
ReplacedWhenAgreed == \A p \in OldFiles :
  Survives(p) \/ \E r \in ToReplace : IsPrefix(r, p)

\* Where files replace files, the old one survives until the new one is there.
OldOutlivesFailures == \A p \in OldFiles :
  Survives(p) \/ \E r \in ToReplace \cap seen.filled : IsPrefix(r, p)

\* A job that says it is done has copied everything it wasn't told to skip.
Below(items) ==
  {i \in Items : \A S \in SUBSET Items :
     items \subseteq S /\ (\A k \in S : Children[k] \subseteq S) => i \in S}
DoneIsComplete == \A j \in Jobs : pc[j] = "done" =>
  \A i \in Below(Picked[j]) \cap Files :
    Landed(i) \/ \E s \in seen.skipped : i \in Below({s})

\* Moving takes nothing out of a folder that was only linked to.
LinkedStay == \A i \in Items : Handling[i] = "followed" => Children[i] \subseteq here

\* However connections drop and jobs meet, every job comes to an end.
JobsEnd == \A j \in Jobs : <>(pc[j] \in {"done", "over"})

\* "How each clash was answered, so a retry doesn't ask again": what is replaced
\* on an earlier attempt's answer is what that answer was about.
AnswersMeanTheirClash == seen.reused \subseteq seen.replaceable

\* "picking up again trusts only its own work": no job takes for copied, or
\* resumes without asking, what it didn't write.
TrustsOwnWork == \A r \in seen.relied : r.by = r.job
=============================================================================
