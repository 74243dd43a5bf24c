------------------------------ MODULE SavedState ------------------------------
(***************************************************************************)
(* What CorePTY keeps between runs (src-tauri/src/store.rs, with the       *)
(* callers in src/app.ts, profile.ts, connections.ts and restore-ui.ts):   *)
(* the connections and folders of sessions.toml, their secrets in the      *)
(* system's keychain, and the open tabs of tabs.json.  Windows are         *)
(* processes of their own: they start, are killed, lose power, and their   *)
(* process ids go to others.  Any write of a file and any keychain call    *)
(* may fail.                                                               *)
(*                                                                         *)
(* A window does one change of the connections at a time.  A content is a  *)
(* pair of functions, from folders to their parents and from connections   *)
(* to the parts the properties tell apart; names, hosts and the order in a *)
(* folder are left out.                                                    *)
(*                                                                         *)
(* A definition whose comment begins "Mutant" is not part of the           *)
(* specification.                                                          *)
(***************************************************************************)
EXTENDS Naturals, FiniteSets, TLC

CONSTANTS
  Windows,     \* running at once, at most
  Editors,     \* the windows whose connections the user changes
  Pids,        \* process ids
  Sessions,    \* ids of connections
  Folders,     \* ids of folders
  Auths,       \* how a connection logs in
  Beginnings   \* what there is at first, current, legacy and keychain, and the
               \* bounds on what happens: left, per kind of event

VARIABLES
  procs,     \* per process id: who has it, since when, and whether it still runs
  now,       \* the second
  sessions,  \* sessions.toml: what reads find, and what a loss of power leaves
  legacy,    \* the file under the old identifier, never written
  keychain,  \* per connection: its secret
  window,    \* per window: where it is, its command and its tabs
  snapshot,  \* tabs.json
  expected,  \* history: what the last change left, or one cut off, and what a loss
             \* of power may have brought back
  kept,      \* history: no change was cut off and no keychain call was in vain
  left       \* the events there still may be

vars == <<procs, now, sessions, legacy, keychain, window, snapshot, expected, kept,
          left>>

Root == "root"
NoSecret == "none"
Nothing == [folders |-> <<>>, sessions |-> <<>>, missing |-> TRUE]
Content(folders, conns) == [folders |-> folders, sessions |-> conns, missing |-> FALSE]
Empty == Content(<<>>, <<>>)
Torn == [folders |-> <<>>, sessions |-> <<>>, missing |-> FALSE, torn |-> TRUE]

\* read_store, and with it what a program that starts migrates.
Parsed(file) == IF file = Nothing THEN Empty ELSE file
Found(file) == IF file = Nothing THEN Parsed(legacy) ELSE file

-----------------------------------------------------------------------------
(* The commands, on what the file holds.                                   *)

Put(f, id, value) == [x \in DOMAIN f \cup {id} |-> IF x = id THEN value ELSE f[x]]

SessionsUpsert(store, id, conn) == Content(store.folders, Put(store.sessions, id, conn))

\* Put in a folder, those that are moved in it.
Moved(store, folder, ids) ==
  [s \in DOMAIN store.sessions |->
     IF s \in ids THEN [store.sessions[s] EXCEPT !.folder = folder] ELSE store.sessions[s]]
SessionsReorder(store, folder, ids) == Content(store.folders, Moved(store, folder, ids))

Without(conns, id) == [s \in DOMAIN conns \ {id} |-> conns[s]]
SessionsDelete(store, id) == Content(store.folders, Without(store.sessions, id))

FolderUpsert(store, id, parent) == Content(Put(store.folders, id, parent), store.sessions)

\* What is in a folder that is deleted goes to its parent.
Lifted(store, id, place) ==
  IF place # id THEN place
  ELSE IF id \in DOMAIN store.folders THEN store.folders[id] ELSE Root
FoldersWithout(store, id) ==
  [f \in DOMAIN store.folders \ {id} |-> Lifted(store, id, store.folders[f])]
SessionsLifted(store, id) ==
  [s \in DOMAIN store.sessions |->
     [store.sessions[s] EXCEPT !.folder = Lifted(store, id, store.sessions[s].folder)]]

\* Mutant of FolderDelete: the connections stay where they were.
FolderDeleteAlone(store, id) == Content(FoldersWithout(store, id), store.sessions)

FolderDelete(store, id) == Content(FoldersWithout(store, id), SessionsLifted(store, id))

Apply(store, job) ==
  CASE job.op = "load" -> store
    [] job.op = "save" -> SessionsUpsert(store, job.id, job.conn)
    [] job.op = "reorder" -> SessionsReorder(store, job.folder, job.ids)
    [] job.op = "delete" -> SessionsDelete(store, job.id)
    [] job.op = "folder" -> FolderUpsert(store, job.id, job.folder)
    [] job.op = "folderDelete" -> FolderDelete(store, job.id)

\* The folder and those above it, as far as there are any: what every set has
\* that has the folder and the parents of all that it has.
Above(tree, folder) ==
  LET Closed(S) == \A f \in S \cap DOMAIN tree.folders : tree.folders[f] \in S
  IN {p \in {Root} \cup Folders :
        \A S \in SUBSET ({Root} \cup Folders) : folder \in S /\ Closed(S) => p \in S}

\* renderLevel: what the tree shows, from the top.
Shown(store) ==
  {f \in DOMAIN store.folders : Root \in Above(store, f)} \cup
  {s \in DOMAIN store.sessions : Root \in Above(store, store.sessions[s].folder)}

\* What a file holds that read_store can read.
Partial(S, T) == UNION {[D -> T] : D \in SUBSET S}
Conns == [folder : {Root} \cup Folders, saveSecret : BOOLEAN, auth : Auths]
Contents == [folders : Partial(Folders, {Root} \cup Folders), sessions : Partial(Sessions, Conns),
             missing : {FALSE}]

\* Secrets are of the connections they are saved for.
Belong(secrets, store) ==
  \A s \in Sessions :
    secrets[s] # NoSecret => s \in DOMAIN store.sessions /\ store.sessions[s].saveSecret

AllShown(store) == Shown(store) = DOMAIN store.folders \cup DOMAIN store.sessions

\* What earlier windows left is whole, in the tree, and its secrets belong.
ASSUME SavedAssumption ==
  /\ Editors \subseteq Windows /\ {"nobody", "other"} \cap Windows = {}
  /\ Root \notin Folders /\ Folders \cap Sessions = {} /\ "password" \in Auths
  /\ \A start \in Beginnings :
       /\ {start.current, start.legacy} \subseteq Contents \cup {Nothing}
       /\ start.keychain \in [Sessions -> {NoSecret, "first"}]
       /\ start.left \in [{"changes", "tabs", "ends", "others", "faults", "seconds"} -> Nat]
       /\ LET found == IF start.current = Nothing THEN Parsed(start.legacy) ELSE start.current
          IN AllShown(found) /\ Belong(start.keychain, found)

-----------------------------------------------------------------------------
(* What the user may ask for, seeing a tree.                               *)

Places(tree) == {Root} \cup DOMAIN tree.folders
Conn(folder, saveSecret, auth) == [folder |-> folder, saveSecret |-> saveSecret, auth |-> auth]

\* What the program finds.
View == Found(sessions.seen)

\* A new id is nobody else's.
New(ids, used) == {id \in ids : id \notin used}
NewSessions == New(Sessions, DOMAIN View.sessions \cup {s \in Sessions : keychain[s] # NoSecret})
NewFolders == New(Folders, DOMAIN View.folders)

\* planSecretMutation.
PlanSecretMutation(tree, id, conn, typed) ==
  IF conn.saveSecret /\ typed # NoSecret THEN "set"
  ELSE IF id \notin DOMAIN tree.sessions THEN "keep"
  ELSE IF /\ conn.saveSecret /\ tree.sessions[id].saveSecret
          /\ tree.sessions[id].auth = conn.auth THEN "keep"
  ELSE "delete"

NoJob == [op |-> "load", id |-> Root, folder |-> Root, ids |-> {}, conn |-> Conn(Root, FALSE, "password"),
          typed |-> NoSecret, plan |-> "keep", had |-> FALSE]

\* How it logs in, and what is typed, matter to a secret that is saved.
Matters(conn, typed) == conn.saveSecret \/ (conn.auth = "password" /\ typed = NoSecret)

Save(tree, id, conn, typed) ==
  [NoJob EXCEPT !.op = "save", !.id = id, !.conn = conn, !.typed = typed,
                !.plan = PlanSecretMutation(tree, id, conn, typed),
                !.had = id \in DOMAIN tree.sessions /\ tree.sessions[id].saveSecret]

\* handleDrop and reorderSession: among those already there.
Drop(tree, id, folder) ==
  [NoJob EXCEPT !.op = "reorder", !.folder = folder,
                !.ids = {id} \cup {s \in DOMAIN tree.sessions : tree.sessions[s].folder = folder}]

FolderMove(id, folder) == [NoJob EXCEPT !.op = "folder", !.id = id, !.folder = folder]

Deletion(op, id) == [NoJob EXCEPT !.op = op, !.id = id]

-----------------------------------------------------------------------------
(* Windows as processes.                                                   *)

Off == [at |-> "off", pid |-> 0, tree |-> Empty, job |-> NoJob, body |-> Empty, flushed |-> FALSE,
        migrating |-> FALSE, previous |-> NoSecret, tabs |-> 0, hadTabs |-> FALSE, last |-> 0,
        offer |-> "unknown"]

Expect(content) == [last |-> {content}, older |-> {}]

Init ==
  /\ procs = [p \in Pids |-> [who |-> "nobody", since |-> 0, runs |-> FALSE]]
  /\ now = 1
  /\ \E start \in Beginnings :
       /\ sessions = [seen |-> start.current, safe |-> start.current, flushed |-> TRUE]
       /\ legacy = start.legacy
       /\ keychain = start.keychain
       /\ left = start.left
       /\ expected = Expect(IF start.current = Nothing THEN Parsed(start.legacy) ELSE start.current)
  /\ window = [w \in Windows |-> Off]
  /\ snapshot = [taken |-> FALSE, pid |-> 0, since |-> 0, by |-> "nobody", gone |-> FALSE,
                 tabs |-> 0]
  /\ kept = TRUE

Uses(kind) == left[kind] > 0 /\ left' = [left EXCEPT ![kind] = @ - 1]
Fault == Uses("faults")

Tick ==
  /\ Uses("seconds") /\ now' = now + 1
  /\ UNCHANGED <<procs, sessions, legacy, keychain, window, snapshot, expected, kept>>

\* An id is not given twice in one second.
Free(pid) == ~procs[pid].runs /\ procs[pid].since < now

\* The window's tree is loaded as it opens, and nobody else migrates then.
Start(w, pid) ==
  /\ window[w].at = "off" /\ Free(pid) /\ Uses("ends")
  /\ sessions.seen = Nothing /\ legacy # Nothing => \A v \in Windows : window[v].at = "off"
  /\ procs' = [procs EXCEPT ![pid] = [who |-> w, since |-> now, runs |-> TRUE]]
  /\ window' = [window EXCEPT ![w] = [Off EXCEPT !.at = "open", !.pid = pid]]
  /\ UNCHANGED <<now, sessions, legacy, keychain, snapshot, expected, kept>>

\* Another program gets the id, or ends.
OtherProcess(pid) ==
  /\ Uses("others")
  /\ \/ Free(pid) /\ procs' = [procs EXCEPT ![pid] = [who |-> "other", since |-> now, runs |-> TRUE]]
     \/ procs[pid].who = "other" /\ procs[pid].runs /\ procs' = [procs EXCEPT ![pid].runs = FALSE]
  /\ UNCHANGED <<now, sessions, legacy, keychain, window, snapshot, expected, kept>>

Ends(w) ==
  /\ procs' = [procs EXCEPT ![window[w].pid].runs = FALSE]
  /\ window' = [window EXCEPT ![w] = Off]

\* A change cut off may have happened or not.
Cut(w) == IF window[w].at \in {"write", "replace", "forget", "done"} THEN {window[w].body} ELSE {}

Kill(w) ==
  /\ window[w].at # "off" /\ Uses("ends") /\ Ends(w)
  /\ expected' = [last |-> expected.last \cup Cut(w), older |-> expected.older]
  /\ kept' = (kept /\ window[w].job.op = "load")
  /\ snapshot' = [snapshot EXCEPT !.gone = @ \/ snapshot.by = w]
  /\ UNCHANGED <<now, sessions, legacy, keychain>>

\* The name may lead to the file it led to when the directory was last written
\* out, and an unwritten file is torn.  (replace_file syncs no directory; only
\* Windows is asked to write the rename through.)
PowerLoss ==
  /\ \E w \in Windows : window[w].at # "off"
  /\ Uses("ends")
  /\ \E found \in {sessions.safe, IF sessions.flushed THEN sessions.seen ELSE Torn} :
       sessions' = [seen |-> found, safe |-> found, flushed |-> TRUE]
  /\ procs' = [p \in Pids |-> [procs[p] EXCEPT !.runs = FALSE]]
  /\ window' = [w \in Windows |-> Off]
  /\ expected' = [last |-> expected.last \cup UNION {Cut(w) : w \in Windows},
                  older |-> expected.older \cup {Found(sessions.safe)}]
  /\ kept' = FALSE
  /\ snapshot' = [snapshot EXCEPT !.gone = TRUE]
  /\ UNCHANGED <<now, legacy, keychain>>

\* The system writes its directories out in its own time.
Flush ==
  /\ sessions.safe # sessions.seen
  /\ sessions' = [sessions EXCEPT !.safe = IF sessions.flushed THEN sessions.seen ELSE Torn]
  /\ UNCHANGED <<procs, now, legacy, keychain, window, snapshot, expected, kept, left>>

-----------------------------------------------------------------------------
(* A change of the connections, step by step.                              *)

Goes(w, at) == window' = [window EXCEPT ![w].at = at]
Rested(w) == [window[w] EXCEPT !.at = "idle", !.job = NoJob, !.body = Empty, !.migrating = FALSE,
                               !.flushed = FALSE, !.previous = NoSecret]
Rests(w) == window' = [window EXCEPT ![w] = Rested(w)]

\* saveProfile looks at the old secret first; the others go to the file.
Begins(w, job) ==
  window' = [window EXCEPT ![w].job = job, ![w].previous = NoSecret,
               ![w].at = IF job.plan = "keep" THEN "open"
                         ELSE IF job.had THEN "secret_get" ELSE "mutate"]

Saves(w, tree) ==
  \E id \in DOMAIN tree.sessions \cup NewSessions, folder \in Places(tree), saved \in BOOLEAN,
     auth \in Auths, typed \in {NoSecret, "typed"} :
    /\ Matters(Conn(folder, saved, auth), typed)
    /\ Begins(w, Save(tree, id, Conn(folder, saved, auth), typed))

Drops(w, tree) ==
  \E id \in DOMAIN tree.sessions, folder \in Places(tree) : Begins(w, Drop(tree, id, folder))

\* newFolder, and handleDrop of a folder: not into itself or below.
FolderMoves(w, tree) ==
  \E id \in DOMAIN tree.folders \cup NewFolders, folder \in Places(tree) :
    id \notin Above(tree, folder) /\ Begins(w, FolderMove(id, folder))

Deletions(w, tree) ==
  \/ \E id \in DOMAIN tree.sessions : Begins(w, Deletion("delete", id))
  \/ \E id \in DOMAIN tree.folders : Begins(w, Deletion("folderDelete", id))

Begin(w) ==
  /\ w \in Editors /\ window[w].at = "idle" /\ Uses("changes")
  /\ LET tree == window[w].tree
     IN Saves(w, tree) \/ Drops(w, tree) \/ FolderMoves(w, tree) \/ Deletions(w, tree)
  /\ UNCHANGED <<procs, now, sessions, legacy, keychain, snapshot, expected, kept>>

\* A call that fails before the file is touched ends the change.
SecretGet(w) ==
  /\ window[w].at = "secret_get"
  /\ \/ /\ window' = [window EXCEPT ![w].at = "mutate", ![w].previous = keychain[window[w].job.id]]
        /\ UNCHANGED left
     \/ Fault /\ Rests(w)
  /\ UNCHANGED <<procs, now, sessions, legacy, keychain, snapshot, expected, kept>>

ApplySecretMutation(w) ==
  LET job == window[w].job
  IN /\ window[w].at = "mutate"
     /\ \/ /\ keychain' = [keychain EXCEPT ![job.id] = IF job.plan = "set" THEN job.typed ELSE NoSecret]
           /\ Goes(w, "open") /\ UNCHANGED left
        \/ Fault /\ Rests(w) /\ UNCHANGED keychain
     /\ UNCHANGED <<procs, now, sessions, legacy, snapshot, expected, kept>>

\* A failed change of the file: saveProfile puts the secret back.
GivesUp(w) ==
  window' = IF window[w].job.plan = "keep" THEN [window EXCEPT ![w] = Rested(w)]
            ELSE [window EXCEPT ![w].migrating = FALSE, ![w].flushed = FALSE, ![w].body = Empty,
                                ![w].at = "undo"]

\* config_file and read_store: a load's content is shown, a change's written.
Open(w) ==
  LET read == Parsed(sessions.seen)
      job == window[w].job
  IN /\ window[w].at = "open"
     /\ \/ /\ sessions.seen = Nothing /\ legacy # Nothing
           /\ window' = [window EXCEPT ![w].at = "write", ![w].migrating = TRUE, ![w].body = legacy]
           /\ UNCHANGED <<expected, left>>
        \/ /\ sessions.seen # Nothing \/ legacy = Nothing
           /\ IF job.op = "load"
                THEN /\ window' = [window EXCEPT ![w] = [Rested(w) EXCEPT !.tree = read]]
                     /\ expected' = Expect(read)
                ELSE /\ window' = [window EXCEPT ![w].at = "write", ![w].body = Apply(read, job)]
                     /\ UNCHANGED expected
           /\ UNCHANGED left
        \/ Fault /\ GivesUp(w) /\ UNCHANGED expected
     /\ UNCHANGED <<procs, now, sessions, legacy, keychain, snapshot, kept>>

\* Mutant of WriteTemp: the temporary file is not flushed.
WriteTempOnly(w) ==
  /\ window[w].at = "write"
  /\ \/ window' = [window EXCEPT ![w].at = "replace", ![w].flushed = FALSE] /\ UNCHANGED left
     \/ Fault /\ GivesUp(w)
  /\ UNCHANGED <<procs, now, sessions, legacy, keychain, snapshot, expected, kept>>

\* atomic_write, up to sync_all; a failure removes the temporary file.
WriteTemp(w) ==
  /\ window[w].at = "write"
  /\ \/ window' = [window EXCEPT ![w].at = "replace", ![w].flushed = TRUE] /\ UNCHANGED left
     \/ Fault /\ GivesUp(w)
  /\ UNCHANGED <<procs, now, sessions, legacy, keychain, snapshot, expected, kept>>

\* replace_file.
ReplaceFile(w) ==
  /\ window[w].at = "replace"
  /\ \/ /\ sessions' = [sessions EXCEPT !.seen = window[w].body, !.flushed = window[w].flushed]
        /\ window' = [window EXCEPT ![w].migrating = FALSE, ![w].flushed = FALSE,
                        ![w].at = IF window[w].migrating THEN "open"
                                  ELSE IF window[w].job.op = "delete" THEN "forget" ELSE "done"]
        /\ UNCHANGED left
     \/ Fault /\ GivesUp(w) /\ UNCHANGED sessions
  /\ UNCHANGED <<procs, now, legacy, keychain, snapshot, expected, kept>>

\* sessions_delete's best effort.
Forget(w) ==
  /\ window[w].at = "forget" /\ Goes(w, "done")
  /\ \/ keychain' = [keychain EXCEPT ![window[w].job.id] = NoSecret] /\ UNCHANGED <<left, kept>>
     \/ Fault /\ kept' = FALSE /\ UNCHANGED keychain
  /\ UNCHANGED <<procs, now, sessions, legacy, snapshot, expected>>

\* The change is done, and the tree loaded again.
Done(w) ==
  /\ window[w].at = "done"
  /\ expected' = Expect(window[w].body)
  /\ window' = [window EXCEPT ![w] = [Rested(w) EXCEPT !.tree = Parsed(sessions.seen)]]
  /\ UNCHANGED <<procs, now, sessions, legacy, keychain, snapshot, kept, left>>

\* Mutant of Undo: the keychain is left as the change set it.
UndoNothing(w) ==
  /\ window[w].at = "undo" /\ Rests(w)
  /\ UNCHANGED <<procs, now, sessions, legacy, keychain, snapshot, expected, kept, left>>

Undo(w) ==
  /\ window[w].at = "undo" /\ Rests(w)
  /\ \/ keychain' = [keychain EXCEPT ![window[w].job.id] = window[w].previous] /\ UNCHANGED <<left, kept>>
     \/ Fault /\ kept' = FALSE /\ UNCHANGED keychain
  /\ UNCHANGED <<procs, now, sessions, legacy, snapshot, expected>>

-----------------------------------------------------------------------------
(* The snapshot of the open tabs.                                          *)

\* Mutant of Live: whoever has the id is the window that wrote it.
LiveByItsId(w) ==
  snapshot.pid # window[w].pid /\ snapshot.pid \in Pids /\ procs[snapshot.pid].runs

\* tabs_snapshot_load: written by another process that still runs.
Live(w) ==
  /\ snapshot.pid # window[w].pid /\ snapshot.pid \in Pids /\ procs[snapshot.pid].runs
  /\ procs[snapshot.pid].since = snapshot.since

\* offerRestore, after the tree's load and before there is a tab: nothing is
\* offered of a snapshot without tabs.  What it offers follows from what it loads
\* here; the looks that come next, at what makes single tabs unavailable, are
\* left out.
OfferRestore(w) ==
  LET usable == snapshot.taken /\ snapshot.tabs # 0
  IN /\ window[w].at = "idle" /\ window[w].offer = "unknown"
     /\ window' = [window EXCEPT ![w].offer = IF usable /\ ~Live(w) THEN "yes" ELSE "no"]
     /\ UNCHANGED <<procs, now, sessions, legacy, keychain, snapshot, expected, kept, left>>

ChangeTabs(w) ==
  /\ window[w].at # "off" /\ window[w].offer # "unknown" /\ Uses("tabs")
  /\ \E tabs \in 0 .. 2 \ {window[w].tabs} : window' = [window EXCEPT ![w].tabs = tabs]
  /\ UNCHANGED <<procs, now, sessions, legacy, keychain, snapshot, expected, kept>>

\* takeOne: not before there was a tab, nor when it would say the same.
HadTabs(w) == window[w].hadTabs \/ window[w].tabs # 0
SaysNew(w) == HadTabs(w) /\ window[w].last # window[w].tabs + 1

\* tabs_snapshot_save.
SnapshotBy(w) ==
  [taken |-> TRUE, pid |-> window[w].pid, since |-> procs[window[w].pid].since, by |-> w, gone |-> FALSE,
   tabs |-> window[w].tabs]

TakeSnapshot(w) ==
  /\ window[w].at # "off" /\ SaysNew(w)
  /\ \/ /\ snapshot' = SnapshotBy(w)
        /\ window' = [window EXCEPT ![w].hadTabs = TRUE, ![w].last = window[w].tabs + 1]
        /\ UNCHANGED left
     \/ Fault /\ window' = [window EXCEPT ![w].hadTabs = TRUE] /\ UNCHANGED snapshot
  /\ UNCHANGED <<procs, now, sessions, legacy, keychain, expected, kept>>

\* onCloseRequested takes one more.
Close(w) ==
  /\ window[w].at = "idle" /\ Ends(w)
  /\ \/ SaysNew(w) /\ snapshot' = [SnapshotBy(w) EXCEPT !.gone = TRUE] /\ UNCHANGED left
     \/ SaysNew(w) /\ Fault /\ snapshot' = [snapshot EXCEPT !.gone = @ \/ snapshot.by = w]
     \/ ~SaysNew(w) /\ snapshot' = [snapshot EXCEPT !.gone = @ \/ snapshot.by = w] /\ UNCHANGED left
  /\ UNCHANGED <<now, sessions, legacy, keychain, expected, kept>>

Next ==
  \/ Tick \/ PowerLoss \/ Flush
  \/ \E pid \in Pids : OtherProcess(pid) \/ \E w \in Windows : Start(w, pid)
  \/ \E w \in Windows :
       \/ Kill(w) \/ Begin(w) \/ SecretGet(w) \/ ApplySecretMutation(w) \/ Open(w) \/ WriteTemp(w)
       \/ ReplaceFile(w) \/ Forget(w) \/ Done(w) \/ Undo(w)
       \/ OfferRestore(w) \/ ChangeTabs(w) \/ TakeSnapshot(w) \/ Close(w)

Spec == Init /\ [][Next]_vars

-----------------------------------------------------------------------------
(* What the user counts on.                                                *)

\* The last change that was done or one that was cut off, and what was put in
\* place and is not done yet.
LastChanges ==
  expected.last \cup {window[w].body : w \in {v \in Windows : window[v].at \in {"forget", "done"}}}

\* The connections found are those of the last change that was done or of the
\* one that was cut off, whatever fails, is killed or migrates; a change that
\* failed left nothing behind.  A loss of power may bring back what the system
\* had written out by then, and so undo changes that were done, but what it
\* leaves is whole too (store.rs: "never a truncated sessions file").
ChangesAreWhole == View \in LastChanges \cup expected.older

\* No change that was done is lost: not so after a loss of power.
DoneIsFound == View \in LastChanges

\* Between changes, the keychain has a secret only for a saved connection that
\* says so: deleting one, taking the tick away, changing how it logs in and a
\* save that failed leave none behind.
SecretsBelong ==
  kept /\ (\A w \in Windows : window[w].job.op = "load") => Belong(keychain, View)

\* Every connection and folder is shown somewhere in the tree: moving and
\* deleting folders loses nothing (folder_delete, "so nothing is silently lost").
EverythingShown == AllShown(View)

\* A starting window offers the tabs of the last snapshot, if it has any, just
\* when the window that took it is gone, though its process id may be another's
\* by now.
OffersAreFree ==
  [][\A w \in Windows :
       window[w].offer = "unknown" /\ window'[w].offer # "unknown" =>
         (window'[w].offer = "yes" <=> snapshot.taken /\ snapshot.tabs # 0 /\ snapshot.gone)]_vars
=============================================================================
