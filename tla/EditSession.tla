------------------------------ MODULE EditSession ------------------------------
(***************************************************************************)
(* A copy of a remote file on this machine (src-tauri/src/edit.rs): opened *)
(* with Enter (never uploaded), or edited with F4, when a watcher uploads  *)
(* every save, asks when the server's file changed meanwhile, retries, and *)
(* decides on close whether the copy may go.  Others write to the same     *)
(* file on the server, and the connection drops.                           *)
(*                                                                         *)
(* A version of the server's file is who wrote it and which write it was;  *)
(* stamps tell versions apart.  The copy is the number of its last save.   *)
(* Others replace the file, as editors do.  A request fails when the       *)
(* connection is down.                                                     *)
(*                                                                         *)
(* A definition whose comment begins "Mutant" is not part of the           *)
(* specification.                                                          *)
(***************************************************************************)
EXTENDS Integers

CONSTANTS
  MaxSaves,    \* bound: saves in the editor
  MaxForeign,  \* bound: changes others make on the server
  MaxDrops     \* bound: losses of the connection

ASSUME EditAssumption == {MaxSaves, MaxForeign, MaxDrops} \subseteq Nat

VARIABLES
  server,     \* the version under the file's name on the server
  link,       \* the connection is up
  local,      \* the copy's last save, or Missing
  copy,       \* OpenedCopies' entry and what close() said of it
  session,    \* the watcher's Session and where it is
  shared,     \* what the watcher publishes for unsynced()
  temps,      \* temporary files of uploads on the server
  delivered,  \* history: the last save that was whole on the server
  raced,      \* history: the server's version came while an upload was running
  drops, foreign, saves

vars == <<server, link, local, copy, session, shared, temps, delivered, raced,
          drops, foreign, saves>>

Version(who, number) == [by |-> who, n |-> number]
Gone == Version("gone", 0)
Folder == Version("folder", 0)
NoStamp == Version("unknown", 0)
Missing == -1

IsFile == server.by \in {"them", "us", "cut"}
Uploading == {"stage", "send", "place", "rename", "truncate", "fill", "verify"}

Init ==
  /\ server = Version("them", 0)
  /\ link = TRUE
  /\ local = Missing
  /\ \E kind \in {"edit", "open"} :
       copy = [kind |-> kind, listed |-> FALSE, dir |-> TRUE, stop |-> FALSE,
               closedAt |-> 0, told |-> "none"]
  /\ session = [at |-> "look", remote |-> NoStamp, synced |-> Missing,
                attempted |-> Missing, pending |-> FALSE, conflicted |-> FALSE,
                stopped |-> FALSE, retry |-> "none", back |-> FALSE,
                stopping |-> FALSE, due |-> FALSE, now |-> Missing,
                agreed |-> FALSE, leftover |-> FALSE, sent |-> Missing,
                kept |-> FALSE]
  /\ shared = [synced |-> Missing, syncing |-> FALSE, behind |-> FALSE]
  /\ temps = 0 /\ delivered = 0 /\ raced = FALSE /\ drops = 0 /\ foreign = 0 /\ saves = 0
-----------------------------------------------------------------------------
(* Downloading *)

\* download: the file is looked at, then read.
Look ==
  /\ session.at = "look" /\ link /\ IsFile
  /\ session' = [session EXCEPT !.at = "fetch", !.remote = server]
  /\ UNCHANGED <<server, link, local, copy, shared, temps, delivered, raced, drops, foreign, saves>>

Fetch ==
  /\ session.at = "fetch" /\ link /\ IsFile
  /\ local' = 0
  /\ copy' = [copy EXCEPT !.listed = TRUE]
  /\ session' = [session EXCEPT !.at = IF copy.kind = "edit" THEN "idle" ELSE "done",
                                !.synced = 0]
  /\ shared' = [shared EXCEPT !.synced = 0]
  /\ UNCHANGED <<server, link, temps, delivered, raced, drops, foreign, saves>>

DownloadFails ==
  /\ session.at \in {"look", "fetch"} /\ ~(link /\ IsFile)
  /\ copy' = [copy EXCEPT !.dir = FALSE]
  /\ session' = [session EXCEPT !.at = "done"]
  /\ UNCHANGED <<server, link, local, shared, temps, delivered, raced, drops, foreign, saves>>
-----------------------------------------------------------------------------
(* The watcher's loop *)

\* saved, new_save, has_changes
Saved(s) == local # Missing /\ local # s.synced
NewSave(s) == Saved(s) /\ local # s.attempted
HasChanges(s) == s.pending \/ Saved(s)

\* publish
Published(s, syncing) ==
  [synced |-> s.synced, syncing |-> syncing, behind |-> s.pending \/ s.conflicted]

\* A poll, or a change of connection or of the stop flag, wakes it up.
Starts(s) == IF s.due \/ (s.stopping /\ HasChanges(s)) THEN "check" ELSE "end"

Enter(s) ==
  /\ session' = s
  /\ shared' = IF s.at = "check" THEN Published(s, TRUE) ELSE shared
  /\ UNCHANGED <<server, link, local, copy, temps, delivered, raced, drops, foreign, saves>>

Wake(why) ==
  LET back == why = "back"
      due == session.pending /\ (back \/ session.retry = "due")
      woken == [session EXCEPT !.stopping = why = "stop", !.due = due, !.now = local,
                               !.back = @ /\ ~back,
                               !.retry = IF back THEN "due" ELSE @]
  IN
  /\ session.at = "idle"
  /\ why = "stop" => copy.stop
  /\ back => session.back
  /\ Enter([woken EXCEPT !.at = CASE session.stopped -> "end"
                                  [] ~session.stopped /\ NewSave(session) -> "settle"
                                  [] OTHER -> Starts(woken)])

\* The editor had time to finish writing.
Settle ==
  LET settled == [session EXCEPT !.due = @ \/ local = session.now]
  IN session.at = "settle" /\ Enter([settled EXCEPT !.at = Starts(settled)])

TimerFires ==
  /\ session.retry = "set"
  /\ session' = [session EXCEPT !.retry = "due"]
  /\ UNCHANGED <<server, link, local, copy, shared, temps, delivered, raced, drops, foreign, saves>>

\* Mutant of Kept: an unanswered question about the last save keeps nothing.
KeptUnlessAsked(s) == IF s.stopped THEN Saved(s) ELSE s.pending
\* kept: the server doesn't have it all.
Kept(s) == CASE s.conflicted -> TRUE
             [] ~s.conflicted /\ s.stopped -> Saved(s)
             [] OTHER -> s.pending \/ Saved(s)

\* The loop's end: publish, and on stopping decide about the copy.
EndOfLoop ==
  LET ending == session.stopping \/ copy.stop IN
  /\ session.at = "end"
  /\ shared' = Published(session, FALSE)
  /\ session' = [session EXCEPT !.kept = ending /\ Kept(session),
                                !.now = Missing, !.sent = Missing, !.due = FALSE,
                                !.stopping = FALSE, !.agreed = FALSE,
                                !.at = CASE ~ending -> "idle"
                                         [] ending /\ Kept(session) -> "done"
                                         [] OTHER -> "remove"]
  /\ UNCHANGED <<server, link, local, copy, temps, delivered, raced, drops, foreign, saves>>

RemoveCopy ==
  /\ session.at = "remove"
  /\ copy' = [copy EXCEPT !.dir = FALSE]
  /\ local' = Missing
  /\ session' = [session EXCEPT !.at = "done"]
  /\ UNCHANGED <<server, link, shared, temps, delivered, raced, drops, foreign, saves>>
-----------------------------------------------------------------------------
(* Sync: looking at the server's file, and asking *)

\* Mutant of After: a failed save waits for the connection to come back.
AfterWithoutTimer(s) == [s EXCEPT !.at = "end"]
\* What follows sync: the retry timer.
After(s) == [s EXCEPT !.at = "end", !.retry = IF s.pending THEN "set" ELSE "none"]

\* Mutant of StopSyncing: what the server has counts as synced.
StopAndForget(s) == After([s EXCEPT !.stopped = TRUE, !.pending = FALSE, !.synced = local])
StopSyncing(s) == After([s EXCEPT !.stopped = TRUE, !.pending = FALSE])
Failed(s) == After([s EXCEPT !.pending = TRUE])

\* Mutant of Changed: only a file that is gone counts as changed.
ChangedIfGone == server = Gone
Changed == server = Gone \/ session.remote \notin {server, NoStamp}

\* Only the session changes.
Becomes(s) ==
  /\ session' = s
  /\ UNCHANGED <<server, link, local, copy, shared, temps, delivered, raced, drops, foreign, saves>>

Check ==
  LET looked == [session EXCEPT !.now = local, !.agreed = FALSE] IN
  /\ session.at = "check"
  /\ Becomes(CASE local = Missing -> After(looked)
               [] local # Missing /\ ~link -> Failed(looked)
               [] local # Missing /\ link /\ server = Folder -> StopSyncing(looked)
               [] OTHER -> [looked EXCEPT !.at = IF Changed THEN "asked" ELSE "stage"])

\* The user answers; or the tab is closed meanwhile.
Answer(overwrite) ==
  /\ session.at = "asked" /\ copy.listed
  /\ Becomes(IF overwrite THEN [session EXCEPT !.at = "stage", !.agreed = TRUE]
                          ELSE StopSyncing(session))

Unanswered ==
  /\ session.at = "asked" /\ copy.stop
  /\ Becomes(After([session EXCEPT !.conflicted = TRUE]))
-----------------------------------------------------------------------------
(* Upload *)

Trying == [session EXCEPT !.attempted = session.now]

\* A failure: the temporary file is removed, or left behind.  `touched`: the
\* server's file may have changed.
UploadFails(touched, made) ==
  LET left == made /\ ~link IN
  /\ temps' = IF made /\ link THEN temps - 1 ELSE temps
  /\ session' = Failed([Trying EXCEPT !.remote = IF touched THEN NoStamp ELSE @,
                                      !.leftover = @ \/ left])
  /\ UNCHANGED <<server, link, local, copy, shared, delivered, raced, drops, foreign, saves>>

\* Written beside the file; in place when the file is reached through a link,
\* the folder takes no new files, or the new file would not get its mode and
\* owner.
Stage(inPlace) ==
  /\ session.at = "stage" /\ link
  /\ session' = [Trying EXCEPT !.at = IF inPlace THEN "truncate" ELSE "send"]
  /\ temps' = IF inPlace THEN temps ELSE temps + 1
  /\ UNCHANGED <<server, link, local, copy, shared, delivered, raced, drops, foreign, saves>>

StageFails == session.at = "stage" /\ ~link /\ UploadFails(FALSE, FALSE)

Send ==
  /\ session.at = "send" /\ link /\ local # Missing
  /\ Becomes([session EXCEPT !.at = "place", !.sent = local])

SendFails == session.at = "send" /\ ~(link /\ local # Missing) /\ UploadFails(FALSE, TRUE)

\* A folder that appeared meanwhile is never replaced.
Place ==
  /\ session.at = "place"
  /\ IF link /\ server = Folder
     THEN session' = StopSyncing(session) /\ temps' = temps - 1
     ELSE session' = [session EXCEPT !.at = "rename"] /\ UNCHANGED temps
  /\ UNCHANGED <<server, link, local, copy, shared, delivered, raced, drops, foreign, saves>>

Arrives(save) == delivered' = IF save > delivered THEN save ELSE delivered

Rename ==
  /\ session.at = "rename" /\ link /\ server # Folder
  /\ server' = Version("us", session.sent)
  /\ Arrives(session.sent)
  /\ temps' = temps - 1
  /\ raced' = FALSE
  /\ session' = [session EXCEPT !.at = "verify"]
  /\ UNCHANGED <<link, local, copy, shared, drops, foreign, saves>>

\* Mutant of RenameFails: what is there is still what was known.
RenameFailsUntouched ==
  session.at = "rename" /\ (~link \/ server = Folder) /\ UploadFails(FALSE, TRUE)
RenameFails ==
  session.at = "rename" /\ (~link \/ server = Folder) /\ UploadFails(TRUE, TRUE)

\* The rename lands and the connection drops before its answer.
RenameUnanswered ==
  /\ session.at = "rename" /\ link /\ server # Folder /\ drops < MaxDrops
  /\ server' = Version("us", session.sent)
  /\ Arrives(session.sent)
  /\ temps' = temps - 1
  /\ raced' = FALSE
  /\ link' = FALSE /\ drops' = drops + 1
  /\ session' = Failed([session EXCEPT !.remote = NoStamp, !.leftover = TRUE, !.back = FALSE])
  /\ UNCHANGED <<local, copy, shared, foreign, saves>>

Truncate ==
  /\ session.at = "truncate" /\ link /\ server # Folder
  /\ server' = Version("cut", session.now)
  /\ raced' = FALSE
  /\ session' = [session EXCEPT !.at = "fill"]
  /\ UNCHANGED <<link, local, copy, shared, temps, delivered, drops, foreign, saves>>

TruncateFails ==
  session.at = "truncate" /\ (~link \/ server = Folder) /\ UploadFails(FALSE, FALSE)

\* A file put there meanwhile stays: the open one is written.
Fill ==
  /\ session.at = "fill" /\ link /\ local # Missing
  /\ server' = IF server.by = "cut" THEN Version("us", local) ELSE server
  /\ Arrives(local)
  /\ session' = [session EXCEPT !.at = "verify"]
  /\ UNCHANGED <<link, local, copy, shared, temps, raced, drops, foreign, saves>>

FillFails == session.at = "fill" /\ ~(link /\ local # Missing) /\ UploadFails(TRUE, FALSE)

\* Mutant of Uploaded: what the copy is now counts as uploaded.
UploadedAsIs(stamp) ==
  After([session EXCEPT !.remote = stamp, !.synced = local, !.pending = FALSE,
                        !.conflicted = FALSE, !.leftover = FALSE])
\* What was looked at before the upload counts as uploaded.
Uploaded(stamp) ==
  After([session EXCEPT !.remote = stamp, !.synced = session.now, !.pending = FALSE,
                        !.conflicted = FALSE, !.leftover = FALSE])

\* The new stamp, and the leftover of an earlier failure removed.
Verify ==
  /\ session.at = "verify"
  /\ session' = Uploaded(IF link /\ server # Gone THEN server ELSE NoStamp)
  /\ temps' = IF session.leftover /\ link /\ temps > 0 THEN temps - 1 ELSE temps
  /\ UNCHANGED <<server, link, local, copy, shared, delivered, raced, drops, foreign, saves>>
-----------------------------------------------------------------------------
(* Closing, quitting *)

\* Mutant of Unsynced: only what the watcher knows of.
UnsyncedAsPublished == shared.syncing \/ shared.behind
\* unsynced: what the user is told of when quitting.
Unsynced == shared.syncing \/ shared.behind \/ local # shared.synced

\* close: out of the list, then the watcher is told to stop.
Close ==
  /\ copy.listed
  /\ copy' = IF copy.kind = "edit"
             THEN [copy EXCEPT !.listed = FALSE, !.stop = TRUE, !.told = "waiting",
                               !.closedAt = local]
             ELSE [copy EXCEPT !.listed = FALSE, !.closedAt = local,
                               !.dir = local \notin {0, Missing},
                               !.told = IF local \in {0, Missing} THEN "gone" ELSE "kept"]
  /\ local' = IF copy'.dir THEN local ELSE Missing
  /\ UNCHANGED <<server, link, session, shared, temps, delivered, raced, drops, foreign, saves>>

Told(word) ==
  /\ copy.told = "waiting"
  /\ copy' = [copy EXCEPT !.told = word]
  /\ UNCHANGED <<server, link, local, session, shared, temps, delivered, raced, drops, foreign, saves>>

CloseEnds == session.at = "done" /\ Told(IF session.kept THEN "kept" ELSE "gone")
\* CLOSE_WAIT: "the copy goes once it's done, and stays if it fails"
CloseTimesOut == session.at # "done" /\ Told("running")
-----------------------------------------------------------------------------
(* The editor, others and the connection *)

Save ==
  /\ session.at \notin {"look", "fetch"} /\ copy.dir /\ saves < MaxSaves
  /\ saves' = saves + 1
  /\ local' = saves + 1
  /\ UNCHANGED <<server, link, copy, session, shared, temps, delivered, raced, drops, foreign>>

\* The copy is deleted, or saved elsewhere: its saves are not ours to keep.
Delete ==
  /\ local > 0
  /\ local' = Missing
  /\ copy' = [copy EXCEPT !.closedAt = 0]
  /\ UNCHANGED <<server, link, session, shared, temps, delivered, raced, drops, foreign, saves>>

Foreign(version) ==
  /\ foreign < MaxForeign
  /\ version # server
  /\ server' = version
  /\ foreign' = foreign + 1
  /\ raced' = (session.at \in Uploading \cup {"asked"})
  /\ UNCHANGED <<link, local, copy, session, shared, temps, delivered, drops, saves>>

Drop ==
  /\ link /\ drops < MaxDrops
  /\ link' = FALSE /\ drops' = drops + 1
  /\ session' = [session EXCEPT !.back = FALSE]
  /\ UNCHANGED <<server, local, copy, shared, temps, delivered, raced, foreign, saves>>

Return ==
  /\ ~link
  /\ link' = TRUE
  /\ session' = [session EXCEPT !.back = TRUE]
  /\ UNCHANGED <<server, local, copy, shared, temps, delivered, raced, drops, foreign, saves>>

Watch ==
  \/ \E why \in {"poll", "stop", "back"} : Wake(why)
  \/ Settle \/ EndOfLoop \/ RemoveCopy \/ Check \/ Unanswered
  \/ \E inPlace \in BOOLEAN : Stage(inPlace)
  \/ StageFails \/ Send \/ SendFails \/ Place \/ Rename \/ RenameFails
  \/ Truncate \/ TruncateFails \/ Fill \/ FillFails \/ Verify
User == \E overwrite \in BOOLEAN : Answer(overwrite)

Next ==
  \/ Look \/ Fetch \/ DownloadFails
  \/ Watch \/ User \/ TimerFires \/ RenameUnanswered
  \/ Close \/ CloseEnds \/ CloseTimesOut
  \/ Save \/ Delete \/ Drop \/ Return
  \/ \E version \in {Version("them", foreign + 1), Gone, Folder} : Foreign(version)

\* The watcher is a task of its own, timers fire, connections come back and
\* the user answers questions; nobody has to save or to close.
Fairness == WF_vars(Watch) /\ WF_vars(TimerFires) /\ WF_vars(Return) /\ WF_vars(User)

Spec == Init /\ [][Next]_vars /\ Fairness
-----------------------------------------------------------------------------
Watched == copy.kind = "edit" /\ session.at \notin {"look", "fetch", "done"}

TypeOK ==
  /\ server.by \in {"them", "us", "cut", "gone", "folder"}
  /\ local \in {Missing} \cup 0 .. MaxSaves
  /\ copy.told \in {"none", "waiting", "running", "kept", "gone"}
  /\ session.retry \in {"none", "set", "due"}
  /\ session.synced \in {Missing} \cup 0 .. MaxSaves
  /\ temps \in Nat /\ delivered \in 0 .. MaxSaves

\* A copy is deleted only once everything saved before its tab was closed was
\* on the server, and one the user was told is kept stays.
LastSaveSurvives ==
  /\ ~copy.dir => delivered >= copy.closedAt
  /\ copy.told = "kept" => copy.dir

\* Quitting asks about every edited copy that holds a save the server never got.
QuitKnows == copy.listed /\ Watched /\ delivered < local => Unsynced

\* A version someone else put on the server between two uploads is replaced
\* only when it is the one the copy was last in step with, or the user agreed
\* (the next upload after one that was cut off does not ask).
ReplacedKnowingly ==
  [][server.by = "them" /\ server'.by \in {"us", "cut"} =>
       session.agreed \/ raced \/ session.remote \in {server, NoStamp}]_vars

\* "uploads every save back ... after checking that the server's file didn't
\* change meanwhile": also after an upload that was cut off.
NeverOverUnseen ==
  [][server.by = "them" /\ server'.by \in {"us", "cut"} =>
       session.agreed \/ raced \/ session.remote = server
       \/ server = Version("them", 0)]_vars

\* A save is uploaded in the end, unless the user keeps the server's version,
\* the copy is saved again or deleted, or its tab is closed.
SavesArrive ==
  \A n \in 1 .. MaxSaves :
    local = n /\ Watched ~> delivered >= n \/ session.stopped \/ local # n \/ copy.stop
=============================================================================
