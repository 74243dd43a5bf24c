--------------------------- MODULE EditSessionProofs ---------------------------
(***************************************************************************)
(* Proofs about EditSession for any number of saves, changes by others and *)
(* lost connections: no save is lost on close, quitting tells of every one *)
(* that is not on the server, and nobody's version is replaced unasked.    *)
(***************************************************************************)
EXTENDS EditSession, TLAPS

Places == {"look", "fetch", "idle", "settle", "check", "asked", "end", "remove", "done"}
          \cup Uploading
Downloading == {"look", "fetch"}
Saves == {Missing} \cup 0 .. MaxSaves

\* What the watcher keeps of one copy.
Stamps == [by : {"them", "us", "cut", "gone", "folder", "unknown"}, n : Int]
Sessions == [at : Places, remote : Stamps, synced : Saves, attempted : Saves,
             pending : BOOLEAN, conflicted : BOOLEAN, stopped : BOOLEAN,
             retry : {"none", "set", "due"}, back : BOOLEAN, stopping : BOOLEAN,
             due : BOOLEAN, now : Saves, agreed : BOOLEAN, leftover : BOOLEAN,
             sent : Saves, kept : BOOLEAN]

Copies == [kind : {"edit", "open"}, listed : BOOLEAN, dir : BOOLEAN, stop : BOOLEAN,
           closedAt : Saves, told : {"none", "waiting", "running", "kept", "gone"}]

Types ==
  /\ server \in [by : {"them", "us", "cut", "gone", "folder"}, n : Int]
  /\ link \in BOOLEAN /\ raced \in BOOLEAN
  /\ local \in Saves
  /\ copy \in Copies
  /\ session \in Sessions
  /\ shared \in [synced : Saves, syncing : BOOLEAN, behind : BOOLEAN]
  /\ temps \in Nat /\ delivered \in 0 .. MaxSaves
  /\ drops \in Nat /\ foreign \in Nat /\ saves \in 0 .. MaxSaves

\* The copy is the last save, and what an upload reads of it is no older than
\* what the watcher looked at.
CopyIsLatest ==
  /\ local \in {Missing, saves}
  /\ session.at \in Downloading => saves = 0
  /\ session.at \in Uploading \cup {"asked"} => session.now \in Nat /\ session.now <= saves
  /\ session.at \in {"place", "rename"} =>
       session.now <= session.sent /\ session.sent <= saves

\* What counts as uploaded was whole on the server, for the watcher and for
\* those it tells.
SyncedIsDelivered ==
  /\ session.synced <= delivered /\ shared.synced <= delivered
  /\ session.at = "verify" => session.now <= delivered

\* How far a close is: the folder goes last, and only when all there was to
\* save then is on the server.
ClosingOrder ==
  /\ copy.listed => copy.dir /\ ~copy.stop /\ session.at \notin Downloading
  /\ session.at \in Downloading => copy.told = "none" /\ copy.closedAt = 0 /\ ~copy.stop
  /\ copy.kind = "open" => session.at \in Downloading \cup {"done"} /\ ~copy.stop
  /\ copy.kind = "open" => copy.told # "waiting"
  /\ session.stopping => copy.stop
  /\ session.kept => session.at = "done" /\ copy.dir /\ copy.kind # "open"
  /\ copy.told = "kept" => session.at = "done" /\ copy.dir
  /\ ~copy.dir => session.at = "done"
  /\ session.at = "remove" => copy.stop /\ delivered >= copy.closedAt
  /\ copy.dir => copy.closedAt <= saves
  /\ copy.dir /\ local = Missing => copy.closedAt <= 0

\* An upload under way has a temporary file.
TempsAreThere == session.at \in {"send", "place", "rename"} => temps > 0

\* What an upload is about to replace is what was known, or the user agreed.
UploadIsKnowing ==
  session.at \in {"stage", "send", "place", "rename", "truncate"} /\ server.by = "them" =>
    session.agreed \/ raced \/ session.remote \in {server, NoStamp}

IndInv ==
  /\ Types /\ CopyIsLatest /\ SyncedIsDelivered /\ ClosingOrder /\ TempsAreThere
  /\ UploadIsKnowing /\ LastSaveSurvives

\* t is s in all but where it is and what it tries next.
Same(s, t) ==
  /\ t.synced = s.synced /\ t.now = s.now /\ t.sent = s.sent /\ t.remote = s.remote
  /\ t.stopping = s.stopping /\ t.kept = s.kept /\ t.agreed = s.agreed

USE EditAssumption DEF Missing, Version, Gone, Folder, NoStamp

(***************************************************************************)
(* What the watcher's steps do to its session, field by field.             *)
(***************************************************************************)

\* Moving to another place changes nothing else.
LEMMA PlacedIs ==
  ASSUME NEW s \in Sessions, NEW place \in Places
  PROVE  /\ [s EXCEPT !.at = place] \in Sessions
         /\ [s EXCEPT !.at = place].at = place
         /\ Same(s, [s EXCEPT !.at = place])
BY DEF Sessions, Same

\* After ends the loop's turn.
LEMMA AfterIs ==
  ASSUME NEW s \in Sessions
  PROVE  After(s) \in Sessions /\ After(s).at = "end" /\ Same(s, After(s))
<1>1. "end" \in Places BY DEF Places
<1> QED BY <1>1 DEF Sessions, After, Same

\* A failure ends the turn with the save still pending.
LEMMA FailedIs ==
  ASSUME NEW s \in Sessions
  PROVE  Failed(s) \in Sessions /\ Failed(s).at = "end" /\ Same(s, Failed(s))
<1> DEFINE t == [s EXCEPT !.pending = TRUE]
<1>1. t \in Sessions /\ Same(s, t) BY DEF Sessions, Same
<1>2. Failed(s) = After(t) BY DEF Failed
<1> HIDE DEF t
<1> QED BY <1>1, <1>2, AfterIs DEF Same

\* So does giving up, with nothing pending.
LEMMA StopSyncingIs ==
  ASSUME NEW s \in Sessions
  PROVE  StopSyncing(s) \in Sessions /\ StopSyncing(s).at = "end" /\ Same(s, StopSyncing(s))
<1> DEFINE t == [s EXCEPT !.stopped = TRUE, !.pending = FALSE]
<1>1. t \in Sessions /\ Same(s, t) BY DEF Sessions, Same
<1>2. StopSyncing(s) = After(t) BY DEF StopSyncing
<1> HIDE DEF t
<1> QED BY <1>1, <1>2, AfterIs DEF Same

\* Uploaded: what was looked at before the upload counts as synced.
LEMMA UploadedIs ==
  ASSUME session \in Sessions, NEW stamp \in Stamps
  PROVE  /\ Uploaded(stamp) \in Sessions /\ Uploaded(stamp).at = "end"
         /\ Uploaded(stamp).synced = session.now
         /\ Uploaded(stamp).stopping = session.stopping /\ Uploaded(stamp).kept = session.kept
<1> DEFINE t == [session EXCEPT !.remote = stamp, !.synced = session.now, !.pending = FALSE,
                                !.conflicted = FALSE, !.leftover = FALSE]
<1>1. t \in Sessions BY DEF Sessions
<1>2. t.synced = session.now /\ t.stopping = session.stopping /\ t.kept = session.kept
  BY DEF Sessions
<1>3. Uploaded(stamp) = After(t) BY DEF Uploaded
<1> HIDE DEF t
<1> QED BY <1>1, <1>2, <1>3, AfterIs DEF Same

\* Trying notes which save is tried.
LEMMA TryingIs ==
  ASSUME session \in Sessions
  PROVE  Trying \in Sessions /\ Trying.at = session.at /\ Same(session, Trying)
         /\ Trying.remote = session.remote /\ Trying.leftover = session.leftover
BY DEF Trying, Sessions, Same

\* A failed upload ends the turn as any failure does.
LEMMA UploadFailsIs ==
  ASSUME session \in Sessions, NEW touched \in BOOLEAN, NEW made \in BOOLEAN, link \in BOOLEAN,
         UploadFails(touched, made)
  PROVE  /\ session' \in Sessions /\ session'.at = "end"
         /\ session'.synced = session.synced /\ session'.stopping = session.stopping
         /\ session'.kept = session.kept
<1> DEFINE stamp == IF touched THEN NoStamp ELSE Trying.remote
           leftover == Trying.leftover \/ (made /\ ~link)
           t == [Trying EXCEPT !.remote = stamp, !.leftover = leftover]
<1>1. stamp \in Stamps /\ leftover \in BOOLEAN
  BY TryingIs DEF Stamps, Sessions
<1>2. /\ t \in Sessions /\ t.synced = session.synced /\ t.stopping = session.stopping
      /\ t.kept = session.kept
  <2> HIDE DEF stamp, leftover
  <2> QED BY <1>1, TryingIs DEF Sessions, Same
<1>3. session' = Failed(t) BY DEF UploadFails
<1> HIDE DEF t
<1> QED BY <1>2, <1>3, FailedIs DEF Same

\* Waking: the copy is looked at, and only the stop flag makes it stop.
LEMMA WakeIs ==
  ASSUME Types, NEW why \in {"poll", "stop", "back"}, Wake(why)
  PROVE  /\ session' \in Sessions /\ session'.at \in {"end", "settle", "check"}
         /\ session'.synced = session.synced /\ session'.kept = session.kept
         /\ session'.stopping => copy.stop
<1> DEFINE back == why = "back"
           due == session.pending /\ (back \/ session.retry = "due")
           stopping == why = "stop"
           held == session.back /\ ~back
           retry == IF back THEN "due" ELSE session.retry
           woken == [session EXCEPT !.stopping = stopping, !.due = due, !.now = local,
                                    !.back = held, !.retry = retry]
<1>1. /\ session \in Sessions /\ due \in BOOLEAN /\ held \in BOOLEAN /\ stopping \in BOOLEAN
      /\ retry \in {"none", "set", "due"} /\ local \in Saves
  BY DEF Types, Sessions
<1>2. /\ woken \in Sessions /\ woken.synced = session.synced /\ woken.kept = session.kept
      /\ woken.stopping = stopping
  <2> HIDE DEF due, held, stopping, retry
  <2> QED BY <1>1 DEF Sessions
<1>3. PICK place \in {"end", "settle", "check"} : session' = [woken EXCEPT !.at = place]
  BY DEF Wake, Enter, Starts
<1>4. place \in Places BY <1>3 DEF Places
<1>5. stopping => copy.stop BY DEF Wake
<1> HIDE DEF woken, stopping
<1> QED BY <1>2, <1>3, <1>4, <1>5, PlacedIs DEF Same

\* Settling: only what is due changes.
LEMMA SettleIs ==
  ASSUME Types, Settle
  PROVE  /\ session' \in Sessions /\ session'.at \in {"end", "check"}
         /\ session'.synced = session.synced /\ session'.kept = session.kept
         /\ session'.stopping = session.stopping
<1> DEFINE due == session.due \/ local = session.now
           settled == [session EXCEPT !.due = due]
<1>1. session \in Sessions /\ due \in BOOLEAN BY DEF Types, Sessions
<1>2. settled \in Sessions /\ Same(session, settled)
  <2> HIDE DEF due
  <2> QED BY <1>1 DEF Sessions, Same
<1>3. PICK place \in {"end", "check"} : session' = [settled EXCEPT !.at = place]
  BY DEF Settle, Enter, Starts
<1>4. place \in Places BY <1>3 DEF Places
<1> HIDE DEF settled
<1> QED BY <1>2, <1>3, <1>4, PlacedIs DEF Same

\* At the end of a turn that ends the watcher, a copy that goes holds nothing
\* the server lacks.
LEMMA EndOfLoopIs ==
  ASSUME Types, EndOfLoop
  PROVE  /\ session' \in Sessions /\ session'.at \in {"idle", "done", "remove"}
         /\ session'.synced = session.synced /\ ~session'.stopping
         /\ session'.kept => session'.at = "done"
         /\ session'.at \in {"done", "remove"} => session.stopping \/ copy.stop
         /\ session'.at = "done" => session'.kept
         /\ session'.at = "remove" => local \in {Missing, session.synced}
<1> DEFINE ending == session.stopping \/ copy.stop
           kept == ending /\ Kept(session)
<1>1. /\ session \in Sessions /\ ending \in BOOLEAN /\ Kept(session) \in BOOLEAN /\ kept \in BOOLEAN
      /\ Missing \in Saves
  BY DEF Types, Sessions, Kept, Saved, Saves
<1>2. PICK place \in {"idle", "done", "remove"} :
        /\ session' = [session EXCEPT !.kept = kept, !.now = Missing, !.sent = Missing,
                                      !.due = FALSE, !.stopping = FALSE, !.agreed = FALSE,
                                      !.at = place]
        /\ ~ending => place = "idle"
        /\ ending /\ Kept(session) => place = "done"
        /\ ending /\ ~Kept(session) => place = "remove"
  BY DEF EndOfLoop
<1>3. place \in Places BY <1>2 DEF Places
<1>4. ~Kept(session) => local \in {Missing, session.synced} BY DEF Kept, Saved
<1>5. /\ session' \in Sessions /\ session'.at = place /\ session'.kept = kept
      /\ session'.synced = session.synced /\ ~session'.stopping
  <2> HIDE DEF kept
  <2> QED BY <1>1, <1>2, <1>3 DEF Sessions
<1> QED BY <1>1, <1>2, <1>4, <1>5

\* What is published is what the session counts as synced.
LEMMA PublishedIs ==
  ASSUME NEW s \in Sessions, NEW syncing \in BOOLEAN
  PROVE  /\ Published(s, syncing) \in [synced : Saves, syncing : BOOLEAN, behind : BOOLEAN]
         /\ Published(s, syncing).synced = s.synced
<1> DEFINE behind == s.pending \/ s.conflicted
<1>1. behind \in BOOLEAN /\ s.synced \in Saves BY DEF Sessions
<1>2. Published(s, syncing) = [synced |-> s.synced, syncing |-> syncing, behind |-> behind]
  BY DEF Published
<1> HIDE DEF behind
<1> QED BY <1>1, <1>2
-----------------------------------------------------------------------------
(***************************************************************************)
(* Every step keeps the inductive invariant.                               *)
(***************************************************************************)

\* The initial states satisfy the invariant.
LEMMA InitInd == Init => IndInv
<1> SUFFICES ASSUME Init PROVE IndInv OBVIOUS
<1>1. session \in Sessions
  BY DEF Init, Sessions, Places, Stamps, Saves
<1>2. Types
  <2>1. copy \in Copies
    BY DEF Init, Copies, Saves
  <2>2. shared \in [synced : Saves, syncing : BOOLEAN, behind : BOOLEAN]
    BY DEF Init, Saves
  <2>3. server \in [by : {"them", "us", "cut", "gone", "folder"}, n : Int]
    BY DEF Init
  <2>4. local \in Saves /\ delivered \in 0 .. MaxSaves /\ saves \in 0 .. MaxSaves
    BY EditAssumption DEF Init, Saves
  <2> QED BY <1>1, <2>1, <2>2, <2>3, <2>4 DEF Init, Types
<1>3. session.at = "look" /\ session.synced = Missing /\ session.stopping = FALSE
      /\ session.kept = FALSE
  BY DEF Init
<1>4. /\ copy.listed = FALSE /\ copy.dir = TRUE /\ copy.stop = FALSE /\ copy.closedAt = 0
      /\ copy.told = "none"
  BY DEF Init
<1>5. saves = 0 /\ delivered = 0 /\ local = Missing /\ shared.synced = Missing
  BY DEF Init
<1>6. CopyIsLatest BY <1>3, <1>5 DEF CopyIsLatest, Uploading
<1>7. SyncedIsDelivered BY <1>3, <1>5 DEF SyncedIsDelivered
<1>8. ClosingOrder BY <1>3, <1>4, <1>5 DEF ClosingOrder, Downloading
<1>9. TempsAreThere /\ UploadIsKnowing /\ LastSaveSurvives
  BY <1>3, <1>4 DEF TempsAreThere, UploadIsKnowing, LastSaveSurvives
<1> QED BY <1>2, <1>6, <1>7, <1>8, <1>9 DEF IndInv

\* A step of the watcher that touches neither the server's file nor the copy.
LEMMA WatcherStep ==
  ASSUME IndInv,
         session.at \notin Downloading \cup {"done"},
         session' \in Sessions,
         session'.at \notin Downloading \cup {"done", "remove"},
         session'.synced <= delivered, session'.stopping => copy.stop,
         session'.kept = session.kept,
         temps' \in Nat,
         UNCHANGED <<server, link, local, copy, shared, delivered, raced, drops, foreign, saves>>,
         session'.at \in Uploading \cup {"asked"} => session'.now \in Nat /\ session'.now <= saves,
         session'.at \in {"place", "rename"} =>
           session'.now <= session'.sent /\ session'.sent <= saves,
         session'.at = "verify" => session'.now <= delivered,
         session'.at \in {"send", "place", "rename"} => temps' > 0,
         UploadIsKnowing'
  PROVE  IndInv'
<1>1. Types' BY DEF IndInv, Types
<1>2. CopyIsLatest' BY DEF IndInv, CopyIsLatest, Downloading
<1>3. SyncedIsDelivered' BY DEF IndInv, SyncedIsDelivered
<1>4. session.kept = FALSE /\ copy.dir /\ copy.kind # "open" /\ copy.told # "kept"
  BY DEF IndInv, Types, Sessions, ClosingOrder
<1>5. ClosingOrder' BY <1>4 DEF IndInv, ClosingOrder
<1>6. TempsAreThere' BY DEF TempsAreThere
<1>7. LastSaveSurvives' BY DEF IndInv, LastSaveSurvives
<1> QED BY <1>1, <1>2, <1>3, <1>5, <1>6, <1>7 DEF IndInv

\* So does one that ends its turn.
LEMMA TurnEnds ==
  ASSUME IndInv,
         session.at \notin Downloading \cup {"done"},
         session' \in Sessions, session'.at = "end",
         session'.synced <= delivered, session'.stopping => copy.stop,
         session'.kept = session.kept,
         temps' \in Nat,
         UNCHANGED <<server, link, local, copy, shared, delivered, raced, drops, foreign, saves>>
  PROVE  IndInv'
<1>1. session'.at \notin Uploading \cup Downloading \cup {"done", "remove"}
  BY DEF Uploading, Downloading
<1>2. UploadIsKnowing' BY DEF UploadIsKnowing
<1> QED BY <1>1, <1>2, WatcherStep DEF Uploading

\* A step of the loop that publishes what the session knows.
LEMMA EnterStep ==
  ASSUME IndInv,
         session.at \in {"idle", "settle"},
         session' \in Sessions, session'.at \in {"end", "settle", "check"},
         session'.synced = session.synced, session'.kept = session.kept,
         session'.stopping => copy.stop,
         shared' \in {shared, Published(session', TRUE)},
         UNCHANGED <<server, link, local, copy, temps, delivered, raced, drops, foreign, saves>>
  PROVE  IndInv'
<1>1. shared'.synced <= delivered /\ shared' \in [synced : Saves, syncing : BOOLEAN, behind : BOOLEAN]
  BY PublishedIs DEF IndInv, Types, SyncedIsDelivered
<1>2. Types' BY <1>1 DEF IndInv, Types
<1>3. CopyIsLatest' BY DEF IndInv, CopyIsLatest, Uploading, Downloading
<1>4. SyncedIsDelivered' BY <1>1 DEF IndInv, SyncedIsDelivered
<1>5. session.kept = FALSE /\ copy.dir /\ copy.kind # "open" /\ copy.told # "kept"
  BY DEF IndInv, Types, Sessions, ClosingOrder, Downloading
<1>6. ClosingOrder' BY <1>5 DEF IndInv, ClosingOrder, Downloading
<1>7. TempsAreThere' /\ UploadIsKnowing' /\ LastSaveSurvives'
  BY DEF IndInv, TempsAreThere, UploadIsKnowing, LastSaveSurvives
<1> QED BY <1>2, <1>3, <1>4, <1>6, <1>7 DEF IndInv

\* The loop wakes up.
LEMMA WakeStep ==
  ASSUME IndInv, NEW why \in {"poll", "stop", "back"}, Wake(why)
  PROVE  IndInv'
<1>1. Types BY DEF IndInv
<1>2. session.at = "idle" /\ session \in Sessions BY DEF IndInv, Types, Wake
<1>3. /\ session' \in Sessions /\ session'.at \in {"end", "settle", "check"}
      /\ session'.synced = session.synced /\ session'.kept = session.kept
      /\ session'.stopping => copy.stop
  BY <1>1, WakeIs
<1>4. /\ shared' \in {shared, Published(session', TRUE)}
      /\ UNCHANGED <<server, link, local, copy, temps, delivered, raced, drops, foreign, saves>>
  BY DEF Wake, Enter
<1> QED BY <1>1, <1>2, <1>3, <1>4, EnterStep

\* The editor had time.
LEMMA SettleStep == ASSUME IndInv, Settle PROVE IndInv'
<1>1. Types /\ (session.stopping => copy.stop) BY DEF IndInv, ClosingOrder
<1>2. session.at = "settle" BY DEF Settle
<1>3. /\ session' \in Sessions /\ session'.at \in {"end", "check"}
      /\ session'.synced = session.synced /\ session'.kept = session.kept
      /\ session'.stopping = session.stopping
  BY <1>1, SettleIs
<1>4. /\ shared' \in {shared, Published(session', TRUE)}
      /\ UNCHANGED <<server, link, local, copy, temps, delivered, raced, drops, foreign, saves>>
  BY DEF Settle, Enter
<1> QED BY <1>1, <1>2, <1>3, <1>4, EnterStep

\* The loop ends its turn: this is where it is decided that a copy goes.
LEMMA EndOfLoopStep == ASSUME IndInv, EndOfLoop PROVE IndInv'
<1>1. Types BY DEF IndInv
<1>2. session.at = "end" /\ session \in Sessions BY DEF IndInv, Types, EndOfLoop
<1>3. /\ session' \in Sessions /\ session'.at \in {"idle", "done", "remove"}
      /\ session'.synced = session.synced /\ ~session'.stopping
      /\ session'.kept => session'.at = "done"
      /\ session'.at \in {"done", "remove"} => session.stopping \/ copy.stop
      /\ session'.at = "done" => session'.kept
      /\ session'.at = "remove" => local \in {Missing, session.synced}
  BY <1>1, EndOfLoopIs
<1>4. /\ shared' = Published(session, FALSE)
      /\ UNCHANGED <<server, link, local, copy, temps, delivered, raced, drops, foreign, saves>>
  BY DEF EndOfLoop
<1>5. shared'.synced <= delivered /\ shared' \in [synced : Saves, syncing : BOOLEAN, behind : BOOLEAN]
  BY <1>2, <1>4, PublishedIs DEF IndInv, SyncedIsDelivered
<1>6. Types' BY <1>3, <1>4, <1>5 DEF IndInv, Types
<1>7. CopyIsLatest' BY <1>3, <1>4 DEF IndInv, CopyIsLatest, Uploading, Downloading
<1>8. SyncedIsDelivered' BY <1>3, <1>4, <1>5 DEF IndInv, SyncedIsDelivered
<1>9. copy.dir /\ copy.kind # "open" /\ copy.told # "kept"
  BY <1>2 DEF IndInv, Types, ClosingOrder, Downloading
<1>10. ClosingOrder'
  <2>1. session.stopping \/ copy.stop => copy.stop BY DEF IndInv, ClosingOrder
  <2>2. session'.at = "remove" => delivered >= copy.closedAt
    <3>1. copy.closedAt <= saves /\ (local = Missing => copy.closedAt <= 0)
          /\ local \in {Missing, saves} /\ session.synced <= delivered
      BY <1>9 DEF IndInv, ClosingOrder, CopyIsLatest, SyncedIsDelivered
    <3>2. copy.closedAt \in Int /\ delivered \in Nat /\ saves \in Nat /\ session.synced \in Int
      BY <1>1, <1>2, EditAssumption DEF Types, Copies, Saves, Sessions
    <3> QED BY <1>3, <3>1, <3>2
  <2> QED BY <1>3, <1>4, <1>9, <2>1, <2>2 DEF IndInv, ClosingOrder, Downloading
<1>11. TempsAreThere' /\ UploadIsKnowing' /\ LastSaveSurvives'
  BY <1>3, <1>4, <1>9 DEF IndInv, TempsAreThere, UploadIsKnowing, LastSaveSurvives
<1> QED BY <1>6, <1>7, <1>8, <1>10, <1>11 DEF IndInv

\* The copy goes, with everything it held on the server.
LEMMA RemoveCopyStep == ASSUME IndInv, RemoveCopy PROVE IndInv'
<1>1. session.at = "remove" /\ session \in Sessions /\ "done" \in Places
  BY DEF IndInv, Types, RemoveCopy, Places
<1>2. session' \in Sessions /\ session'.at = "done" /\ Same(session, session')
  BY <1>1, PlacedIs DEF RemoveCopy
<1>3. /\ copy' \in Copies
      /\ copy'.dir = FALSE /\ copy'.listed = copy.listed /\ copy'.stop = copy.stop
      /\ copy'.closedAt = copy.closedAt /\ copy'.told = copy.told /\ copy'.kind = copy.kind
  BY DEF RemoveCopy, IndInv, Types, Copies
<1>4. /\ local' = Missing
      /\ UNCHANGED <<server, link, shared, temps, delivered, raced, drops, foreign, saves>>
  BY DEF RemoveCopy
<1>5. Types' BY <1>2, <1>3, <1>4 DEF IndInv, Types, Saves
<1>6. CopyIsLatest' BY <1>2, <1>4 DEF IndInv, CopyIsLatest, Uploading, Downloading
<1>7. SyncedIsDelivered' BY <1>2, <1>4 DEF IndInv, SyncedIsDelivered, Same
<1>8. /\ copy.stop /\ delivered >= copy.closedAt /\ copy.told # "kept" /\ ~session.kept
      /\ ~copy.listed /\ copy.kind # "open"
  BY <1>1 DEF IndInv, ClosingOrder, Downloading, Types
<1>9. ClosingOrder'
  BY <1>1, <1>2, <1>3, <1>4, <1>8 DEF IndInv, ClosingOrder, Downloading, Same
<1>10. TempsAreThere' /\ UploadIsKnowing' /\ LastSaveSurvives'
  BY <1>2, <1>3, <1>4, <1>8 DEF IndInv, TempsAreThere, UploadIsKnowing, LastSaveSurvives
<1> QED BY <1>5, <1>6, <1>7, <1>9, <1>10 DEF IndInv

\* The server's file is looked at: only a known version is replaced unasked.
LEMMA CheckStep == ASSUME IndInv, Check PROVE IndInv'
<1> DEFINE looked == [session EXCEPT !.now = local, !.agreed = FALSE]
<1>1. Types /\ session \in Sessions /\ local \in Saves /\ session.at = "check"
  BY DEF IndInv, Types, Check
<1>2. /\ looked \in Sessions /\ looked.synced = session.synced /\ looked.now = local
      /\ looked.stopping = session.stopping /\ looked.kept = session.kept
      /\ looked.remote = session.remote
  BY <1>1 DEF Sessions
<1>3. /\ UNCHANGED <<server, link, local, copy, shared, temps, delivered, raced, drops, foreign, saves>>
      /\ \/ session' \in {After(looked), Failed(looked), StopSyncing(looked)}
         \/ local # Missing /\ session' = [looked EXCEPT !.at = IF Changed THEN "asked" ELSE "stage"]
  BY DEF Check, Becomes
<1>4. /\ session.synced <= delivered /\ (session.stopping => copy.stop) /\ temps \in Nat
      /\ local \in {Missing, saves} /\ saves \in Nat
  BY <1>1, EditAssumption DEF IndInv, SyncedIsDelivered, ClosingOrder, CopyIsLatest, Types
<1> HIDE DEF looked
<1>5. CASE session' \in {After(looked), Failed(looked), StopSyncing(looked)}
  <2>1. session' \in Sessions /\ session'.at = "end" /\ Same(looked, session')
    BY <1>2, <1>5, AfterIs, FailedIs, StopSyncingIs
  <2> QED BY <1>1, <1>2, <1>3, <1>4, <2>1, TurnEnds DEF Same, Downloading
<1>6. CASE local # Missing /\ session' = [looked EXCEPT !.at = IF Changed THEN "asked" ELSE "stage"]
  <2> DEFINE place == IF Changed THEN "asked" ELSE "stage"
  <2>1. place \in {"asked", "stage"} /\ place \in Places BY DEF Places, Uploading
  <2>2. session' \in Sessions /\ session'.at = place /\ Same(looked, session')
    <3>1. session' = [looked EXCEPT !.at = place] BY <1>6
    <3> HIDE DEF place
    <3> QED BY <1>2, <2>1, <3>1, PlacedIs
  <2>3. UploadIsKnowing'
    <3>1. place = "stage" => session.remote \in {server, NoStamp} BY DEF Changed
    <3> HIDE DEF place
    <3> QED BY <1>2, <1>3, <2>1, <2>2, <3>1 DEF UploadIsKnowing, Same
  <2> HIDE DEF place
  <2> QED BY <1>1, <1>2, <1>3, <1>4, <1>6, <2>1, <2>2, <2>3, WatcherStep DEF Same, Downloading
<1> QED BY <1>3, <1>5, <1>6

\* What every step of the watcher's uploads starts from.
LEMMA InUpload ==
  ASSUME IndInv
  PROVE  /\ session \in Sessions /\ temps \in Nat /\ link \in BOOLEAN
         /\ delivered \in Nat /\ saves \in Nat /\ delivered <= MaxSaves /\ saves <= MaxSaves
         /\ session.synced <= delivered /\ (session.stopping => copy.stop)
         /\ session.at \in Uploading \cup {"asked"} => session.now \in Nat /\ session.now <= saves
         /\ session.at \in {"send", "place", "rename"} => temps - 1 \in Nat
<1>1. /\ session \in Sessions /\ temps \in Nat /\ link \in BOOLEAN
      /\ delivered \in Nat /\ saves \in Nat /\ delivered <= MaxSaves /\ saves <= MaxSaves
  BY EditAssumption DEF IndInv, Types
<1>2. session.synced <= delivered /\ (session.stopping => copy.stop)
  BY DEF IndInv, SyncedIsDelivered, ClosingOrder
<1>3. session.at \in Uploading \cup {"asked"} => session.now \in Nat /\ session.now <= saves
  BY DEF IndInv, CopyIsLatest
<1>4. session.at \in {"send", "place", "rename"} => temps - 1 \in Nat
  BY <1>1 DEF IndInv, TempsAreThere
<1> QED BY <1>1, <1>2, <1>3, <1>4

\* The user agrees, or keeps the server's version.
LEMMA AnswerStep == ASSUME IndInv, NEW overwrite \in BOOLEAN, Answer(overwrite) PROVE IndInv'
<1>1. /\ session.at = "asked"
      /\ UNCHANGED <<server, link, local, copy, shared, temps, delivered, raced, drops, foreign, saves>>
  BY DEF Answer, Becomes
<1>2. CASE overwrite
  <2>1. session' = [session EXCEPT !.at = "stage", !.agreed = TRUE] BY <1>2 DEF Answer, Becomes
  <2>2. /\ session' \in Sessions /\ session'.at = "stage" /\ session'.agreed
        /\ session'.synced = session.synced /\ session'.now = session.now
        /\ session'.stopping = session.stopping /\ session'.kept = session.kept
    BY <2>1, InUpload, <1>1 DEF Sessions, Places, Uploading
  <2>3. UploadIsKnowing' BY <2>2 DEF UploadIsKnowing
  <2> QED BY <1>1, <2>2, <2>3, InUpload, WatcherStep DEF Downloading, Uploading
<1>3. CASE ~overwrite
  <2>1. session' = StopSyncing(session) BY <1>3 DEF Answer, Becomes
  <2>2. session' \in Sessions /\ session'.at = "end" /\ Same(session, session')
    BY <2>1, InUpload, StopSyncingIs
  <2> QED BY <1>1, <2>2, InUpload, TurnEnds DEF Same, Downloading
<1> QED BY <1>2, <1>3

\* The tab is closed instead.
LEMMA UnansweredStep == ASSUME IndInv, Unanswered PROVE IndInv'
<1> DEFINE t == [session EXCEPT !.conflicted = TRUE]
<1>1. /\ session.at = "asked"
      /\ UNCHANGED <<server, link, local, copy, shared, temps, delivered, raced, drops, foreign, saves>>
  BY DEF Unanswered, Becomes
<1>2. t \in Sessions /\ Same(session, t) BY InUpload DEF Sessions, Same
<1>3. session' = After(t) BY DEF Unanswered, Becomes
<1> HIDE DEF t
<1>4. session' \in Sessions /\ session'.at = "end" /\ Same(t, session')
  BY <1>2, <1>3, AfterIs
<1> QED BY <1>1, <1>2, <1>4, InUpload, TurnEnds DEF Same, Downloading

\* A failed upload.
LEMMA UploadFailsStep ==
  ASSUME IndInv, NEW touched \in BOOLEAN, NEW made \in BOOLEAN, UploadFails(touched, made),
         session.at \in Uploading, made => session.at \in {"send", "place", "rename"}
  PROVE  IndInv'
<1>1. /\ session' \in Sessions /\ session'.at = "end"
      /\ session'.synced = session.synced /\ session'.stopping = session.stopping
      /\ session'.kept = session.kept
  BY InUpload, UploadFailsIs
<1>2. temps' \in Nat BY InUpload DEF UploadFails
<1>3. UNCHANGED <<server, link, local, copy, shared, delivered, raced, drops, foreign, saves>>
  BY DEF UploadFails
<1>4. session.at \notin Downloading \cup {"done"} BY DEF Downloading, Uploading
<1> QED BY <1>1, <1>2, <1>3, <1>4, InUpload, TurnEnds

\* Each way an upload fails.
LEMMA FailureSteps ==
  ASSUME IndInv, StageFails \/ SendFails \/ RenameFails \/ TruncateFails \/ FillFails
  PROVE  IndInv'
<1>1. CASE StageFails BY <1>1, UploadFailsStep DEF StageFails, Uploading
<1>2. CASE SendFails BY <1>2, UploadFailsStep DEF SendFails, Uploading
<1>3. CASE RenameFails BY <1>3, UploadFailsStep DEF RenameFails, Uploading
<1>4. CASE TruncateFails BY <1>4, UploadFailsStep DEF TruncateFails, Uploading
<1>5. CASE FillFails BY <1>5, UploadFailsStep DEF FillFails, Uploading
<1> QED BY <1>1, <1>2, <1>3, <1>4, <1>5

\* The upload starts, beside the file or in place.
LEMMA StageStep == ASSUME IndInv, NEW inPlace \in BOOLEAN, Stage(inPlace) PROVE IndInv'
<1> DEFINE place == IF inPlace THEN "truncate" ELSE "send"
<1>1. /\ session.at = "stage" /\ session' = [Trying EXCEPT !.at = place]
      /\ temps' = IF inPlace THEN temps ELSE temps + 1
      /\ UNCHANGED <<server, link, local, copy, shared, delivered, raced, drops, foreign, saves>>
  BY DEF Stage
<1>2. /\ place \in {"truncate", "send"} /\ place \in Places
      /\ temps' \in Nat /\ (place = "send" => temps' > 0)
  BY <1>1, InUpload DEF Places, Uploading
<1> HIDE DEF place
<1>3. session' \in Sessions /\ session'.at = place /\ Same(session, session')
  BY <1>1, <1>2, InUpload, TryingIs, PlacedIs DEF Same
<1>4. UploadIsKnowing' BY <1>1, <1>2, <1>3 DEF IndInv, UploadIsKnowing, Same
<1> QED BY <1>1, <1>2, <1>3, <1>4, InUpload, WatcherStep DEF Same, Downloading, Uploading

\* What is sent is the copy as it is now, no older than what was looked at.
LEMMA SendStep == ASSUME IndInv, Send PROVE IndInv'
<1>1. /\ session.at = "send" /\ local # Missing
      /\ session' = [session EXCEPT !.at = "place", !.sent = local]
      /\ UNCHANGED <<server, link, local, copy, shared, temps, delivered, raced, drops, foreign, saves>>
  BY DEF Send, Becomes
<1>2. local \in Saves /\ local = saves
  BY <1>1 DEF IndInv, Types, CopyIsLatest
<1>3. /\ session' \in Sessions /\ session'.at = "place" /\ session'.sent = local
      /\ session'.synced = session.synced /\ session'.now = session.now
      /\ session'.stopping = session.stopping /\ session'.kept = session.kept
      /\ session'.agreed = session.agreed /\ session'.remote = session.remote
  BY <1>1, <1>2, InUpload DEF Sessions, Places, Uploading
<1>4. UploadIsKnowing' BY <1>1, <1>3 DEF IndInv, UploadIsKnowing
<1>5. session.now \in Nat /\ session.now <= saves /\ temps > 0
  BY <1>1, InUpload DEF Uploading, IndInv, TempsAreThere
<1> QED BY <1>1, <1>2, <1>3, <1>4, <1>5, InUpload, WatcherStep DEF Downloading

\* The sent file is about to replace the server's.
LEMMA PlaceStep == ASSUME IndInv, Place PROVE IndInv'
<1>1. /\ session.at = "place"
      /\ UNCHANGED <<server, link, local, copy, shared, delivered, raced, drops, foreign, saves>>
  BY DEF Place
<1>2. CASE session' = StopSyncing(session) /\ temps' = temps - 1
  <2>1. session' \in Sessions /\ session'.at = "end" /\ Same(session, session')
    BY <1>2, InUpload, StopSyncingIs
  <2> QED BY <1>1, <1>2, <2>1, InUpload, TurnEnds DEF Same, Downloading
<1>3. CASE session' = [session EXCEPT !.at = "rename"] /\ temps' = temps
  <2>1. "rename" \in Places BY DEF Places, Uploading
  <2>2. session' \in Sessions /\ session'.at = "rename" /\ Same(session, session')
    BY <1>3, <2>1, InUpload, PlacedIs
  <2>3. UploadIsKnowing' BY <1>1, <2>2 DEF IndInv, UploadIsKnowing, Same
  <2>4. /\ session.now \in Nat /\ session.now <= saves /\ temps > 0
        /\ session.now <= session.sent /\ session.sent <= saves
    BY <1>1, InUpload DEF Uploading, IndInv, TempsAreThere, CopyIsLatest
  <2> QED BY <1>1, <1>3, <2>2, <2>3, <2>4, InUpload, WatcherStep DEF Same, Downloading
<1> QED BY <1>2, <1>3 DEF Place

\* What was looked at counts as synced, and is on the server.
LEMMA VerifyStep == ASSUME IndInv, Verify PROVE IndInv'
<1> DEFINE stamp == IF link /\ server # Gone THEN server ELSE NoStamp
<1>1. /\ session.at = "verify" /\ session' = Uploaded(stamp)
      /\ temps' = IF session.leftover /\ link /\ temps > 0 THEN temps - 1 ELSE temps
      /\ UNCHANGED <<server, link, local, copy, shared, delivered, raced, drops, foreign, saves>>
  BY DEF Verify
<1>2. stamp \in Stamps BY DEF IndInv, Types, Stamps
<1>3. temps' \in Nat BY <1>1, InUpload
<1> HIDE DEF stamp
<1>4. /\ session' \in Sessions /\ session'.at = "end" /\ session'.synced = session.now
      /\ session'.stopping = session.stopping /\ session'.kept = session.kept
  BY <1>1, <1>2, InUpload, UploadedIs
<1>5. session.now <= delivered BY <1>1 DEF IndInv, SyncedIsDelivered
<1> QED BY <1>1, <1>3, <1>4, <1>5, InUpload, TurnEnds DEF Downloading

\* A step of an upload that writes the server's file.
LEMMA WriteStep ==
  ASSUME IndInv,
         session.at \in Uploading,
         session' \in Sessions, session'.at \in {"verify", "fill", "end"},
         session'.synced = session.synced, session'.now = session.now,
         session'.stopping = session.stopping, session'.kept = session.kept,
         server' \in [by : {"them", "us", "cut", "gone", "folder"}, n : Int],
         delivered' \in 0 .. MaxSaves, delivered' >= delivered,
         session'.at = "verify" => session.now <= delivered',
         temps' \in Nat, link' \in BOOLEAN, raced' \in BOOLEAN, drops' \in Nat,
         UNCHANGED <<local, copy, shared, foreign, saves>>
  PROVE  IndInv'
<1>1. Types' BY DEF IndInv, Types
<1>2. CopyIsLatest' BY DEF IndInv, CopyIsLatest, Downloading, Uploading
<1>3. SyncedIsDelivered'
  <2>1. /\ session.synced \in Int /\ shared.synced \in Int /\ delivered \in Int /\ delivered' \in Int
        /\ session.synced <= delivered /\ shared.synced <= delivered
    BY EditAssumption DEF IndInv, SyncedIsDelivered, Types, Sessions, Saves
  <2> QED BY <2>1 DEF SyncedIsDelivered
<1>4. session.kept = FALSE /\ copy.dir /\ copy.kind # "open" /\ copy.told # "kept"
      /\ session.at \notin Downloading
  BY DEF IndInv, Types, Sessions, ClosingOrder, Downloading, Uploading
<1>5. ClosingOrder' BY <1>4 DEF IndInv, ClosingOrder, Downloading
<1>6. TempsAreThere' /\ UploadIsKnowing' BY DEF TempsAreThere, UploadIsKnowing
<1>7. LastSaveSurvives' BY <1>4 DEF IndInv, LastSaveSurvives
<1> QED BY <1>1, <1>2, <1>3, <1>5, <1>6, <1>7 DEF IndInv

\* What arrives counts, and nothing that arrived earlier stops counting.
LEMMA ArrivesIs ==
  ASSUME IndInv, NEW save \in Nat, save <= MaxSaves, Arrives(save)
  PROVE  delivered' \in 0 .. MaxSaves /\ delivered' >= delivered /\ delivered' >= save
BY InUpload, EditAssumption DEF Arrives

\* The rename lands, and what was sent counts as delivered.
LEMMA RenameStep == ASSUME IndInv, Rename PROVE IndInv'
<1>1. /\ session.at = "rename" /\ server' = [by |-> "us", n |-> session.sent]
      /\ Arrives(session.sent) /\ temps' = temps - 1 /\ raced' = FALSE
      /\ session' = [session EXCEPT !.at = "verify"]
      /\ UNCHANGED <<link, local, copy, shared, drops, foreign, saves>>
  BY DEF Rename
<1>2. /\ session.sent \in Nat /\ session.sent <= MaxSaves /\ session.now <= session.sent
      /\ session.now \in Nat
  BY <1>1, InUpload DEF IndInv, CopyIsLatest, Sessions, Saves, Uploading
<1>3. /\ session' \in Sessions /\ session'.at = "verify" /\ Same(session, session')
  BY <1>1, InUpload, PlacedIs DEF Places, Uploading
<1>4. delivered' \in 0 .. MaxSaves /\ delivered' >= delivered /\ session.now <= delivered'
  BY <1>1, <1>2, ArrivesIs, EditAssumption
<1>5. server' \in [by : {"them", "us", "cut", "gone", "folder"}, n : Int] BY <1>1, <1>2
<1>6. drops \in Nat BY DEF IndInv, Types
<1> QED BY <1>1, <1>3, <1>4, <1>5, <1>6, InUpload, WriteStep DEF Same, Uploading

\* The rename lands, and nobody hears of it.
LEMMA RenameUnansweredStep == ASSUME IndInv, RenameUnanswered PROVE IndInv'
<1> DEFINE t == [session EXCEPT !.remote = NoStamp, !.leftover = TRUE, !.back = FALSE]
<1>1. /\ session.at = "rename" /\ server' = [by |-> "us", n |-> session.sent]
      /\ Arrives(session.sent) /\ temps' = temps - 1 /\ raced' = FALSE
      /\ link' = FALSE /\ drops' = drops + 1
      /\ session' = Failed(t)
      /\ UNCHANGED <<local, copy, shared, foreign, saves>>
  BY DEF RenameUnanswered
<1>2. session.sent \in Nat /\ session.sent <= MaxSaves
  BY <1>1, InUpload DEF IndInv, CopyIsLatest, Sessions, Saves, Uploading
<1>3. /\ t \in Sessions /\ t.synced = session.synced /\ t.now = session.now
      /\ t.stopping = session.stopping /\ t.kept = session.kept
  <2>1. NoStamp \in Stamps BY DEF Stamps
  <2> HIDE DEF NoStamp
  <2> QED BY <2>1, InUpload DEF Sessions
<1> HIDE DEF t
<1>4. session' \in Sessions /\ session'.at = "end" /\ Same(t, session')
  BY <1>1, <1>3, FailedIs
<1>5. delivered' \in 0 .. MaxSaves /\ delivered' >= delivered
  BY <1>1, <1>2, ArrivesIs
<1>6. server' \in [by : {"them", "us", "cut", "gone", "folder"}, n : Int] BY <1>1, <1>2
<1>7. drops' \in Nat BY <1>1 DEF IndInv, Types
<1> QED BY <1>1, <1>3, <1>4, <1>5, <1>6, <1>7, InUpload, WriteStep DEF Same, Uploading

\* Written in place: the server's file is cut first.
LEMMA TruncateStep == ASSUME IndInv, Truncate PROVE IndInv'
<1>1. /\ session.at = "truncate" /\ server' = [by |-> "cut", n |-> session.now] /\ raced' = FALSE
      /\ session' = [session EXCEPT !.at = "fill"]
      /\ UNCHANGED <<link, local, copy, shared, temps, delivered, drops, foreign, saves>>
  BY DEF Truncate
<1>2. session' \in Sessions /\ session'.at = "fill" /\ Same(session, session')
  BY <1>1, InUpload, PlacedIs DEF Places, Uploading
<1>3. server' \in [by : {"them", "us", "cut", "gone", "folder"}, n : Int]
  BY <1>1, InUpload DEF Uploading
<1>4. delivered' \in 0 .. MaxSaves /\ delivered' >= delivered
  BY <1>1, InUpload, EditAssumption
<1>5. drops \in Nat BY DEF IndInv, Types
<1> QED BY <1>1, <1>2, <1>3, <1>4, <1>5, InUpload, WriteStep DEF Same, Uploading

\* Written in place: the rest follows.
LEMMA FillStep == ASSUME IndInv, Fill PROVE IndInv'
<1>1. /\ session.at = "fill" /\ local # Missing
      /\ server' = IF server.by = "cut" THEN [by |-> "us", n |-> local] ELSE server
      /\ Arrives(local)
      /\ session' = [session EXCEPT !.at = "verify"]
      /\ UNCHANGED <<link, local, copy, shared, temps, raced, drops, foreign, saves>>
  BY DEF Fill
<1>2. local \in Nat /\ local <= MaxSaves /\ local = saves /\ session.now \in Nat /\ session.now <= saves
  BY <1>1, InUpload DEF IndInv, CopyIsLatest, Types, Saves, Uploading
<1>3. session' \in Sessions /\ session'.at = "verify" /\ Same(session, session')
  BY <1>1, InUpload, PlacedIs DEF Places, Uploading
<1>4. delivered' \in 0 .. MaxSaves /\ delivered' >= delivered /\ session.now <= delivered'
  BY <1>1, <1>2, ArrivesIs, EditAssumption
<1>5. server' \in [by : {"them", "us", "cut", "gone", "folder"}, n : Int]
  BY <1>1, <1>2 DEF IndInv, Types
<1>6. drops \in Nat /\ raced \in BOOLEAN BY DEF IndInv, Types
<1> QED BY <1>1, <1>3, <1>4, <1>5, <1>6, InUpload, WriteStep DEF Same, Uploading

\* Steps of the session's that only the watcher's next turn sees.
LEMMA QuietStep ==
  ASSUME IndInv,
         session' \in Sessions, session'.at = session.at, Same(session, session'),
         link' \in BOOLEAN, drops' \in Nat,
         UNCHANGED <<server, local, copy, shared, temps, delivered, raced, foreign, saves>>
  PROVE  IndInv'
<1>1. Types' BY DEF IndInv, Types
<1>2. CopyIsLatest' BY DEF IndInv, CopyIsLatest, Same
<1>3. SyncedIsDelivered' BY DEF IndInv, SyncedIsDelivered, Same
<1>4. ClosingOrder' BY DEF IndInv, ClosingOrder, Same
<1>5. TempsAreThere' BY DEF IndInv, TempsAreThere
<1>6. UploadIsKnowing' BY DEF IndInv, UploadIsKnowing, Same
<1>7. LastSaveSurvives' BY DEF IndInv, LastSaveSurvives
<1> QED BY <1>1, <1>2, <1>3, <1>4, <1>5, <1>6, <1>7 DEF IndInv

\* The timer and the connection.
LEMMA QuietSteps ==
  ASSUME IndInv, TimerFires \/ Drop \/ Return
  PROVE  IndInv'
<1>1. session \in Sessions /\ link \in BOOLEAN /\ drops \in Nat BY DEF IndInv, Types
<1>2. CASE TimerFires
  <2>1. session' = [session EXCEPT !.retry = "due"] BY <1>2 DEF TimerFires
  <2>2. session' \in Sessions /\ session'.at = session.at /\ Same(session, session')
    BY <1>1, <2>1 DEF Sessions, Same
  <2> QED BY <1>1, <1>2, <2>2, QuietStep DEF TimerFires
<1>3. CASE Drop
  <2>1. session' = [session EXCEPT !.back = FALSE] BY <1>3 DEF Drop
  <2>2. session' \in Sessions /\ session'.at = session.at /\ Same(session, session')
    BY <1>1, <2>1 DEF Sessions, Same
  <2>3. /\ link' \in BOOLEAN /\ drops' \in Nat
        /\ UNCHANGED <<server, local, copy, shared, temps, delivered, raced, foreign, saves>>
    <3>1. drops' = drops + 1 /\ link' = FALSE BY <1>3 DEF Drop
    <3>2. drops' \in Nat BY <1>1, <3>1
    <3> QED BY <1>3, <3>1, <3>2 DEF Drop
  <2> QED BY <2>2, <2>3, QuietStep
<1>4. CASE Return
  <2>1. session' = [session EXCEPT !.back = TRUE] BY <1>4 DEF Return
  <2>2. session' \in Sessions /\ session'.at = session.at /\ Same(session, session')
    BY <1>1, <2>1 DEF Sessions, Same
  <2> QED BY <1>1, <1>4, <2>2, QuietStep DEF Return
<1> QED BY <1>2, <1>3, <1>4

-----------------------------------------------------------------------------
(* Downloading, closing, and what the user and others do. *)

\* The file is looked at before it is read.
LEMMA LookStep == ASSUME IndInv, Look PROVE IndInv'
<1>1. /\ session.at = "look" /\ session' = [session EXCEPT !.at = "fetch", !.remote = server]
      /\ UNCHANGED <<server, link, local, copy, shared, temps, delivered, raced, drops, foreign, saves>>
  BY DEF Look
<1>2. /\ session' \in Sessions /\ session'.at = "fetch" /\ session'.synced = session.synced
      /\ session'.stopping = session.stopping /\ session'.kept = session.kept
  <2>1. server \in Stamps /\ "fetch" \in Places BY DEF IndInv, Types, Stamps, Places
  <2> QED BY <1>1, <2>1, InUpload DEF Sessions
<1>3. Types' BY <1>1, <1>2 DEF IndInv, Types
<1>4. CopyIsLatest' BY <1>1, <1>2 DEF IndInv, CopyIsLatest, Downloading, Uploading
<1>5. SyncedIsDelivered' BY <1>1, <1>2 DEF IndInv, SyncedIsDelivered
<1>6. ClosingOrder' BY <1>1, <1>2 DEF IndInv, ClosingOrder, Downloading
<1>7. TempsAreThere' /\ UploadIsKnowing' BY <1>2 DEF TempsAreThere, UploadIsKnowing
<1>8. LastSaveSurvives' BY <1>1 DEF IndInv, LastSaveSurvives
<1> QED BY <1>3, <1>4, <1>5, <1>6, <1>7, <1>8 DEF IndInv

\* The copy is there.
LEMMA FetchStep == ASSUME IndInv, Fetch PROVE IndInv'
<1> DEFINE place == IF copy.kind = "edit" THEN "idle" ELSE "done"
<1>1. /\ session.at = "fetch" /\ local' = 0 /\ copy' = [copy EXCEPT !.listed = TRUE]
      /\ session' = [session EXCEPT !.at = place, !.synced = 0]
      /\ shared' = [shared EXCEPT !.synced = 0]
      /\ UNCHANGED <<server, link, temps, delivered, raced, drops, foreign, saves>>
  BY DEF Fetch
<1>2. /\ copy \in Copies /\ session \in Sessions /\ delivered \in Nat
      /\ shared \in [synced : Saves, syncing : BOOLEAN, behind : BOOLEAN] /\ 0 \in Saves
  BY EditAssumption DEF IndInv, Types, Copies, Saves
<1>3. place \in Places /\ place \in {"idle", "done"} /\ (copy.kind = "open" => place = "done")
  BY DEF Places
<1> HIDE DEF place
<1>4. /\ session' \in Sessions /\ session'.at = place /\ session'.synced = 0
      /\ session'.stopping = session.stopping /\ session'.kept = session.kept
  BY <1>1, <1>2, <1>3 DEF Sessions
<1>5. /\ copy' \in Copies /\ copy'.listed = TRUE /\ copy'.dir = copy.dir
      /\ copy'.stop = copy.stop /\ copy'.closedAt = copy.closedAt /\ copy'.told = copy.told
      /\ copy'.kind = copy.kind
  BY <1>1, <1>2 DEF Copies
<1>6. shared' \in [synced : Saves, syncing : BOOLEAN, behind : BOOLEAN] /\ shared'.synced = 0
  BY <1>1, <1>2
<1>7. /\ saves = 0 /\ copy.told = "none" /\ copy.closedAt = 0 /\ ~copy.stop /\ copy.dir /\ ~session.kept
      /\ ~session.stopping
  BY <1>1, <1>2 DEF IndInv, CopyIsLatest, ClosingOrder, Downloading
<1>8. Types' BY <1>1, <1>2, <1>4, <1>5, <1>6 DEF IndInv, Types, Copies
<1>9. CopyIsLatest' BY <1>1, <1>3, <1>4, <1>7 DEF CopyIsLatest, Downloading, Uploading
<1>10. SyncedIsDelivered' BY <1>1, <1>2, <1>3, <1>4, <1>6 DEF SyncedIsDelivered
<1>11. ClosingOrder' BY <1>1, <1>3, <1>4, <1>5, <1>7 DEF ClosingOrder, Downloading
<1>12. TempsAreThere' /\ UploadIsKnowing' BY <1>3, <1>4 DEF TempsAreThere, UploadIsKnowing
<1>13. LastSaveSurvives' BY <1>5, <1>7 DEF LastSaveSurvives
<1> QED BY <1>8, <1>9, <1>10, <1>11, <1>12, <1>13 DEF IndInv

\* There is no copy.
LEMMA DownloadFailsStep == ASSUME IndInv, DownloadFails PROVE IndInv'
<1>1. /\ session.at \in Downloading /\ copy' = [copy EXCEPT !.dir = FALSE]
      /\ session' = [session EXCEPT !.at = "done"]
      /\ UNCHANGED <<server, link, local, shared, temps, delivered, raced, drops, foreign, saves>>
  BY DEF DownloadFails, Downloading
<1>2. copy \in Copies /\ delivered \in Nat BY EditAssumption DEF IndInv, Types, Copies
<1>3. session' \in Sessions /\ session'.at = "done" /\ Same(session, session')
  BY <1>1, InUpload, PlacedIs DEF Places
<1>4. /\ copy' \in Copies /\ copy'.listed = copy.listed /\ copy'.dir = FALSE
      /\ copy'.stop = copy.stop /\ copy'.closedAt = copy.closedAt /\ copy'.told = copy.told
      /\ copy'.kind = copy.kind
  BY <1>1, <1>2 DEF Copies
<1>5. /\ ~copy.listed /\ copy.told = "none" /\ copy.closedAt = 0 /\ ~session.kept
      /\ ~session.stopping
  BY <1>1 DEF IndInv, ClosingOrder, Downloading
<1>6. Types' BY <1>1, <1>3, <1>4 DEF IndInv, Types, Copies
<1>7. CopyIsLatest' BY <1>1, <1>3 DEF IndInv, CopyIsLatest, Downloading, Uploading
<1>8. SyncedIsDelivered' BY <1>1, <1>3 DEF IndInv, SyncedIsDelivered, Same
<1>9. ClosingOrder' BY <1>1, <1>3, <1>4, <1>5 DEF IndInv, ClosingOrder, Downloading, Same
<1>10. TempsAreThere' /\ UploadIsKnowing' BY <1>3 DEF TempsAreThere, UploadIsKnowing
<1>11. LastSaveSurvives' BY <1>1, <1>2, <1>4, <1>5 DEF LastSaveSurvives
<1> QED BY <1>6, <1>7, <1>8, <1>9, <1>10, <1>11 DEF IndInv

\* What the user and the editor do to the copy.
LEMMA CopyStep ==
  ASSUME IndInv,
         copy' \in Copies, local' \in Saves, saves' \in 0 .. MaxSaves,
         copy'.kind = copy.kind,
         local' \in {Missing, saves'}, saves' >= saves,
         session.at \in Downloading => saves' = 0,
         ClosingOrder', LastSaveSurvives',
         UNCHANGED <<server, link, session, shared, temps, delivered, raced, drops, foreign>>
  PROVE  IndInv'
<1>1. Types' BY DEF IndInv, Types, Copies
<1>2. CopyIsLatest'
  <2>1. session.now \in Int /\ session.sent \in Int /\ saves \in Int /\ saves' \in Int
    BY EditAssumption, InUpload DEF Sessions, Saves
  <2> QED BY <2>1 DEF IndInv, CopyIsLatest
<1>3. SyncedIsDelivered' BY DEF IndInv, SyncedIsDelivered
<1>4. TempsAreThere' BY DEF IndInv, TempsAreThere
<1>5. UploadIsKnowing' BY DEF IndInv, UploadIsKnowing
<1> QED BY <1>1, <1>2, <1>3, <1>4, <1>5 DEF IndInv

\* The tab is closed: an opened copy goes at once unless it was saved.
LEMMA CloseStep == ASSUME IndInv, Close PROVE IndInv'
<1>1. /\ copy.listed /\ UNCHANGED <<server, link, session, shared, temps, delivered, raced, drops, foreign, saves>>
  BY DEF Close
<1>2. /\ copy \in Copies /\ local \in Saves /\ local \in {Missing, saves} /\ delivered \in Nat
      /\ saves \in 0 .. MaxSaves /\ Missing \in Saves /\ saves \in Nat
  BY EditAssumption DEF IndInv, Types, Copies, CopyIsLatest, Saves
<1>3. copy.dir /\ ~copy.stop /\ session.at \notin Downloading
  BY <1>1 DEF IndInv, ClosingOrder
<1>4. (session.at = "remove" => FALSE) /\ (session.kept => session.at = "done") /\ ~session.stopping
  BY <1>3 DEF IndInv, ClosingOrder
<1>5. CASE copy.kind = "edit"
  <2>1. copy' = [copy EXCEPT !.listed = FALSE, !.stop = TRUE, !.told = "waiting", !.closedAt = local]
    BY <1>5 DEF Close
  <2>2. /\ copy' \in Copies /\ copy'.listed = FALSE /\ copy'.dir = TRUE /\ copy'.stop = TRUE
        /\ copy'.told = "waiting" /\ copy'.closedAt = local /\ copy'.kind = copy.kind
    BY <1>2, <1>3, <2>1 DEF Copies
  <2>3. local' = local BY <2>2 DEF Close
  <2>4. ClosingOrder' BY <1>1, <1>2, <1>3, <1>4, <1>5, <2>2, <2>3 DEF IndInv, ClosingOrder
  <2>5. LastSaveSurvives' BY <2>2 DEF LastSaveSurvives
  <2> QED BY <1>1, <1>2, <1>3, <2>2, <2>3, <2>4, <2>5, CopyStep
<1>6. CASE copy.kind # "edit"
  <2> DEFINE dir == local \notin {0, Missing}
             told == IF local \in {0, Missing} THEN "gone" ELSE "kept"
  <2>1. copy' = [copy EXCEPT !.listed = FALSE, !.closedAt = local, !.dir = dir, !.told = told]
    BY <1>6 DEF Close
  <2>2. /\ copy' \in Copies /\ copy'.listed = FALSE /\ copy'.dir = dir /\ copy'.stop = copy.stop
        /\ copy'.told = told /\ copy'.closedAt = local /\ copy'.kind = copy.kind
    <3>1. dir \in BOOLEAN /\ told \in {"gone", "kept"} OBVIOUS
    <3> HIDE DEF dir, told
    <3> QED BY <1>2, <2>1, <3>1 DEF Copies
  <2>3. local' = IF dir THEN local ELSE Missing BY <2>2 DEF Close
  <2>4. copy.kind = "open" /\ session.at = "done" /\ ~session.kept
    BY <1>2, <1>3, <1>6 DEF IndInv, ClosingOrder, Copies
  <2>5. /\ told # "waiting" /\ (told = "kept" => dir)
        /\ ~dir => local <= 0 /\ local' = Missing
        /\ dir => local' = local /\ local # Missing /\ local <= saves
    BY <1>2, <2>3
  <2>6. local' \in Saves /\ local' \in {Missing, saves} BY <1>2, <2>3
  <2> HIDE DEF dir, told
  <2>7. ClosingOrder'
    BY <1>1, <1>3, <1>4, <2>2, <2>4, <2>5 DEF IndInv, ClosingOrder, Downloading
  <2>8. LastSaveSurvives'
    <3>1. ~dir => delivered >= local BY <1>2, <2>5 DEF Saves
    <3> QED BY <1>1, <2>2, <2>5, <3>1 DEF LastSaveSurvives
  <2> QED BY <1>1, <1>2, <1>3, <2>2, <2>6, <2>7, <2>8, CopyStep
<1> QED BY <1>5, <1>6

\* close() answers; kept only when the watcher kept it.
LEMMA ToldStep ==
  ASSUME IndInv, NEW word \in {"running", "kept", "gone"}, Told(word),
         word = "kept" => session.kept
  PROVE  IndInv'
<1>1. /\ copy.told = "waiting" /\ copy' = [copy EXCEPT !.told = word]
      /\ UNCHANGED <<server, link, local, session, shared, temps, delivered, raced, drops, foreign, saves>>
  BY DEF Told
<1>2. /\ copy \in Copies /\ local \in Saves /\ local \in {Missing, saves}
      /\ saves \in 0 .. MaxSaves /\ saves \in Nat
  BY EditAssumption DEF IndInv, Types, Copies, CopyIsLatest
<1>3. /\ copy' \in Copies /\ copy'.listed = copy.listed /\ copy'.dir = copy.dir
      /\ copy'.stop = copy.stop /\ copy'.told = word /\ copy'.closedAt = copy.closedAt
      /\ copy'.kind = copy.kind
  BY <1>1, <1>2 DEF Copies
<1>4. session.kept => session.at = "done" /\ copy.dir BY DEF IndInv, ClosingOrder
<1>5. session.at \notin Downloading BY <1>1 DEF IndInv, ClosingOrder
<1>6. ClosingOrder' BY <1>1, <1>3, <1>4, <1>5 DEF IndInv, ClosingOrder
<1>7. LastSaveSurvives' BY <1>1, <1>3, <1>4 DEF IndInv, LastSaveSurvives
<1> QED BY <1>1, <1>2, <1>3, <1>5, <1>6, <1>7, CopyStep

\* The editor saves.
LEMMA SaveStep == ASSUME IndInv, Save PROVE IndInv'
<1>1. /\ session.at \notin Downloading /\ copy.dir /\ saves < MaxSaves /\ saves' = saves + 1
      /\ local' = saves + 1
      /\ UNCHANGED <<server, link, copy, session, shared, temps, delivered, raced, drops, foreign>>
  BY DEF Save, Downloading
<1>2. copy \in Copies /\ saves \in Nat /\ copy.closedAt \in Int
  BY EditAssumption DEF IndInv, Types, Copies, Saves
<1>3. local' \in Saves /\ saves' \in 0 .. MaxSaves /\ saves' >= saves
  BY <1>1, <1>2, EditAssumption DEF Saves
<1>4. ClosingOrder' BY <1>1, <1>2 DEF IndInv, ClosingOrder
<1>5. LastSaveSurvives' BY <1>1 DEF IndInv, LastSaveSurvives
<1> QED BY <1>1, <1>2, <1>3, <1>4, <1>5, CopyStep

\* The copy is deleted, or saved elsewhere.
LEMMA DeleteStep == ASSUME IndInv, Delete PROVE IndInv'
<1>1. /\ local > 0 /\ local' = Missing /\ copy' = [copy EXCEPT !.closedAt = 0]
      /\ UNCHANGED <<server, link, session, shared, temps, delivered, raced, drops, foreign, saves>>
  BY DEF Delete
<1>2. /\ copy \in Copies /\ saves \in Nat /\ saves \in 0 .. MaxSaves /\ delivered \in Nat
      /\ local \in {Missing, saves} /\ 0 \in Saves /\ Missing \in Saves
  BY EditAssumption DEF IndInv, Types, Copies, Saves, CopyIsLatest
<1>3. /\ copy' \in Copies /\ copy'.listed = copy.listed /\ copy'.dir = copy.dir
      /\ copy'.stop = copy.stop /\ copy'.told = copy.told /\ copy'.closedAt = 0
      /\ copy'.kind = copy.kind
  BY <1>1, <1>2 DEF Copies
<1>4. session.at \notin Downloading BY <1>1, <1>2 DEF IndInv, CopyIsLatest
<1>5. ClosingOrder' BY <1>1, <1>2, <1>3, <1>4 DEF IndInv, ClosingOrder
<1>6. LastSaveSurvives' BY <1>1, <1>2, <1>3 DEF IndInv, LastSaveSurvives
<1> QED BY <1>1, <1>2, <1>3, <1>4, <1>5, <1>6, CopyStep

\* Others write: an upload under way is raced, one not begun asks.
LEMMA ForeignStep ==
  ASSUME IndInv, NEW version \in {Version("them", foreign + 1), Gone, Folder}, Foreign(version)
  PROVE  IndInv'
<1>1. /\ server' = version /\ foreign' = foreign + 1
      /\ raced' = (session.at \in Uploading \cup {"asked"})
      /\ UNCHANGED <<link, local, copy, session, shared, temps, delivered, drops, saves>>
  BY DEF Foreign
<1>2. foreign \in Nat BY DEF IndInv, Types
<1>3. server' \in [by : {"them", "us", "cut", "gone", "folder"}, n : Int]
  BY <1>1, <1>2
<1>4. Types' BY <1>1, <1>2, <1>3 DEF IndInv, Types
<1>5. UploadIsKnowing' BY <1>1 DEF UploadIsKnowing, Uploading
<1>6. CopyIsLatest' /\ SyncedIsDelivered' /\ TempsAreThere'
  BY <1>1 DEF IndInv, CopyIsLatest, SyncedIsDelivered, TempsAreThere
<1>7. ClosingOrder' /\ LastSaveSurvives'
  BY <1>1 DEF IndInv, ClosingOrder, LastSaveSurvives
<1> QED BY <1>4, <1>5, <1>6, <1>7 DEF IndInv

-----------------------------------------------------------------------------
\* Every step keeps the invariant.
LEMMA NextInd == IndInv /\ [Next]_vars => IndInv'
<1> SUFFICES ASSUME IndInv, [Next]_vars PROVE IndInv' OBVIOUS
<1>1. CASE Look \/ Fetch \/ DownloadFails
  BY <1>1, LookStep, FetchStep, DownloadFailsStep
<1>2. CASE Watch
  <2>1. CASE \E why \in {"poll", "stop", "back"} : Wake(why) BY <2>1, WakeStep
  <2>2. CASE Settle \/ EndOfLoop \/ RemoveCopy \/ Check \/ Unanswered
    BY <2>2, SettleStep, EndOfLoopStep, RemoveCopyStep, CheckStep, UnansweredStep
  <2>3. CASE \E inPlace \in BOOLEAN : Stage(inPlace) BY <2>3, StageStep
  <2>4. CASE StageFails \/ SendFails \/ RenameFails \/ TruncateFails \/ FillFails
    BY <2>4, FailureSteps
  <2>5. CASE Send \/ Place \/ Rename \/ Truncate \/ Fill \/ Verify
    BY <2>5, SendStep, PlaceStep, RenameStep, TruncateStep, FillStep, VerifyStep
  <2> QED BY <1>2, <2>1, <2>2, <2>3, <2>4, <2>5 DEF Watch
<1>3. CASE User BY <1>3, AnswerStep DEF User
<1>4. CASE TimerFires \/ Drop \/ Return BY <1>4, QuietSteps
<1>5. CASE RenameUnanswered BY <1>5, RenameUnansweredStep
<1>6. CASE Close BY <1>6, CloseStep
<1>7. CASE CloseEnds \/ CloseTimesOut
  <2>1. CASE CloseEnds /\ session.kept BY <2>1, ToldStep DEF CloseEnds
  <2>2. CASE CloseEnds /\ ~session.kept BY <2>2, ToldStep DEF CloseEnds
  <2>3. CASE CloseTimesOut BY <2>3, ToldStep DEF CloseTimesOut
  <2> QED BY <1>7, <2>1, <2>2, <2>3
<1>8. CASE Save \/ Delete BY <1>8, SaveStep, DeleteStep
<1>9. CASE \E version \in {Version("them", foreign + 1), Gone, Folder} : Foreign(version)
  BY <1>9, ForeignStep
<1>10. CASE UNCHANGED vars
  BY <1>10 DEF vars, IndInv, Types, CopyIsLatest, SyncedIsDelivered, ClosingOrder, TempsAreThere,
     UploadIsKnowing, LastSaveSurvives
<1> QED BY <1>1, <1>2, <1>3, <1>4, <1>5, <1>6, <1>7, <1>8, <1>9, <1>10 DEF Next

\* The inductive invariant holds in every reachable state.
THEOREM Inductive == Spec => []IndInv
<1>1. Init => IndInv BY InitInd
<1>2. IndInv /\ [Next]_vars => IndInv' BY NextInd
<1> QED BY <1>1, <1>2, PTL DEF Spec
-----------------------------------------------------------------------------
\* Types: a copy is at a save that was made, a temporary file is counted until it goes.
THEOREM TypeCorrect == Spec => []TypeOK
<1>1. IndInv => TypeOK
  <2> SUFFICES ASSUME IndInv PROVE TypeOK OBVIOUS
  <2>1. session.retry \in {"none", "set", "due"} /\ session.synced \in Saves
    BY DEF IndInv, Types, Sessions
  <2> QED BY <2>1 DEF IndInv, Types, Copies, Saves, TypeOK
<1> QED BY <1>1, Inductive, PTL

\* The copy's folder is removed only once everything saved before its tab was
\* closed was on the server.
THEOREM NoSaveIsLostOnClose == Spec => []LastSaveSurvives
<1>1. IndInv => LastSaveSurvives BY DEF IndInv
<1> QED BY <1>1, Inductive, PTL

\* Quitting tells of every edited copy with a save the server never got.
THEOREM QuittingTells == Spec => []QuitKnows
<1>1. IndInv => QuitKnows
  <2> SUFFICES ASSUME IndInv, delivered < local PROVE local # shared.synced
    BY DEF QuitKnows, Unsynced
  <2>1. /\ shared.synced \in Int /\ delivered \in Int /\ local \in Int
        /\ shared.synced <= delivered
    BY EditAssumption DEF IndInv, Types, Saves, SyncedIsDelivered
  <2> QED BY <2>1
<1> QED BY <1>1, Inductive, PTL

\* No step puts our version over someone else's that the watcher did not know
\* of, unless the user agreed or it came while the upload was under way.
THEOREM NothingIsReplacedUnasked == Spec => ReplacedKnowingly
<1> DEFINE Replacing == server.by = "them" /\ server'.by \in {"us", "cut"}
           Knowing == session.agreed \/ raced \/ session.remote \in {server, NoStamp}
<1>1. IndInv /\ [Next]_vars => [Replacing => Knowing]_vars
  <2> SUFFICES ASSUME IndInv, Next, Replacing PROVE Knowing OBVIOUS
  <2>1. server' # server OBVIOUS
  <2>2. CASE Rename \/ RenameUnanswered \/ Truncate
    BY <2>2 DEF IndInv, UploadIsKnowing, Rename, RenameUnanswered, Truncate
  <2>3. CASE Fill BY <2>3, <2>1 DEF Fill
  <2>4. CASE \E version \in {Version("them", foreign + 1), Gone, Folder} : Foreign(version)
    BY <2>4 DEF Foreign
  <2> QED
    BY <2>1, <2>2, <2>3, <2>4 DEF Next, Watch, User, Look, Fetch, DownloadFails, Wake, Settle, Enter,
       EndOfLoop, RemoveCopy, Check, Unanswered, Becomes, Answer, Stage, StageFails, Send, SendFails,
       Place, RenameFails, TruncateFails, FillFails, UploadFails, Verify, TimerFires, Close,
       CloseEnds, CloseTimesOut, Told, Save, Delete, Drop, Return
<1> QED BY <1>1, Inductive, PTL DEF Spec, ReplacedKnowingly
=============================================================================
